--------------------------- MODULE CpuContextProofs ---------------------------
(***************************************************************************)
(* What the handlers of CpuContext do to a context, field by field and     *)
(* with the types of the fields: the facts the proofs about the serial and *)
(* the parallel analysis rest on.                                          *)
(***************************************************************************)
EXTENDS CpuContext, SumFacts

Events == [cpu_id : Cpus, prev_tid : AllTids, prev_comm : Comms,
           next_tid : AllTids, timestamp : Nat]

(* The cpu is idle, unknown, or runs a task that started before ts.        *)
StartedBefore(cpu, ts) == cpu.currentTask # None => cpu.currentTask.start <= ts

(* The fields of a Cpu and of its tasks.                                   *)
LEMMA CpuFields ==
  ASSUME NEW cpu \in Cpu
  PROVE  /\ cpu.present \in BOOLEAN /\ cpu.cpu_ns \in Nat
         /\ cpu.currentTask # None =>
              /\ cpu.currentTask \in Task
              /\ cpu.currentTask.start \in Nat /\ cpu.currentTask.tid \in Tids
         /\ cpu.unknownTask # None =>
              /\ cpu.unknownTask \in UnknownTask
              /\ cpu.unknownTask.end \in Nat /\ cpu.unknownTask.tid \in Tids
BY DEF Cpu, Task, UnknownTask

(* A fresh context is well typed.                                          *)
LEMMA NewContextType ==
  ASSUME NEW s \in Nat, NEW e \in Nat
  PROVE  /\ NewContext(s, e) \in Contexts
         /\ \A c \in Cpus : NewContext(s, e).cpus[c] = NewCpu
         /\ \A t \in AllTids : NewContext(s, e).tids[t] = NewProcess
         /\ NewContext(s, e).start = s /\ NewContext(s, e).end = e
<1>1. NewCpu \in Cpu
  BY DEF NewCpu, Cpu
<1>2. NewProcess \in Process
  BY DEF NewProcess, Process
<1> QED
  BY <1>1, <1>2 DEF NewContext, Contexts

(* The time a task has run is a length of time.                            *)
LEMMA RanType ==
  ASSUME NEW cpu \in Cpu, NEW ts \in Nat, StartedBefore(cpu, ts)
  PROVE  Ran(cpu, ts) \in Nat
BY CpuFields DEF Ran, StartedBefore

(* handleSchedSwitch leaves a well-typed Cpu.                              *)
LEMMA SwitchCpuType ==
  ASSUME NEW cpu \in Cpu, NEW e \in Events, StartedBefore(cpu, e.timestamp)
  PROVE  SwitchCpu(cpu, e) \in Cpu
<1>1. /\ e.timestamp \in Nat
      /\ e.prev_tid # Idle => e.prev_tid \in Tids
      /\ e.next_tid # Idle => e.next_tid \in Tids
  BY DEF Events, AllTids
<1>2. Ran(cpu, e.timestamp) \in Nat
  BY <1>1, RanType
<1>3. cpu.cpu_ns + Ran(cpu, e.timestamp) \in Nat
  BY <1>2, CpuFields
<1>4. SwitchCpu(cpu, e).currentTask \in Task \cup {None}
  BY <1>1 DEF SwitchCpu, NextTask, Task
<1>5. SwitchCpu(cpu, e).unknownTask \in UnknownTask \cup {None}
  BY <1>1 DEF SwitchCpu, NextTask, UnknownTask, Cpu
<1> QED
  BY <1>3, <1>4, <1>5 DEF SwitchCpu, NextTask, Cpu

(* handleSchedSwitch leaves a well-typed context.                          *)
LEMMA HandleType ==
  ASSUME NEW ctx \in Contexts, NEW e \in Events,
         StartedBefore(ctx.cpus[e.cpu_id], e.timestamp)
  PROVE  HandleSchedSwitch(ctx, e) \in Contexts
<1> DEFINE h == HandleSchedSwitch(ctx, e)
           c == e.cpu_id
           p == e.prev_tid
           ran == Ran(ctx.cpus[c], e.timestamp)
<1>1. /\ c \in Cpus /\ p \in AllTids /\ e.prev_comm \in Comms /\ e.timestamp \in Nat
      /\ ctx.cpus[c] \in Cpu /\ ctx.tids[p] \in Process
  BY DEF Events, Contexts
<1>2. SwitchCpu(ctx.cpus[c], e) \in Cpu
  BY <1>1, SwitchCpuType
<1>3. ran \in Nat
  BY <1>1, RanType
<1>4. SwitchProcess(ctx.tids[p], e, ran) \in Process
  BY <1>1, <1>3 DEF SwitchProcess, Process
<1> HIDE DEF ran
<1>5. h.cpus \in [Cpus -> Cpu]
  BY <1>1, <1>2 DEF HandleSchedSwitch, Contexts
<1>6. h.tids \in [AllTids -> Process]
  BY <1>1, <1>4 DEF HandleSchedSwitch, Contexts, ran
<1>7. h.start \in Nat /\ h.end \in Nat
  BY DEF HandleSchedSwitch, Contexts
<1> QED
  BY <1>5, <1>6, <1>7 DEF HandleSchedSwitch, Contexts

(* handleEnd leaves a well-typed Cpu and a well-typed Process.             *)
LEMMA EndCpuType ==
  ASSUME NEW cpu \in Cpu, NEW end \in Nat, StartedBefore(cpu, end)
  PROVE  EndCpu(cpu, end) \in Cpu
<1>1. cpu.cpu_ns + Ran(cpu, end) \in Nat
  BY RanType, CpuFields
<1>2. cpu.present \in BOOLEAN /\ cpu.unknownTask \in UnknownTask \cup {None}
  BY DEF Cpu
<1> QED
  BY <1>1, <1>2 DEF EndCpu, Cpu

(* doEnd leaves processes processes, given that what it charges is not     *)
(* negative.                                                               *)
LEMMA EndProcessType ==
  ASSUME NEW ctx \in Contexts, NEW t \in AllTids,
         EndProcess(ctx, t).cpu_ns \in Nat
  PROVE  EndProcess(ctx, t) \in Process
<1>1. /\ ctx.tids[t].tid \in AllTids \cup {UnknownTid}
      /\ ctx.tids[t].comm \in Comms \cup {NoComm}
  BY DEF Contexts, Process
<1>2. EndProcess(ctx, t).present \in BOOLEAN
  BY DEF EndProcess
<1> QED
  BY <1>1, <1>2 DEF EndProcess, Process

-------------------------------------------------------------------------------
(* merge.  What it needs of its arguments: a thread is the unfinished task *)
(* of one CPU at most, and an unfinished task stops after it has started.  *)
Alone(ctx) ==
  \A c, d \in Cpus :
    /\ ctx.cpus[c].currentTask # None
    /\ ctx.cpus[d].currentTask # None
    /\ ctx.cpus[c].currentTask.tid = ctx.cpus[d].currentTask.tid
    => c = d

StopsLater(this, other) ==
  \A c \in Cpus : Continued(this, other, c) =>
    this.cpus[c].currentTask.start <= other.cpus[c].unknownTask.end

(* The time of a run that crosses the boundary is a length of time.        *)
LEMMA TaskTimeType ==
  ASSUME NEW this \in Contexts, NEW other \in Contexts, StopsLater(this, other),
         NEW c \in Cpus
  PROVE  TaskTime(this, other, c) \in Nat
<1>1. this.cpus[c] \in Cpu /\ other.cpus[c] \in Cpu
  BY DEF Contexts
<1> QED
  BY <1>1, CpuFields DEF TaskTime, Continued, StopsLater

(* The merge completes one run of a thread at most, and charges it.        *)
LEMMA MergeProcessTime ==
  ASSUME NEW this \in Contexts, NEW other \in Contexts,
         Alone(this), StopsLater(this, other), NEW t \in AllTids
  PROVE  LET both == this.tids[t].cpu_ns + other.tids[t].cpu_ns
         IN  /\ CompletedOn(this, other, t) = {} => MergeProcess(this, other, t).cpu_ns = both
             /\ \A c \in CompletedOn(this, other, t) :
                  MergeProcess(this, other, t).cpu_ns = both + TaskTime(this, other, c)
             /\ MergeProcess(this, other, t).cpu_ns \in Nat
<1> DEFINE both == this.tids[t].cpu_ns + other.tids[t].cpu_ns
           times == [c \in Cpus |-> TaskTime(this, other, c)]
           on == CompletedOn(this, other, t)
<1>1. both \in Nat
  BY DEF Contexts, Process
<1>2. MergeProcess(this, other, t).cpu_ns = both + SumFunctionOnSet(times, on)
  BY DEF MergeProcess, MergedName
<1>3. \A c \in Cpus : times[c] \in Nat /\ times[c] \in Int /\ times[c] = TaskTime(this, other, c)
  BY TaskTimeType
<1>4. \A c \in on : c \in Cpus /\ on = {c}
  BY DEF CompletedOn, Continued, Alone
<1> HIDE DEF both, times, on
<1>5. on = {} => SumFunctionOnSet(times, on) = 0
  BY SumOfNone
<1>6. ASSUME NEW c \in on
      PROVE  SumFunctionOnSet(times, on) = times[c] /\ times[c] \in Nat
  <2>1. on = {c} /\ times[c] \in Int /\ times[c] \in Nat
    BY <1>3, <1>4
  <2>2. SumFunctionOnSet(times, {c}) = times[c]
    BY <2>1, SumOfOne
  <2> QED
    BY <2>1, <2>2
<1>7. on = {} => MergeProcess(this, other, t).cpu_ns = both
  BY <1>1, <1>2, <1>5
<1>8. \A c \in on : MergeProcess(this, other, t).cpu_ns = both + TaskTime(this, other, c)
  BY <1>2, <1>3, <1>4, <1>6
<1>9. MergeProcess(this, other, t).cpu_ns \in Nat
  <2>1. CASE on = {}
    BY <1>1, <1>7, <2>1
  <2>2. CASE on # {}
    BY <1>1, <1>2, <1>6, <2>2
  <2> QED
    BY <2>1, <2>2
<1> QED
  BY <1>7, <1>8, <1>9 DEF both, on

(* merge leaves a well-typed context.                                      *)
LEMMA MergeCpuType ==
  ASSUME NEW this \in Contexts, NEW other \in Contexts, StopsLater(this, other),
         NEW c \in Cpus
  PROVE  MergeCpu(this, other, c) \in Cpu
<1>1. this.cpus[c] \in Cpu /\ other.cpus[c] \in Cpu
  BY DEF Contexts
<1>2. TaskTime(this, other, c) \in Nat
  BY TaskTimeType
<1>3. this.cpus[c].cpu_ns + other.cpus[c].cpu_ns + TaskTime(this, other, c) \in Nat
  BY <1>1, <1>2, CpuFields
<1>4. (this.cpus[c].present \/ other.cpus[c].present) \in BOOLEAN
  OBVIOUS
<1>5. /\ this.cpus[c].currentTask \in Task \cup {None}
      /\ other.cpus[c].currentTask \in Task \cup {None}
      /\ this.cpus[c].unknownTask \in UnknownTask \cup {None}
  BY <1>1 DEF Cpu
<1> QED
  BY <1>3, <1>4, <1>5 DEF MergeCpu, KeepsTask, Cpu

(* merge leaves contexts contexts, and treats every CPU and every thread   *)
(* on its own.                                                             *)
LEMMA MergeType ==
  ASSUME NEW this \in Contexts, NEW other \in Contexts, StopsLater(this, other)
  PROVE  /\ Merge(this, other) \in Contexts
         /\ \A c \in Cpus : Merge(this, other).cpus[c] = MergeCpu(this, other, c)
         /\ \A t \in AllTids : Merge(this, other).tids[t] = MergeProcess(this, other, t)
<1>1. \A c \in Cpus : MergeCpu(this, other, c) \in Cpu
  BY MergeCpuType
<1>2. ASSUME NEW t \in AllTids PROVE MergeProcess(this, other, t) \in Process
  <2>1. this.tids[t] \in Process /\ other.tids[t] \in Process
    BY DEF Contexts
  <2>2. MergeProcess(this, other, t).cpu_ns \in Nat
    <3> DEFINE times == [c \in Cpus |-> TaskTime(this, other, c)]
               on == CompletedOn(this, other, t)
    <3>1. IsFiniteSet(on) /\ \A c \in on : times[c] \in Nat
      BY FiniteSystem, FS_Subset, TaskTimeType DEF CompletedOn
    <3>2. MergeProcess(this, other, t).cpu_ns =
            this.tids[t].cpu_ns + other.tids[t].cpu_ns + SumFunctionOnSet(times, on)
      BY DEF MergeProcess, MergedName
    <3> HIDE DEF times, on
    <3>3. SumFunctionOnSet(times, on) \in Nat
      BY <3>1, SumNat
    <3> QED
      BY <2>1, <3>2, <3>3 DEF Process
  <2>3. /\ MergeProcess(this, other, t).present \in BOOLEAN
        /\ MergeProcess(this, other, t).tid \in AllTids \cup {UnknownTid}
        /\ MergeProcess(this, other, t).comm \in Comms \cup {NoComm}
    BY <2>1 DEF MergeProcess, MergedName, Process
  <2> QED
    BY <2>2, <2>3 DEF MergeProcess, MergedName, Process
<1>3. this.start \in Nat /\ this.end \in Nat /\ other.start \in Nat /\ other.end \in Nat
  BY DEF Contexts
<1> QED
  BY <1>1, <1>2, <1>3 DEF Merge, MergedStart, Contexts

(* Merging a fresh context changes no account.                             *)
LEMMA MergeWithNew ==
  ASSUME NEW this \in Contexts, NEW s \in Nat, NEW e \in Nat, Alone(this)
  PROVE  LET new == NewContext(s, e)
         IN  /\ StopsLater(this, new)
             /\ \A c \in Cpus :
                  /\ MergeCpu(this, new, c).cpu_ns = this.cpus[c].cpu_ns
                  /\ MergeCpu(this, new, c).currentTask = this.cpus[c].currentTask
             /\ \A t \in AllTids :
                  /\ MergeProcess(this, new, t).cpu_ns = this.tids[t].cpu_ns
                  /\ MergeProcess(this, new, t).comm = this.tids[t].comm
<1> DEFINE new == NewContext(s, e)
<1>1. /\ new \in Contexts
      /\ \A c \in Cpus : new.cpus[c] = NewCpu
      /\ \A t \in AllTids : new.tids[t] = NewProcess
  BY NewContextType
<1> HIDE DEF new
<1>2. \A c \in Cpus : ~Continued(this, new, c)
  <2>1. NewCpu.unknownTask = None
    BY DEF NewCpu
  <2> QED
    BY <1>1, <2>1 DEF Continued
<1>3. StopsLater(this, new)
  BY <1>2 DEF StopsLater
<1>4. ASSUME NEW c \in Cpus
      PROVE  /\ MergeCpu(this, new, c).cpu_ns = this.cpus[c].cpu_ns
             /\ MergeCpu(this, new, c).currentTask = this.cpus[c].currentTask
  <2>1. TaskTime(this, new, c) = 0 /\ this.cpus[c].cpu_ns \in Nat
    BY <1>2 DEF TaskTime, Contexts, Cpu
  <2>2. new.cpus[c].cpu_ns = 0 /\ new.cpus[c].currentTask = None /\ new.cpus[c].unknownTask = None
    BY <1>1 DEF NewCpu
  <2> QED
    BY <2>1, <2>2 DEF MergeCpu, KeepsTask
<1>5. ASSUME NEW t \in AllTids
      PROVE  /\ MergeProcess(this, new, t).cpu_ns = this.tids[t].cpu_ns
             /\ MergeProcess(this, new, t).comm = this.tids[t].comm
  <2>1. CompletedOn(this, new, t) = {}
    BY <1>2 DEF CompletedOn
  <2>2. MergeProcess(this, new, t).cpu_ns = this.tids[t].cpu_ns + new.tids[t].cpu_ns
    BY <1>1, <1>3, <2>1, MergeProcessTime
  <2>3. new.tids[t].cpu_ns = 0 /\ new.tids[t].present = FALSE /\ this.tids[t].cpu_ns \in Nat
    BY <1>1 DEF NewProcess, Contexts, Process
  <2> QED
    BY <2>2, <2>3 DEF MergeProcess, MergedName
<1> QED
  BY <1>3, <1>4, <1>5 DEF new

(* What merge takes for granted of the first switch of a chunk, e, on a    *)
(* CPU: a chunk that knows the CPU recorded the task it found there, or    *)
(* found it idle; a chunk that does not know it finds the unfinished task. *)
Continues(this, other, e) ==
  LET old == this.cpus[e.cpu_id]
      new == other.cpus[e.cpu_id]
  IN  /\ ~new.present => /\ new.cpu_ns = 0 /\ new.currentTask = None
                         /\ new.unknownTask = None
      /\ new.present /\ new.currentTask = None => e.prev_tid = Idle
      /\ old.currentTask # None =>
           IF new.present THEN new.unknownTask # None
           ELSE /\ e.prev_tid = old.currentTask.tid
                /\ old.currentTask.start <= e.timestamp

(* handleSchedSwitch and merge commute: a switch handled by the chunk and  *)
(* then merged is accounted for as if the merged context had handled it.   *)
LEMMA MergeAfterSwitch ==
  ASSUME NEW this \in Contexts, NEW other \in Contexts, NEW e \in Events,
         Alone(this), StopsLater(this, other), Continues(this, other, e),
         StartedBefore(other.cpus[e.cpu_id], e.timestamp)
  PROVE  LET next == HandleSchedSwitch(other, e)
             c == e.cpu_id
             p == e.prev_tid
             ran == Ran(MergeCpu(this, other, c), e.timestamp)
         IN  /\ StopsLater(this, next)
             /\ MergeCpu(this, next, c).cpu_ns = MergeCpu(this, other, c).cpu_ns + ran
             /\ MergeCpu(this, next, c).currentTask =
                  IF e.next_tid # Idle THEN [start |-> e.timestamp, tid |-> e.next_tid] ELSE None
             /\ \A d \in Cpus \ {c} : MergeCpu(this, next, d) = MergeCpu(this, other, d)
             /\ MergeProcess(this, next, p).cpu_ns = MergeProcess(this, other, p).cpu_ns + ran
             /\ MergeProcess(this, next, p).comm = e.prev_comm
             /\ \A t \in AllTids \ {p} :
                  /\ MergeProcess(this, next, t).cpu_ns = MergeProcess(this, other, t).cpu_ns
                  /\ MergeProcess(this, next, t).comm = MergeProcess(this, other, t).comm
<1> DEFINE next == HandleSchedSwitch(other, e)
           c == e.cpu_id
           p == e.prev_tid
           ts == e.timestamp
           ran == Ran(MergeCpu(this, other, c), ts)
           task == IF e.next_tid # Idle THEN [start |-> ts, tid |-> e.next_tid] ELSE None
           old == this.cpus[c]
           new == other.cpus[c]
           inner == Ran(new, ts)
<1>1. /\ c \in Cpus /\ p \in AllTids /\ ts \in Nat /\ old \in Cpu /\ new \in Cpu
      /\ next \in Contexts
      /\ inner \in Nat
  BY HandleType, RanType DEF Events, Contexts
<1>2. /\ next.cpus[c] = SwitchCpu(new, e)
      /\ \A d \in Cpus \ {c} : next.cpus[d] = other.cpus[d]
      /\ next.tids[p] = SwitchProcess(other.tids[p], e, inner)
      /\ \A t \in AllTids \ {p} : next.tids[t] = other.tids[t]
  BY <1>1 DEF HandleSchedSwitch, Contexts
<1>3. /\ next.cpus[c].cpu_ns = new.cpu_ns + inner
      /\ next.cpus[c].currentTask = task
      /\ next.cpus[c].unknownTask = IF new.currentTask = None /\ p # Idle
                                    THEN [end |-> ts, tid |-> p] ELSE new.unknownTask
      /\ next.tids[p].cpu_ns = other.tids[p].cpu_ns + inner
      /\ next.tids[p].comm = e.prev_comm /\ next.tids[p].present = TRUE
  BY <1>2 DEF SwitchCpu, NextTask, SwitchProcess
<1>4. \A d \in Cpus \ {c} : MergeCpu(this, next, d) = MergeCpu(this, other, d)
  BY <1>2 DEF MergeCpu, KeepsTask, TaskTime, Continued
<1>5. /\ MergeProcess(this, next, p).comm = e.prev_comm
      /\ \A t \in AllTids \ {p} :
           MergeProcess(this, next, t).comm = MergeProcess(this, other, t).comm
  BY <1>2, <1>3 DEF MergeProcess, MergedName
<1>6. \A t \in AllTids : /\ this.tids[t].cpu_ns \in Nat /\ other.tids[t].cpu_ns \in Nat
                         /\ MergeProcess(this, other, t).cpu_ns \in Nat
  BY MergeProcessTime DEF Contexts, Process
<1>7. /\ old.cpu_ns \in Nat /\ new.cpu_ns \in Nat
      /\ MergeCpu(this, other, c).cpu_ns = old.cpu_ns + new.cpu_ns + TaskTime(this, other, c)
      /\ MergeCpu(this, next, c).cpu_ns =
           old.cpu_ns + (new.cpu_ns + inner) + TaskTime(this, next, c)
      /\ TaskTime(this, other, c) \in Nat
  BY <1>1, <1>3, TaskTimeType, CpuFields DEF MergeCpu, KeepsTask
<1> HIDE DEF next, c, p, ts, ran, task, old, new, inner
(* The chunk already knows the CPU, or nothing was left running there: the *)
(* boundary plays no part in this switch.                                  *)
<1>8. ASSUME old.currentTask = None \/ new.present
      PROVE  /\ \A d \in Cpus : /\ Continued(this, next, d) <=> Continued(this, other, d)
                                /\ Continued(this, next, d) =>
                                     next.cpus[d].unknownTask = other.cpus[d].unknownTask
             /\ ran = inner
             /\ MergeCpu(this, next, c).currentTask = task
  <2>1. old.currentTask # None => next.cpus[c].unknownTask = new.unknownTask
    BY <1>3, <1>8 DEF Continues, old, new, p, c
  <2>2. \A d \in Cpus : this.cpus[d].currentTask # None =>
                          next.cpus[d].unknownTask = other.cpus[d].unknownTask
    BY <1>2, <2>1 DEF old, new
  <2>3. \A d \in Cpus :
          /\ Continued(this, next, d) <=> Continued(this, other, d)
          /\ Continued(this, next, d) =>
               next.cpus[d].unknownTask = other.cpus[d].unknownTask
    BY <2>2 DEF Continued
  <2>4. old.currentTask # None => new.unknownTask # None
    BY <1>8 DEF Continues, old, new, c
  <2>5. MergeCpu(this, other, c).currentTask = new.currentTask
    BY <2>4 DEF MergeCpu, KeepsTask, old, new
  <2>6. ran = inner
    BY <2>5 DEF Ran, ran, inner
  <2>7. MergeCpu(this, next, c).currentTask = task
    BY <1>3, <2>1, <2>4 DEF MergeCpu, KeepsTask, old
  <2> QED
    BY <2>3, <2>6, <2>7
(* The switch is the first the chunk sees of a CPU that was left running.  *)
<1>9. ASSUME old.currentTask # None, ~new.present
      PROVE  /\ ~Continued(this, other, c) /\ Continued(this, next, c)
             /\ old.currentTask.tid = p
             /\ next.cpus[c].unknownTask = [end |-> ts, tid |-> p]
             /\ inner = 0
             /\ ran = ts - old.currentTask.start
             /\ old.currentTask.start <= ts /\ old.currentTask.start \in Nat
             /\ MergeCpu(this, next, c).currentTask = task
  <2>1. /\ new.currentTask = None /\ new.unknownTask = None
        /\ p = old.currentTask.tid /\ old.currentTask.start <= ts
    BY <1>9 DEF Continues, old, new, c, p, ts
  <2>2. old.currentTask.start \in Nat /\ p \in Tids /\ p # Idle
    BY <1>1, <1>9, <2>1, CpuFields, TracedSystemAssumption
  <2>3. next.cpus[c].unknownTask = [end |-> ts, tid |-> p]
    BY <1>3, <2>1, <2>2
  <2>4. [end |-> ts, tid |-> p] # None
    BY <1>1, <2>2, CpuContextAssumption DEF UnknownTask
  <2>5. ~Continued(this, other, c) /\ Continued(this, next, c)
    BY <1>9, <2>1, <2>3, <2>4 DEF Continued, old, new
  <2>6. MergeCpu(this, other, c).currentTask = old.currentTask
    BY <1>9, <2>1 DEF MergeCpu, KeepsTask, old, new
  <2>7. ran = ts - old.currentTask.start /\ inner = 0
    BY <1>9, <2>1, <2>6 DEF Ran, ran, inner
  <2>8. MergeCpu(this, next, c).currentTask = task
    BY <1>3, <2>3, <2>4 DEF MergeCpu, KeepsTask
  <2> QED
    BY <2>1, <2>2, <2>3, <2>5, <2>7, <2>8
<1>10. StopsLater(this, next)
  <2>1. CASE old.currentTask = None \/ new.present
    BY <1>8, <2>1 DEF StopsLater
  <2>2. CASE old.currentTask # None /\ ~new.present
    BY <1>2, <1>9, <2>2 DEF StopsLater, Continued, old
  <2> QED
    BY <2>1, <2>2
<1>11. MergeCpu(this, next, c).cpu_ns = MergeCpu(this, other, c).cpu_ns + ran
  <2>1. CASE old.currentTask = None \/ new.present
    <3>1. TaskTime(this, next, c) = TaskTime(this, other, c)
      BY <1>1, <1>8, <2>1 DEF TaskTime
    <3> QED
      BY <1>1, <1>7, <1>8, <2>1, <3>1
  <2>2. CASE old.currentTask # None /\ ~new.present
    <3>1. TaskTime(this, other, c) = 0 /\ TaskTime(this, next, c) = ts - old.currentTask.start
      BY <1>9, <2>2 DEF TaskTime, old
    <3> QED
      BY <1>1, <1>7, <1>9, <2>2, <3>1
  <2> QED
    BY <2>1, <2>2
<1>12. /\ MergeProcess(this, next, p).cpu_ns = MergeProcess(this, other, p).cpu_ns + ran
       /\ \A t \in AllTids \ {p} :
            MergeProcess(this, next, t).cpu_ns = MergeProcess(this, other, t).cpu_ns
  <2>1. CASE old.currentTask = None \/ new.present
    <3>1. \A d \in Cpus : TaskTime(this, next, d) = TaskTime(this, other, d)
      BY <1>8, <2>1 DEF TaskTime
    <3>2. \A t \in AllTids : CompletedOn(this, next, t) = CompletedOn(this, other, t)
      BY <1>8, <2>1 DEF CompletedOn, SameTask
    <3>3. \A t \in AllTids :
            \/ /\ CompletedOn(this, other, t) = {} /\ CompletedOn(this, next, t) = {}
               /\ MergeProcess(this, other, t).cpu_ns = this.tids[t].cpu_ns + other.tids[t].cpu_ns
               /\ MergeProcess(this, next, t).cpu_ns = this.tids[t].cpu_ns + next.tids[t].cpu_ns
            \/ \E d \in Cpus : LET time == TaskTime(this, other, d) IN
               /\ time \in Nat
               /\ MergeProcess(this, other, t).cpu_ns =
                    this.tids[t].cpu_ns + other.tids[t].cpu_ns + time
               /\ MergeProcess(this, next, t).cpu_ns =
                    this.tids[t].cpu_ns + next.tids[t].cpu_ns + time
      <4> TAKE t \in AllTids
      <4>1. CASE CompletedOn(this, other, t) = {}
        BY <1>1, <1>10, <3>2, <4>1, MergeProcessTime
      <4>2. CASE CompletedOn(this, other, t) # {}
        <5>1. PICK d \in CompletedOn(this, other, t) : d \in Cpus
          BY <4>2 DEF CompletedOn
        <5>2. TaskTime(this, other, d) \in Nat
          BY <5>1, TaskTimeType
        <5> QED
          BY <1>1, <1>10, <3>1, <3>2, <5>1, <5>2, MergeProcessTime
      <4> QED
        BY <4>1, <4>2
    <3> QED
      BY <1>1, <1>2, <1>3, <1>6, <1>8, <2>1, <3>3
  <2>2. CASE old.currentTask # None /\ ~new.present
    <3>1. CompletedOn(this, other, p) = {}
      BY <1>1, <1>9, <2>2 DEF CompletedOn, Alone, Continued, old
    <3>2. c \in CompletedOn(this, next, p)
      BY <1>1, <1>9, <2>2 DEF CompletedOn, SameTask, old
    <3>3. TaskTime(this, next, c) = ran
      BY <1>9, <2>2 DEF TaskTime, old
    <3>4. /\ MergeProcess(this, next, p).cpu_ns =
               this.tids[p].cpu_ns + next.tids[p].cpu_ns + ran
          /\ MergeProcess(this, other, p).cpu_ns = this.tids[p].cpu_ns + other.tids[p].cpu_ns
      BY <1>1, <1>10, <3>1, <3>2, <3>3, MergeProcessTime
    <3>5. MergeProcess(this, next, p).cpu_ns = MergeProcess(this, other, p).cpu_ns + ran
      BY <1>1, <1>3, <1>6, <1>9, <2>2, <3>4
    <3>6. ASSUME NEW t \in AllTids \ {p}
          PROVE  MergeProcess(this, next, t).cpu_ns = MergeProcess(this, other, t).cpu_ns
      <4>1. \A d \in CompletedOn(this, next, t) \cup CompletedOn(this, other, t) :
              d \in Cpus \ {c}
        BY <1>9, <2>2 DEF CompletedOn, old
      <4>2. \A d \in Cpus \ {c} : TaskTime(this, next, d) = TaskTime(this, other, d)
        BY <1>2 DEF TaskTime, Continued
      <4>3. CompletedOn(this, next, t) = CompletedOn(this, other, t)
        BY <1>2, <4>1 DEF CompletedOn, Continued, SameTask
      <4>4. next.tids[t].cpu_ns = other.tids[t].cpu_ns
        BY <1>2
      <4>5. CASE CompletedOn(this, other, t) = {}
        BY <1>1, <1>10, <4>3, <4>4, <4>5, MergeProcessTime
      <4>6. CASE CompletedOn(this, other, t) # {}
        <5>1. PICK d \in CompletedOn(this, other, t) : TRUE
          BY <4>6
        <5> QED
          BY <1>1, <1>10, <4>1, <4>2, <4>3, <4>4, <5>1, MergeProcessTime
      <4> QED
        BY <4>5, <4>6
    <3> QED
      BY <3>5, <3>6
  <2> QED
    BY <2>1, <2>2
<1>13. MergeCpu(this, next, c).currentTask = task
  BY <1>8, <1>9
<1> QED
  BY <1>4, <1>5, <1>10, <1>11, <1>12, <1>13 DEF next, c, p, ts, ran, task

-------------------------------------------------------------------------------
(* The totals.  Nothing is assumed here of the threads the unfinished      *)
(* tasks belong to, so that the facts hold with discarded events too.      *)
CpuTimes(ctx) == [c \in Cpus |-> ctx.cpus[c].cpu_ns]
TidTimes(ctx) == [t \in AllTids |-> ctx.tids[t].cpu_ns]

(* There are finitely many threads.                                        *)
LEMMA FiniteTids == IsFiniteSet(AllTids)
BY FiniteSystem, FS_AddElement DEF AllTids

(* The totals of the two tables are sums of naturals over the CPUs and     *)
(* over the threads.                                                       *)
LEMMA Totals ==
  ASSUME NEW ctx \in Contexts
  PROVE  /\ CpuTotal(ctx) = SumFunctionOnSet(CpuTimes(ctx), Cpus)
         /\ TidTotal(ctx) = SumFunctionOnSet(TidTimes(ctx), AllTids)
         /\ CpuTotal(ctx) \in Nat /\ TidTotal(ctx) \in Nat
         /\ \A c \in Cpus : CpuTimes(ctx)[c] \in Nat
         /\ \A t \in AllTids : TidTimes(ctx)[t] \in Nat
<1>1. /\ DOMAIN CpuTimes(ctx) = Cpus /\ DOMAIN TidTimes(ctx) = AllTids
      /\ \A c \in Cpus : CpuTimes(ctx)[c] \in Nat
      /\ \A t \in AllTids : TidTimes(ctx)[t] \in Nat
  BY DEF CpuTimes, TidTimes, Contexts, Cpu, Process
<1>2. /\ CpuTotal(ctx) = SumFunctionOnSet(CpuTimes(ctx), Cpus)
      /\ TidTotal(ctx) = SumFunctionOnSet(TidTimes(ctx), AllTids)
  BY <1>1, SumOfFunction DEF CpuTotal, TidTotal, CpuTimes, TidTimes
<1>3. SumFunctionOnSet(CpuTimes(ctx), Cpus) \in Nat
  BY <1>1, FiniteSystem, SumNat
<1>4. SumFunctionOnSet(TidTimes(ctx), AllTids) \in Nat
  BY <1>1, FiniteTids, SumNat
<1> QED
  BY <1>1, <1>2, <1>3, <1>4

(* A fresh context charges nothing.                                        *)
LEMMA NewTotals ==
  ASSUME NEW s \in Nat, NEW e \in Nat
  PROVE  CpuTotal(NewContext(s, e)) = 0 /\ TidTotal(NewContext(s, e)) = 0
<1> DEFINE ctx == NewContext(s, e)
<1>1. ctx \in Contexts
  BY NewContextType
<1>2. /\ \A c \in Cpus : CpuTimes(ctx)[c] = 0
      /\ \A t \in AllTids : TidTimes(ctx)[t] = 0
  BY DEF NewContext, NewCpu, NewProcess, CpuTimes, TidTimes
<1> HIDE DEF ctx
<1>3. SumFunctionOnSet(CpuTimes(ctx), Cpus) = 0
  BY <1>2, FiniteSystem, SumOfZeros
<1>4. SumFunctionOnSet(TidTimes(ctx), AllTids) = 0
  BY <1>2, FiniteTids, SumOfZeros
<1>5. CpuTotal(ctx) = 0 /\ TidTotal(ctx) = 0
  BY <1>1, <1>3, <1>4, Totals
<1> QED
  BY <1>5 DEF ctx

(* handleSchedSwitch charges a CPU and a thread the same time.             *)
LEMMA HandleTotals ==
  ASSUME NEW ctx \in Contexts, NEW e \in Events,
         StartedBefore(ctx.cpus[e.cpu_id], e.timestamp)
  PROVE  LET ran == Ran(ctx.cpus[e.cpu_id], e.timestamp)
             next == HandleSchedSwitch(ctx, e)
         IN  /\ ran \in Nat
             /\ CpuTotal(next) = CpuTotal(ctx) + ran
             /\ TidTotal(next) = TidTotal(ctx) + ran
<1> DEFINE ran == Ran(ctx.cpus[e.cpu_id], e.timestamp)
           next == HandleSchedSwitch(ctx, e)
           c == e.cpu_id
           p == e.prev_tid
<1>1. next \in Contexts
  BY HandleType
<1>2. c \in Cpus /\ p \in AllTids /\ e.timestamp \in Nat /\ ctx.cpus[c] \in Cpu
  BY DEF Events, Contexts
<1>3. ran \in Nat
  BY <1>2, RanType
<1>4. /\ next.cpus = [ctx.cpus EXCEPT ![c] = SwitchCpu(ctx.cpus[c], e)]
      /\ next.tids = [ctx.tids EXCEPT ![p] = SwitchProcess(ctx.tids[p], e, ran)]
  BY DEF HandleSchedSwitch
<1> HIDE DEF next
<1>5. /\ CpuTimes(next)[c] = CpuTimes(ctx)[c] + ran
      /\ \A d \in Cpus \ {c} : CpuTimes(next)[d] = CpuTimes(ctx)[d]
  BY <1>2, <1>4 DEF CpuTimes, SwitchCpu, Contexts
<1> HIDE DEF ran
<1>6. /\ TidTimes(next)[p] = TidTimes(ctx)[p] + ran
      /\ \A t \in AllTids \ {p} : TidTimes(next)[t] = TidTimes(ctx)[t]
  BY <1>2, <1>4 DEF TidTimes, SwitchProcess, Contexts
<1>7. /\ \A d \in Cpus : CpuTimes(next)[d] \in Int /\ CpuTimes(ctx)[d] \in Int
      /\ \A t \in AllTids : TidTimes(next)[t] \in Int /\ TidTimes(ctx)[t] \in Int
  BY <1>1, Totals
<1> HIDE DEF c, p
<1>8. SumFunctionOnSet(CpuTimes(next), Cpus) =
        SumFunctionOnSet(CpuTimes(ctx), Cpus) + (CpuTimes(next)[c] - CpuTimes(ctx)[c])
  BY <1>2, <1>5, <1>7, FiniteSystem, SumChange
<1>9. SumFunctionOnSet(TidTimes(next), AllTids) =
        SumFunctionOnSet(TidTimes(ctx), AllTids) + (TidTimes(next)[p] - TidTimes(ctx)[p])
  <2>1. /\ p \in AllTids
        /\ \A t \in AllTids : TidTimes(next)[t] \in Int /\ TidTimes(ctx)[t] \in Int
        /\ \A t \in AllTids \ {p} : TidTimes(next)[t] = TidTimes(ctx)[t]
    BY <1>2, <1>6, <1>7
  <2> QED
    BY <2>1, FiniteTids, SumChange
<1>10. CpuTotal(next) = CpuTotal(ctx) + ran
  <2>1. CpuTimes(next)[c] - CpuTimes(ctx)[c] = ran
    BY <1>2, <1>3, <1>5, <1>7
  <2> QED
    BY <1>1, <1>8, <2>1, Totals
<1>11. TidTotal(next) = TidTotal(ctx) + ran
  <2>1. TidTimes(next)[p] - TidTimes(ctx)[p] = ran
    BY <1>2, <1>3, <1>6, <1>7
  <2> QED
    BY <1>1, <1>9, <2>1, Totals
<1> QED
  BY <1>3, <1>10, <1>11 DEF ran, next

(* merge charges the CPUs every run that crosses the boundary, the threads *)
(* only those of which both chunks name the same thread.                   *)
LEMMA MergeTotals ==
  ASSUME NEW this \in Contexts, NEW other \in Contexts, StopsLater(this, other)
  PROVE  \E cpu, tid \in Nat :
           /\ tid <= cpu
           /\ CpuTotal(Merge(this, other)) = CpuTotal(this) + CpuTotal(other) + cpu
           /\ TidTotal(Merge(this, other)) = TidTotal(this) + TidTotal(other) + tid
<1> DEFINE all == Merge(this, other)
           times == [c \in Cpus |-> TaskTime(this, other, c)]
           same == {c \in Cpus : Continued(this, other, c) /\ SameTask(this, other, c)}
           tid == [c \in Cpus |-> this.cpus[c].currentTask.tid]
           crossing == [t \in AllTids |-> SumFunctionOnSet(times, CompletedOn(this, other, t))]
<1>1. all \in Contexts
  BY MergeType
<1>2. /\ \A c \in Cpus : times[c] \in Nat
      /\ \A c \in Cpus : CpuTimes(all)[c] = CpuTimes(this)[c] + CpuTimes(other)[c] + times[c]
      /\ \A t \in AllTids :
           TidTimes(all)[t] = TidTimes(this)[t] + TidTimes(other)[t] + crossing[t]
  BY TaskTimeType DEF Merge, MergeCpu, MergeProcess, CpuTimes, TidTimes
<1>3. \A t \in AllTids : CompletedOn(this, other, t) = {c \in same : tid[c] = t}
  BY DEF CompletedOn
<1>4. /\ same \in SUBSET Cpus /\ IsFiniteSet(same)
      /\ \A c \in same : tid[c] \in AllTids
  <2>1. same \in SUBSET Cpus /\ IsFiniteSet(same)
    BY FiniteSystem, FS_Subset
  <2>2. ASSUME NEW c \in same PROVE tid[c] \in AllTids
    <3>1. this.cpus[c] \in Cpu /\ this.cpus[c].currentTask # None
      BY DEF Contexts, Continued
    <3> QED
      BY <3>1, CpuFields DEF AllTids
  <2> QED
    BY <2>1, <2>2
<1>5. crossing = [t \in AllTids |-> SumFunctionOnSet(times, {c \in same : tid[c] = t})]
  BY <1>3
<1> HIDE DEF all, times, same, tid
<1>6. \A t \in AllTids : crossing[t] \in Nat
  <2> TAKE t \in AllTids
  <2>1. IsFiniteSet({c \in same : tid[c] = t}) /\ {c \in same : tid[c] = t} \in SUBSET Cpus
    BY <1>4, FS_Subset
  <2>2. SumFunctionOnSet(times, {c \in same : tid[c] = t}) \in Nat
    BY <1>2, <2>1, SumNat
  <2> QED
    BY <1>5, <2>2
<1>7. SumFunctionOnSet(crossing, AllTids) = SumFunctionOnSet(times, same)
  <2>1. \A c \in same : times[c] \in Int /\ tid[c] \in AllTids
    BY <1>2, <1>4
  <2>2. SumFunctionOnSet([t \in AllTids |-> SumFunctionOnSet(times, {c \in same : tid[c] = t})],
                         AllTids) = SumFunctionOnSet(times, same)
    BY <1>4, <2>1, FiniteTids, SumByParts
  <2> QED
    BY <1>5, <2>2
<1> HIDE DEF crossing
<1>8. /\ SumFunctionOnSet(times, same) \in Nat /\ SumFunctionOnSet(times, Cpus) \in Nat
      /\ SumFunctionOnSet(times, same) <= SumFunctionOnSet(times, Cpus)
  <2>1. \A c \in same : times[c] \in Nat
    BY <1>2, <1>4
  <2> QED
    BY <1>2, <1>4, <2>1, FiniteSystem, SumNat, SumSubset
<1>9. /\ \A c \in Cpus : /\ CpuTimes(this)[c] \in Int /\ CpuTimes(other)[c] \in Int
                         /\ CpuTimes(all)[c] \in Int /\ times[c] \in Int
      /\ \A t \in AllTids : /\ TidTimes(this)[t] \in Int /\ TidTimes(other)[t] \in Int
                            /\ TidTimes(all)[t] \in Int /\ crossing[t] \in Int
  BY <1>1, <1>2, <1>6, Totals
<1>10. CpuTotal(all) = CpuTotal(this) + CpuTotal(other) + SumFunctionOnSet(times, Cpus)
  BY <1>1, <1>2, <1>9, FiniteSystem, SumOfThree, Totals
<1>11. TidTotal(all) = TidTotal(this) + TidTotal(other) + SumFunctionOnSet(times, same)
  <2>1. SumFunctionOnSet(TidTimes(all), AllTids) =
          SumFunctionOnSet(TidTimes(this), AllTids) + SumFunctionOnSet(TidTimes(other), AllTids)
            + SumFunctionOnSet(crossing, AllTids)
    BY <1>2, <1>9, FiniteTids, SumOfThree
  <2> QED
    BY <1>1, <1>7, <2>1, Totals
<1> QED
  BY <1>8, <1>10, <1>11 DEF all

(* handleEnd leaves a well-typed context, and charges every CPU that still *)
(* runs a task what it charges that task.                                  *)
LEMMA EndTotals ==
  ASSUME NEW ctx \in Contexts, \A c \in Cpus : StartedBefore(ctx.cpus[c], ctx.end)
  PROVE  /\ PatchEndTasks(ctx) \in Contexts
         /\ \E d \in Nat : /\ CpuTotal(PatchEndTasks(ctx)) = CpuTotal(ctx) + d
                           /\ TidTotal(PatchEndTasks(ctx)) = TidTotal(ctx) + d
<1> DEFINE end == PatchEndTasks(ctx)
           last == [c \in Cpus |-> Ran(ctx.cpus[c], ctx.end)]
           on == {c \in Cpus : ctx.cpus[c].currentTask # None}
           tid == [c \in Cpus |-> ctx.cpus[c].currentTask.tid]
           ended == [t \in AllTids |-> SumFunctionOnSet(last, StillRunning(ctx, t))]
<1>1. ctx.end \in Nat /\ ctx.start \in Nat /\ \A c \in Cpus : ctx.cpus[c] \in Cpu
  BY DEF Contexts
<1>2. /\ \A c \in Cpus : last[c] \in Nat
      /\ \A c \in Cpus \ on : last[c] = 0
      /\ \A c \in Cpus : CpuTimes(end)[c] = CpuTimes(ctx)[c] + last[c]
      /\ \A t \in AllTids : TidTimes(end)[t] = TidTimes(ctx)[t] + ended[t]
      /\ \A t \in AllTids : EndProcess(ctx, t).cpu_ns = TidTimes(ctx)[t] + ended[t]
  BY <1>1, RanType DEF PatchEndTasks, EndCpu, EndProcess, CpuTimes, TidTimes, Ran
<1>3. \A t \in AllTids : StillRunning(ctx, t) = {c \in on : tid[c] = t}
  BY DEF StillRunning
<1>4. /\ on \in SUBSET Cpus /\ IsFiniteSet(on)
      /\ \A c \in on : tid[c] \in AllTids
  <2>1. on \in SUBSET Cpus /\ IsFiniteSet(on)
    BY FiniteSystem, FS_Subset
  <2>2. ASSUME NEW c \in on PROVE tid[c] \in AllTids
    BY <1>1, CpuFields DEF AllTids
  <2> QED
    BY <2>1, <2>2
<1>5. ended = [t \in AllTids |-> SumFunctionOnSet(last, {c \in on : tid[c] = t})]
  BY <1>3
<1> HIDE DEF last, on, tid
<1>6. \A t \in AllTids : ended[t] \in Nat
  <2> TAKE t \in AllTids
  <2>1. IsFiniteSet({c \in on : tid[c] = t}) /\ {c \in on : tid[c] = t} \in SUBSET Cpus
    BY <1>4, FS_Subset
  <2>2. SumFunctionOnSet(last, {c \in on : tid[c] = t}) \in Nat
    BY <1>2, <2>1, SumNat
  <2> QED
    BY <1>5, <2>2
<1>7. SumFunctionOnSet(ended, AllTids) = SumFunctionOnSet(last, on)
  <2>1. \A c \in on : last[c] \in Int /\ tid[c] \in AllTids
    BY <1>2, <1>4
  <2>2. SumFunctionOnSet([t \in AllTids |-> SumFunctionOnSet(last, {c \in on : tid[c] = t})],
                         AllTids) = SumFunctionOnSet(last, on)
    BY <1>4, <2>1, FiniteTids, SumByParts
  <2> QED
    BY <1>5, <2>2
<1> HIDE DEF ended
<1>8. SumFunctionOnSet(last, Cpus) = SumFunctionOnSet(last, on)
  <2>1. \A c \in Cpus : last[c] \in Int
    BY <1>2
  <2> QED
    BY <1>2, <1>4, <2>1, FiniteSystem, SumOnSupport
<1>9. end \in Contexts
  <2>1. \A c \in Cpus : EndCpu(ctx.cpus[c], ctx.end) \in Cpu
    BY <1>1, EndCpuType
  <2>2. \A t \in AllTids : EndProcess(ctx, t) \in Process
    <3> TAKE t \in AllTids
    <3>1. TidTimes(ctx)[t] \in Nat
      BY Totals
    <3>2. EndProcess(ctx, t).cpu_ns \in Nat
      BY <1>2, <1>6, <3>1
    <3> QED
      BY <3>2, EndProcessType
  <2> QED
    BY <1>1, <2>1, <2>2 DEF PatchEndTasks, Contexts
<1> HIDE DEF end
<1>10. /\ \A c \in Cpus : CpuTimes(ctx)[c] \in Int /\ last[c] \in Int
       /\ \A t \in AllTids : TidTimes(ctx)[t] \in Int /\ ended[t] \in Int
  BY <1>2, <1>6, Totals
<1>11. CpuTotal(end) = CpuTotal(ctx) + SumFunctionOnSet(last, Cpus)
  BY <1>2, <1>9, <1>10, FiniteSystem, SumPlus, Totals
<1>12. TidTotal(end) = TidTotal(ctx) + SumFunctionOnSet(last, Cpus)
  <2>1. SumFunctionOnSet(TidTimes(end), AllTids) =
          SumFunctionOnSet(TidTimes(ctx), AllTids) + SumFunctionOnSet(ended, AllTids)
    BY <1>2, <1>10, FiniteTids, SumPlus
  <2> QED
    BY <1>7, <1>8, <1>9, <2>1, Totals
<1>13. SumFunctionOnSet(last, Cpus) \in Nat
  BY <1>2, FiniteSystem, SumNat
<1> QED
  BY <1>9, <1>11, <1>12, <1>13 DEF end

-------------------------------------------------------------------------------
(* The listing of the threads.                                             *)

(* A thread without an entry has no time.                                  *)
NoTimeUnseen(ctx) ==
  \A t \in AllTids : ~ctx.tids[t].present => ctx.tids[t].cpu_ns = 0

(* A new context has no time, ...                                          *)
LEMMA NoTimeNew ==
  ASSUME NEW s, NEW e
  PROVE  NoTimeUnseen(NewContext(s, e))
BY DEF NoTimeUnseen, NewContext, NewProcess

(* ... a switch creates the entry it charges, ...                          *)
LEMMA NoTimeSwitch ==
  ASSUME NEW ctx \in Contexts, NEW e \in Events, NoTimeUnseen(ctx)
  PROVE  NoTimeUnseen(HandleSchedSwitch(ctx, e))
<1>1. e.prev_tid \in AllTids /\ ctx.tids \in [AllTids -> Process]
  BY DEF Events, Contexts
<1>2. \A t \in AllTids : HandleSchedSwitch(ctx, e).tids[t] =
        IF t = e.prev_tid
        THEN SwitchProcess(ctx.tids[t], e, Ran(ctx.cpus[e.cpu_id], e.timestamp))
        ELSE ctx.tids[t]
  BY <1>1 DEF HandleSchedSwitch
<1>3. SwitchProcess(ctx.tids[e.prev_tid], e, Ran(ctx.cpus[e.cpu_id], e.timestamp)).present
  BY DEF SwitchProcess
<1> QED
  BY <1>2, <1>3 DEF NoTimeUnseen

(* ... a merge has the entries of both contexts and of the threads it      *)
(* charges, ...                                                            *)
LEMMA NoTimeMerge ==
  ASSUME NEW this, NEW other, NoTimeUnseen(this), NoTimeUnseen(other)
  PROVE  NoTimeUnseen(Merge(this, other))
<1> SUFFICES ASSUME NEW t \in AllTids, ~Merge(this, other).tids[t].present
             PROVE  Merge(this, other).tids[t].cpu_ns = 0
  BY DEF NoTimeUnseen
<1>1. Merge(this, other).tids[t] = MergeProcess(this, other, t)
  BY DEF Merge
<1> DEFINE time == [c \in Cpus |-> TaskTime(this, other, c)]
<1>2. SumFunctionOnSet(time, {}) = 0
  BY FS_EmptySet, SumUnfold
<1> HIDE DEF time
<1>3. /\ ~this.tids[t].present /\ ~other.tids[t].present /\ CompletedOn(this, other, t) = {}
  <2>1. MergeProcess(this, other, t).present =
          (this.tids[t].present \/ other.tids[t].present \/ CompletedOn(this, other, t) # {})
    BY DEF MergeProcess
  <2> QED
    BY <1>1, <2>1
<1>4. MergeProcess(this, other, t).cpu_ns =
        this.tids[t].cpu_ns + other.tids[t].cpu_ns
          + SumFunctionOnSet(time, CompletedOn(this, other, t))
  BY DEF MergeProcess, time
<1>5. this.tids[t].cpu_ns = 0 /\ other.tids[t].cpu_ns = 0
  BY <1>3 DEF NoTimeUnseen
<1> QED
  BY <1>1, <1>2, <1>3, <1>4, <1>5

(* ... and so has the end of the trace.                                    *)
LEMMA NoTimeEnd ==
  ASSUME NEW ctx, NoTimeUnseen(ctx)
  PROVE  NoTimeUnseen(PatchEndTasks(ctx))
<1> SUFFICES ASSUME NEW t \in AllTids, ~PatchEndTasks(ctx).tids[t].present
             PROVE  PatchEndTasks(ctx).tids[t].cpu_ns = 0
  BY DEF NoTimeUnseen
<1>1. PatchEndTasks(ctx).tids[t] = EndProcess(ctx, t)
  BY DEF PatchEndTasks
<1> DEFINE time == [c \in Cpus |-> Ran(ctx.cpus[c], ctx.end)]
<1>2. SumFunctionOnSet(time, {}) = 0
  BY FS_EmptySet, SumUnfold
<1> HIDE DEF time
<1>3. ~ctx.tids[t].present /\ StillRunning(ctx, t) = {}
  <2>1. EndProcess(ctx, t).present = (ctx.tids[t].present \/ StillRunning(ctx, t) # {})
    BY DEF EndProcess
  <2> QED
    BY <1>1, <2>1
<1>4. EndProcess(ctx, t).cpu_ns =
        ctx.tids[t].cpu_ns + SumFunctionOnSet(time, StillRunning(ctx, t))
  BY DEF EndProcess, time
<1>5. ctx.tids[t].cpu_ns = 0
  BY <1>3 DEF NoTimeUnseen
<1> QED
  BY <1>1, <1>2, <1>3, <1>4, <1>5

(* The list has one place for each entry.                                  *)
LEMMA ListLength ==
  ASSUME NEW ctx, NEW l \in SortedTids(ctx)
  PROVE  Len(l) \in Nat
<1> DEFINE S == {t \in AllTids : ctx.tids[t].present}
           N == Cardinality(S)
<1>1. N \in Nat
  BY FiniteTids, FS_Subset, FS_CardinalityType
<1>2. l \in [1 .. N -> S]
  BY DEF SortedTids, SetToSeqs
<1> QED
  BY <1>1, <1>2

(* A thread that is not among the first n of the list is not heavier than  *)
(* any of them.                                                            *)
LEMMA ListedHeaviest ==
  ASSUME NEW ctx \in Contexts, NoTimeUnseen(ctx), NEW l \in SortedTids(ctx),
         NEW n \in 0 .. Len(l)
  PROVE  /\ DOMAIN SubSeq(l, 1, n) = 1 .. n
         /\ \A i \in 1 .. n, t \in AllTids \ ToSet(SubSeq(l, 1, n)) :
              ctx.tids[t].cpu_ns <= ctx.tids[SubSeq(l, 1, n)[i]].cpu_ns
<1> DEFINE S == {t \in AllTids : ctx.tids[t].present}
           N == Cardinality(S)
<1>1. IsFiniteSet(S) /\ N \in Nat
  BY FiniteTids, FS_Subset, FS_CardinalityType
<1>2. /\ l \in [1 .. N -> S]
      /\ \A i, j \in 1 .. N : i # j => l[i] # l[j]
      /\ \A i, j \in 1 .. Len(l) : i < j => ctx.tids[l[i]].cpu_ns >= ctx.tids[l[j]].cpu_ns
  BY DEF SortedTids, SetToSeqs, IsSorted, Heavier
<1>3. \A t \in AllTids : t \in S <=> ctx.tids[t].present
  OBVIOUS
<1>4. S \subseteq AllTids
  OBVIOUS
<1> HIDE DEF S
<1>5. \A t \in S : \E i \in 1 .. N : l[i] = t
  BY <1>1, <1>2, OnceEach
<1>6. Len(l) = N /\ n \in Nat /\ n <= N /\ l \in Seq(S)
  BY <1>1, <1>2
<1>7. /\ DOMAIN SubSeq(l, 1, n) = 1 .. n
      /\ \A i \in 1 .. n : SubSeq(l, 1, n)[i] = l[i]
  BY <1>6
<1>8. \A t : (\E i \in 1 .. n : l[i] = t) => t \in ToSet(SubSeq(l, 1, n))
  BY <1>7 DEF ToSet
<1>9. ASSUME NEW i \in 1 .. n, NEW t \in AllTids, t \notin ToSet(SubSeq(l, 1, n))
      PROVE  ctx.tids[t].cpu_ns <= ctx.tids[l[i]].cpu_ns
  <2>1. \A r \in AllTids : ctx.tids[r].cpu_ns \in Nat
    BY DEF Contexts, Process
  <2>2. i \in 1 .. N /\ l[i] \in AllTids
    BY <1>1, <1>2, <1>4, <1>6
  <2>3. CASE t \in S
    <3>1. PICK j \in 1 .. N : l[j] = t
      BY <1>5, <2>3
    <3>2. j > n
      BY <1>1, <1>6, <1>8, <1>9, <3>1
    <3> QED
      BY <1>1, <1>2, <1>6, <2>1, <2>2, <2>3, <3>1, <3>2
  <2>4. CASE t \notin S
    BY <1>3, <2>1, <2>2, <2>4 DEF NoTimeUnseen, Contexts
  <2> QED
    BY <2>3, <2>4
<1> QED
  BY <1>7, <1>9
===============================================================================
