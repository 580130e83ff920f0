# Verification of lttng-parallel-analyses

lttng-parallel-analyses computes reports from an LTTng kernel trace: how many
events it holds (`count`), how much CPU time every CPU and thread used (`cpu`),
how many bytes every thread read and wrote (`io`).  Each analysis runs either
serially, in one pass, or in parallel: the trace is cut into chunks (of equal time, or, with
`--balanced`, of about equal size in every stream), every chunk
is mapped to a context by a pool thread, and the contexts are merged.  The whole
difficulty is in the cuts: a task may run, and a system call may last, across
any number of chunks, and a chunk knows nothing of what came before it.

The question of this project is therefore: **does the parallel analysis report
what the serial one reports, and do both report what the trace says, wherever
the trace is cut and whatever the pool threads do?**

Paths below are relative to the repository's `src/` directory.

## 1. Inventory

| Component | State | Operations | Interacts with |
|---|---|---|---|
| CPU accounting (`cpu/cpucontext.*`) | per CPU: time charged, current task, unknown task; per thread: time, name; start and end | `handleSchedSwitch`, `handleEnd`, `merge` | called by the worker, by the serial analysis and by the reduction |
| CPU analysis (`cpu/cpuanalysis.*`) | one context per worker, one final context | `doMap`, `doReduce`, `doEnd`, `doExecuteSerial`, `printResults` | reads a trace, runs under the map-reduce |
| I/O accounting (`io/iocontext.*`) | per thread: current call, unknown call, totals of reads and writes, name | `handleSysRead`, `handleSysWrite`, `handleSysReadWrite`, `handleExitSyscall`, `handleEnd`, `getTidsByRead`, `getTidsByWrite`, `merge` | as for the CPU |
| I/O analysis (`io/ioanalysis.*`) | as for the CPU | as for the CPU | as for the CPU |
| Count analysis (`count/countanalysis.*`) | an `int` per worker and a final one | `doMap`, `doReduce`, `doExecuteSerial`, `printResults` | as for the CPU, with an unordered reduction |
| Unbalanced chunking (`common/traceanalysis.h:308-361`, `TraceWorker`) | array of positions, vector of workers | two loops, `TraceWorker` constructor | gives every worker its time range |
| Balanced chunking (`common/traceanalysis.h:159-306`) | a trace set and positions per stream, vector of workers of all streams, temporary directory | stream set-up in parallel, packet walk, sort by begin position, removal of the directory | file system, packet index |
| Packet index (`common/packetindex.*`) | the packet headers of a stream | constructor (reads the file, converts clock cycles) | balanced chunking |
| Map-reduce (`QtConcurrent::mappedReduced`) | results in flight, final result | map, reduce, wait for the result | pool threads call `doMap` and `doReduce`, the caller waits in `future.result()` |
| Command line (`main.cpp`) | options | parse, construct the analysis, run the event loop | sets the analysis up and calls `execute` once |
| Utilities (`common/utils.*`), `TraceWrapper` | none | look up an event id, format a size; `TraceWrapper` is used by nothing | |
| Trace reading (tigerbeetle, babeltrace) | external | events between two timestamps, in time order | every worker |

Behaviours that are hard to test, and what would be correct:

* *Runs and calls across chunks.*  A chunk records the first thing it sees end
  without having seen it begin (`unknownTask`, `unknownSyscall`) and the last
  thing it saw begin and not end (`currentTask`, `currentSyscall`); `merge` pairs
  them.  Chunks in which a CPU or a thread is silent lie between the two.  Every
  run and every call must be charged exactly once, to the right one, with its own
  duration.
* *Order of the reduction.*  Pool threads finish in any order; `merge` is right
  only in time order, and runs without a lock.
* *Ends of ranges.*  Events with equal timestamps, ranges without events, more
  threads than ticks, the remainder of a division: no event may be lost or read
  twice.
* *Lost events.*  LTTng discards events when its buffers are full.  A `merge` that
  relies on having seen every switch can then charge too much.
* *Defaults.*  `start == 0` stands for "not set"; `tids[...]` creates a process
  when it finds none.
* *Streams of their own.*  With `--balanced` every CPU's stream is cut on its own and
  the chunks of all streams are merged by begin position.  That is an order of time
  within one stream only: what belongs to a CPU is still merged in order, what belongs
  to a thread that migrates is not.
* *Shared state while the streams are set up*: pool threads work in one directory and
  insert into one map.  *Failures of the file system* are ignored by the code; *empty,
  missing or refused indices* lead to a null pointer, a division by zero, an exception.
* *Pointers into moved objects*: a worker holds pointers to its own fields, and both the
  vector and the sort move workers.
* *Early returns and the end of the event loop*: the program ends only if `finished()`
  is emitted, whatever the analysis did.

`PROJECT.json` lists each of these hazards at its line, with the properties that
would catch it.

## 2. Modules

```
  TracedSystem                                     TracedCalls
  SchedTrace        CpuContext                     SyscallTrace      IoContext
  |     |   \______ |  |  \________                 |     |   \______ |  |
  |  CpuUsage  CpuSerial  CpuChunks  |             |  IoUsage      IoChunks |
  |     ^       |refines    |refines |             |     ^            |refines
  |     +-------+-----------+        |             |     +------------+     |
  |          CpuAnalysis        CpuBalanced        |          IoAnalysis
  |         MCCpuAnalysis      MCCpuBalanced       |         MCIoAnalysis

  TimeSplit        StreamSetup          Reduction
  (equal time)          |                   ^ refines
                  BalancedSplit         MapReduce
                   (equal size)             |
                 MCBalancedSplit    Program, MCProgram
```

| Module | What it is | Code |
|---|---|---|
| `TracedSystem`, `TracedCalls` | parameters of a trace and the assumptions on them | |
| `SchedTrace` | what a trace says about the CPUs: an environment that produces context switches; threads may change their names, but the idle tasks, one per CPU, of which thread 0 stands for all, keep the name of their CPU | external; the event fields are those `cpucontext.cpp:29-33` reads |
| `SyscallTrace` | what a trace says about system calls | external; the fields `iocontext.cpp` reads |
| `CpuContext` | the accounting state and its handlers, as functions from a context to a context | `cpu/cpucontext.{h,cpp}` |
| `CpuUsage` | **abstract**: what a CPU analysis promises, with no word of chunks | |
| `CpuChunks` | the parallel analysis: map every range, merge in order, end, print | `cpu/cpuanalysis.cpp`, `traceanalysis.h:308-361` |
| `CpuSerial` | the serial analysis of a trace that declares `sched_switch`; of any other it prints nothing, which is in `Program` | `cpu/cpuanalysis.cpp:116-136` |
| `CpuAnalysis` | both over the same trace, compared | `traceanalysis.h:106-122` |
| `CpuBalanced` | the parallel analysis on chunks of streams, beside the serial one | `cpu/cpuanalysis.cpp`, `traceanalysis.h:242-302` |
| `IoContext` | the I/O accounting state and its handlers | `io/iocontext.{h,cpp}` |
| `IoUsage` | **abstract**: what an I/O analysis promises | |
| `IoChunks`, `IoAnalysis` | the parallel analysis; it and the serial one over the same trace | `io/ioanalysis.cpp`, `traceanalysis.h:308-361` |
| `TimeSplit` | the positions and ranges of the unbalanced chunking | `traceanalysis.h:308-347`, `368-383` |
| `StreamSetup` | pool threads that create the directories, links and trace sets of the streams, with operations that fail | `traceanalysis.h:159-214`, `305` |
| `BalancedSplit` | the whole of the balanced chunking on top of it: packet indices, cuts, workers and their moves, sort, removal | `traceanalysis.h:216-306`, `394-435`, `common/packetindex.*` |
| `Reduction` | **abstract**: what the analyses expect of a map-reduce | |
| `MapReduce` | pool threads mapping and reducing, for any of the three analyses | `traceanalysis.h:291-298`, `349-358`, QtConcurrent |
| `Program` | an invocation: command line, event loop, serial or parallel execution, the executions that print no report, exit; the count analysis with its data | `main.cpp`, `traceanalysis.h:106-157`, `io/ioanalysis.h:55-58`, `count/countanalysis.cpp` |
| `MC*` | symmetry and values for TLC | |
| `*Proofs`, `SumFacts` | theorems and lemmas | |

**How state corresponds.**  A hash or a vector keyed by CPU or thread is a function
over all of them; an entry the code has not created is the default-constructed
one with `present = FALSE`.  `boost::none` is the model value `None`.  A handler
`data.handleX(event)` is an operator `HandleX(ctx, e)`; the action that calls it
assigns `work' = HandleX(work, e)`.  A directory is its path, a `QDir` the path it
points to, `traceSets` the set of its keys together with what each set opened.  A
pointer a worker holds to its own field is the address of the worker it was taken of, one for each of its two pointers.  The moves also
null the pointers of the worker they leave, which is left out: that worker is destroyed
with the old allocation, or the sort assigns to it or destroys it next.

**How actions correspond.**  The environment draws the trace one event at a time and
the current worker (`chunk`, with its context `work`) handles it in the same step.
`Reduce` ends a worker: its context is merged and the next worker starts with a new
one.  `End` is `doEnd` followed by `printResults`.  Workers are taken in range
order: a worker reads only its own range of an immutable trace and writes only its
own context, so the outcome of a parallel run is determined by the order of the
merges, and that this order is the range order is what `MapReduce` establishes for
an ordered reduction.  Where a range ends is left open in `CpuChunks` and
`IoChunks` (any non-decreasing positions inside the trace); that the code's ranges
are of this kind is the property `RangesInOrder` of `TimeSplit`.

In `CpuBalanced` all chunks exist at once: an event of a CPU goes to
the chunk of that CPU's stream it falls in, and to the serial analysis; when the trace
is over, the chunks are merged in any order `std::sort` may leave.  That the code's
chunks partition the events of a stream, and come in order within it, is
`EveryEventOnce` and `StreamsInOrder` of `BalancedSplit`.  The I/O analysis has no
balanced execution: it overrides `doExecuteParallelBalanced()` to print a message and
return (`io/ioanalysis.h:55-58`), which is `BalancedUnsupported` of `Program`.

In `StreamSetup` every file-system call of the lambda is an action, the pool thread of
a stream has a program counter, and each call may fail; `emplace` takes two steps
between which another thread may run if the lock lets it.  `BalancedSplit` ends
abnormally (`crashed`) where the code throws, divides by zero or hands on a null
pointer.  `Program` starts in every combination of options; `Start` is `main` up to the
event loop, `ExecuteSerial`, `ExecuteParallel`, `BalancedUnsupported` and `Report` are `execute()`, `Quit` is
`finished()` reaching the application.  A step of a pool thread is a step of
`MapReduce` with, for the count analysis, the addition `doReduce` makes.  Without
`--balanced` there are as many workers as threads; with it, any number, and none when no
index file is listed, in which case the default-constructed result is printed.

The layers, chunking, reduction and accounting, meet at these interfaces.

Definitions commented "Wrong on purpose" are plausible mistakes in the code beside
them (a test left out, a reset forgotten, the wrong order).  Each property of a run
fails when one of them replaces the original; nothing else refers to them.

## 3. Runs

| Run | Instance | Shows |
|---|---|---|
| `cpu_run` | 2 CPUs, 2 threads, 3 chunks, 3 ticks | type correctness; the span of the report is the trace's (`SpanIsTrace`); the two tables agree (`TablesAgree`); the heaviest threads are printed (`HeaviestPrinted`); an unfinished task meets its end (`RunsMeet`); nothing above 100% (`AtMostFull`); the parallel report equals the serial one (`SameReport`), the trace declaring `sched_switch`; both analyses implement `CpuUsage` |
| `cpu_lossy` | 1 CPU, 2 threads, 2 names, 3 chunks, 3 ticks, events discarded anywhere | threads are never charged more than the CPUs (`ThreadsWithinCpus`); the serial analysis stays within 100% (`SerialAtMostFull`); both print the latest name (`SameNames`) |
| `cpu_lossy_overcount` | 2 CPUs, 1 thread, 2 chunks, 3 ticks, events discarded | **fails**: the parallel analysis can report a CPU above 100% (finding 1) |
| `cpu_labels` | 2 CPUs, 1 thread, 2 chunks, 3 ticks | **fails**: a thread can be printed as `(-1)` (finding 2) |
| `cpu_balanced` | 2 CPUs, 1 thread, 2 names, up to 3 chunks a stream, 2 ticks | the balanced report has the times (`SameTimes`) and the span (`SameSpan`) of the serial one, and the names of the threads that do not migrate (`PinnedSameNames`) |
| `io_run` | 2 threads, 2 names, 3 chunks, 3 ticks, a success and a failure | type correctness (no total below zero); both tables list the heaviest threads (`HeaviestListed`); an unfinished call meets its exit (`CallsMeet`); the parallel report equals the serial one (`SameReport`); both analyses implement `IoUsage` |
| `time_split` | traces up to 8 ticks, up to 5 threads | ranges follow one another (`RangesInOrder`) and every event is read once (`EveryEventOnce`) |
| `map_reduce` | 3 pool threads, 0 to 5 workers, each analysis | one reducer at a time (`OneReducer`); the map-reduce implements `Reduction`, liveness included (`ImplementsReduction`) |
| `program` | every combination of options, 0, 1 or 3 threads, up to 4 workers, a 4-bit `int` | every invocation ends (`Ends`), those that print no report included; the parallel count is the serial one (`SameCount`), which both sides being wrapped alike does not make right |
| `count_overflow` | the same | **fails**: the count that is printed is not the number of events (finding 4) |
| `balanced` | 2 streams, up to 2 failing operations, up to 3 packets of sizes 0, 1 and 4, 3 ticks | a stream nothing failed for is read by its own trace set and by no other (`HealthyStreamsIsolated`); every event of a stream is read once (`EveryEventOnce`); its chunks stay in order through the sort (`StreamsInOrder`); chunks are as small as they may be (`ChunksBalanced`); moved workers point to themselves (`PointersOwn`); a crash has one of the known causes (`CrashesOnlyFor`); nothing created is left (`NothingLeft`) |
| `system_temp` | the same with one packet, and a first `mkdir` that may fail | **fails**: the temporary directory of the system is removed (finding 3) |

**Why the bounds are enough for the interesting cases.** `merge` looks at one CPU (one
thread, for I/O) and two consecutive contexts at a time. Two CPUs are needed for a
thread to migrate and for two runs to be completed by one merge; two threads for one to
replace another; two chunks for a run to cross a boundary, three for a chunk in the
middle that sees nothing of it; three ticks for an event in each chunk. Context switches
may share a timestamp, so ticks do not bound their number; one thread enters and leaves
its calls at increasing times, which leaves it one event a tick, enough for a call over
an event-less chunk and for an exit without an entry. Discarded events break one CPU's
record at a time, so one CPU, with two threads and two names, affords three chunks. In
`cpu_balanced` a stream with two cuts has a first, a middle and a last chunk, of which
one is empty, as it is when packets end at the same time. Two streams suffice for chunks of one to come
between those of another. One thread beside the idle one is enough:
merging is per CPU and per thread. `time_split` contains exact divisions, remainders, a
step of 0 and a single thread. Three pool threads and five workers let two results wait
while one is being reduced. The ranges of `program` hold more events together than four
bits can count, also when no single one does. Two threads suffice for a lost insertion
in `traceSets`, two failures for a stream whose directory and whose link both fail, and
three packets for an average that some packets reach alone and others together, and
packets of size 0 for an average of 0. What
these instances leave out is, for the core, the subject of the theorems below.

`CHECK_DEADLOCK` is on everywhere: the only states without a real successor are those
in which the program has printed its report, has exited or has crashed, where a
`Finished` (in `Program`, `Wait`) disjunct stutters.  In `balanced` this is also the
check that no pool thread waits for the lock for ever.

### Fairness

`MapReduce` and `Program` have liveness properties.  They assume weak fairness of every
pool thread and of the calling (main) thread: `doMap` and `doReduce` are loops over
finite data that block on nothing, the timer of `main.cpp` fires at once, and the
operating system keeps running runnable threads.  Nothing is assumed about the order in
which threads are run, and only as many pool threads run as `--thread` allows.  In
`Program` the event loop may also wait (`Wait`), which fairness must, and does, not
forbid: `Ends` says that it is left.

## 4. Theorems

TLAPS proves, for every value of the constants that satisfies their assumptions:

| Theorem | States |
|---|---|
| `CpuAnalysisProofs` | |
| `ParallelRefinesUsage` †, `SerialRefinesUsage` † | the parallel and the serial CPU analysis implement `CpuUsage` |
| `SameAsSerial` † | `SameReport`: times, names and span of the two reports are equal |
| `NamesAreTheSame` | `SameNames`, discarded events or not |
| `ThreadsNeverExceedCpus` | `ThreadsWithinCpus`, discarded events or not |
| `TablesBalance` †, `NothingAboveFull` †, `UnfinishedTasksMeet` † | `TablesAgree`, `AtMostFull`, `RunsMeet` |
| `SerialNeverAboveFull`, `SpanOfReport`, `HeaviestArePrinted`, `WellTyped` | `SerialAtMostFull`, `SpanIsTrace`, `HeaviestPrinted`, `TypeOK`, discarded events or not |
| `UsageWithinTrace`, `UsageBalances` | what `CpuUsage` charges never exceeds the length of the trace, and CPUs and threads are charged the same in all |
| `CpuBalancedProofs!BalancedSameTimes`, `BalancedSameSpan`, `BalancedPinnedNames` | `SameTimes`, `SameSpan`, `PinnedSameNames`: with `--balanced`, the times of all CPUs and threads, the span and the names of the threads that stay on one CPU are those of the serial analysis |
| `CpuContextProofs!MergeAfterSwitch`, `MergeTotals` | handling a switch in a chunk and then merging counts as handling it in the merged context; a merge adds no more to the threads than to the CPUs |
| `IoAnalysisProofs` | |
| `ParallelRefinesUsage`, `SerialRefinesUsage` | the parallel and the serial I/O analysis implement `IoUsage` |
| `SameAsSerial` | `SameReport`: the two reports are equal |
| `UnfinishedCallsMeet`, `HeaviestAreListed`, `WellTyped` | `CallsMeet`, `HeaviestListed`, `TypeOK` |
| `TimeSplitProofs!Contiguous`, `Partition` | `RangesInOrder`, `EveryEventOnce` of `TimeSplit` |
| `BalancedSplitProofs` | |
| `StreamsAreIsolated`, `CrashesAreBlamed`, `EverythingRemoved` | `HealthyStreamsIsolated`, `CrashesOnlyFor`, `NothingLeft`, whatever fails |
| `EventsBelongOnce`, `WorkersInOrder`, `PointersAreOwn` | `EveryEventOnce`, `StreamsInOrder`, `PointersOwn` |
| `ChunksAreBalanced` | `ChunksBalanced`, packets of size 0 included |
| `OnlyTheFirstMkdir` | `SystemTempKept`, if the first `mkdir` succeeds: finding 3 has no other cause |
| `ProgramProofs!ReduceIsExclusive`, `SafelyReduces` | `OneReducer` and the safety part of `Reduction` for the map-reduce, every analysis and number of workers |
| `ProgramProofs!ProgramReducesExclusively`, `CountIsExact` | `OneReducer` and `SameCount` for the program |

The theorems marked † assume `~Lossy`, that no events were discarded; finding 1 shows
that `AtMostFull` needs it.  The other assumptions are those of the modules: a trace begins
at a timestamp above 0 and ends no earlier; CPUs and threads are finitely many; thread 0
is not among the other threads; there is at least one chunk; sentinels differ from the
data they stand beside; return values are integers; an `int` has at least one bit.

**What the parallel analyses know.**  The refinement mapping of both is *what merging
the current context now would give*: the abstract `busy[c]` is the time of
`MergeCpu(final, work, c)`, and so on.  A step of a worker then maps to one step of the
abstract specification because handlers and merge commute (`MergeAfterSwitch`,
`ChargeThenMerge`), and a `Reduce` step maps to a stutter because merging a new context
changes nothing.

Neither the properties nor the mapping can be shown from type correctness alone; the
strengthening `IInv` says what the two contexts know:

* a current task in `work` is what its CPU runs now, started at most now, and an
  unfinished task in `final` is what its CPU still runs, or `work` holds the
  `unknownTask` that ends it, of the same thread and not earlier than its start;
* a CPU of which `work` has an entry has a current task or is idle, so that an empty
  `currentTask` means *idle* and not *unknown*;
* a thread is the unfinished task of one CPU at most, so that a merge completes one
  run of a thread at most;
* the bounds of `final` are those of the ranges merged so far.

For I/O the invariant relates, thread by thread, the call the thread is in to the
current call of `work` if it knows the thread and of `final` otherwise, with its entry
time.

When events were discarded, most of this is false.  What is left is `AnyTraceInv`: tasks
lie within the ranges of their contexts, and each context charges the threads together
no more than the CPUs.  `merge` keeps it, although it looks up one unfinished task per
thread, because the runs it completes for threads are among those it completes for CPUs.

**Why the reports are equal.**  `CpuUsage` and `IoUsage` leave no choice but the trace,
so two implementations that start equal and follow the same trace agree on all the
abstract state speaks of.  The two analyses close the trace at different moments; in
between they agree on what they *owe* at its end (`Owed`).  Which rows the tables have,
and with which thread id, the abstract specification does not say: that the same entries
are created on both sides is followed separately (`Entries`, `Recorded`), and the names,
which do not depend on it, also through discarded events.

**Chunks of streams.**  With `--balanced` what is merged so far is no prefix of the
trace, and there is no abstract state it would stand for.  `CpuBalancedProofs` therefore
gives every chunk a part in the time of each CPU (`CpuPart`) and each thread (`TidPart`):
what it timed itself, and the run it finds under way when the chunks before it, of its
own stream, left a task (`Gap`).  The part does not depend on what is merged, so both
contexts account for sums of parts (`Accounts`), that of the serial analysis over all
chunks and the final one over those that are merged; when all are, the two are equal.
That a merge adds the part of its chunk needs that the chunks before it in its stream
have been merged (`InOrder`).  The sort by begin position puts them in that order except
for those that begin together, and of these at most one has seen an event: the others are
empty, and merging an empty chunk changes nothing.  Names of migrating threads follow the
order of the merges, those of the others the order within one stream.

**Sums, counts and lists.**  The community modules define a fold by a recursive function.
That it has a fixed point, and one only, is shown first; facts about sums then follow
from a smallest set for which they fail, which takes the place of an induction.  The
count is exact although its `int` may wrap, more than once, in a worker and in the
reduction: integers congruent modulo `2^IntBits` wrap to the same one.  A list as long as
a finite set, of distinct members of it, has them all (`OnceEach`); so the rows that are
cut off are no heavier than those printed.

**The chunking.**  `TimeSplit` is proved from `positions[i] = begin + (i - 1) * Step` and
`threads * Step <= end - begin`.  For the streams, `SetupInv` says in which directory a
thread can be at every step of the set-up, also after a `mkdir` or `cd` that failed; that
the links of a stream nothing failed for are in its own directory and no others are; that
`table` is `traceSets` while the lock is held; and that all that was created lies below
`tmpDir`.  `SplitInv` says that a stream is read once, that its workers part its time,
that the workers stay sorted once they are, and that both pointers of each are
to its own fields.  That
they part the time comes from the walk over the packets, whose cuts are in order and
reach the average as soon as they can.

**The map-reduce.**  The invariant is the partition of the workers into unclaimed, being
mapped, stored, being reduced and merged, with at most one thread reducing and, when
ordered, `merged` being exactly `1 .. progress - 1`.  Every step of `Program` is a step
of `MapReduce` or leaves it alone, so the invariant carries over.

**Only model-checked**: `Ends` and the liveness half of `ImplementsReduction`, as the
prover reasons about neither fairness nor `ENABLED`.

## 5. Findings

1. *A CPU above 100% when events were discarded* (`cpu_lossy_overcount`,
   `cpu/cpucontext.cpp:151`).  `merge` keeps an unfinished task when the next chunk has
   no unknown task, taking it that its end is not there.  If the switch that ended the
   task was discarded, the next chunk can still have timed other runs of that CPU; the
   kept task is then charged over them.  The serial analysis of the same events stays
   within 100% (`SerialAtMostFull`).
2. *A thread printed as `(-1)`* (`cpu_labels`, `cpu/cpucontext.cpp:81`).  A thread that
   is switched in and runs to the end of the trace was never the `prev` of a switch;
   `handleEnd` charges it through `tids[...]`, which creates a process with the
   default id and an empty name, and it is printed so.
3. *The system's temporary directory removed* (`system_temp`,
   `common/traceanalysis.h:168`, `169` and `305`).  `mkdir` and `cd` are not checked.  When
   `mkdir` fails, `tmpDir` still is `QDir::tempPath()`; the streams are set up there, and
   in the end `tmpDir.removeRecursively()`, under the comment "Remove the temporary
   directory", is applied to it.
4. *A wrong number of events* (`count_overflow`, `count/countanalysis.cpp:65`).  The count
   is an `int`, in the workers, in the reduction and in the serial execution.  A trace of
   more than 2^31 - 1 events overflows it, which compilers let wrap, and what is printed
   as "Number of events" is negative or too small.  `README.md:50` promises a "simple
   event count".  `SameCount` cannot see it, as both executions wrap alike; `CountsEvents`
   compares with the trace.

Met on the way, and not counted as findings because no run is needed to see them:

* `--analysis io --balanced` is accepted, prints "Balanced analysis not yet supported."
  and no report, and exits with 0 (`io/ioanalysis.h:55-58`, announced by
  `README.md:59-60`).  `scripts/benchmark.sh:31` gives `--balanced` to every analysis, so
  for I/O it would time that message.  (That script also passes an option `--type`,
  which `main.cpp` does not know and takes for an error.)
* `main.cpp:74` says that `--thread` is ignored with `--serial`; a number of threads that
  is not positive is an error with `--serial` too (`parseCommandLine` of `Program`).
* An index file that has lost its stream ends the balanced analysis with an exception; a
  stream that has lost its index is left out without a word.
* That exception, the null pointer passed on for an index that cannot be opened and the
  division by zero for an empty one are steps of `BalancedSplit`.  `CrashesOnlyFor` does
  not forbid them: it says that nothing else ends the program, a concurrent insertion in
  particular.  A program that crashes leaves its temporary directory behind;
  `NothingLeft` is about those that do not.

## 6. What is not modelled

* *Names of threads that migrate, with `--balanced`.*  `CpuBalanced` models them, but
  there is little to state: the name may be an older one (`cpu/cpucontext.cpp:125`: the
  chunk merged last wins, and it need not be the latest).  Hence the restriction of
  `PinnedSameNames` to pinned threads.
* *Latencies* are accumulated but not read by anything.
* *Widths*, other than that of the count: timestamps and times are 64-bit nanoseconds,
  far from overflow; a return value crosses a boundary in an `int`, and the kernel caps
  what a call moves below 2^31.
* *The clock conversion* of the packet index is kept only as what it does to the order of
  the packets; byte order and the fields of a header nobody reads are left out.
* *Discarded events* in the I/O analysis and in the balanced mode, and reuse of a
  thread id.
* The early return of the I/O handlers on traces without the tid context, verbose output,
  layout, formatting of sizes and percentages.
* *QtConcurrent* is modelled from its behaviour: its throttling of producers and the
  calling thread's help with running workers are left out; neither changes who may
  reduce.
* `TraceWrapper` (used by nothing), the lookup of event ids, build files and scripts: no
  state worth a model.

## 7. Plan

Done: the accounting (`CpuContext`, `IoContext`) with its abstract specifications, the
analyses on time ranges and on chunks of streams, the chunkings, the map-reduce and the
program, with the proofs of their safety.

Left: nothing of the safety the runs check.  Liveness (`Ends`, and that every job of the
map-reduce returns) stays with TLC.
