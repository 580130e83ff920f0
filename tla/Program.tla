-------------------------------- MODULE Program --------------------------------
(***************************************************************************)
(* One invocation of the program: main parses the command line, enters the *)
(* event loop, the timer calls execute(), which runs the analysis serially *)
(* or hands its workers to the map-reduce, prints the report and emits     *)
(* finished(); that ends the event loop.  For the count analysis the data  *)
(* are modelled too: events counted by the workers in an int.              *)
(***************************************************************************)
EXTENDS MapReduce

CONSTANTS
  ThreadCounts, (* Values of the --thread option.                          *)
  Events,       (* The number of events in each of MaxWorkers time ranges. *)
  IntBits       (* The width of an int.                                    *)

ASSUME ProgramAssumption ==
  /\ Pool \subseteq Nat \ {0}
  /\ ThreadCounts \subseteq Int
  /\ Events \in [1 .. MaxWorkers -> Nat]
  /\ IntBits \in Nat \ {0}

VARIABLES
  args,         (* What the command line asks for, and the trace.          *)
  phase,        (* Where the main thread is.                               *)
  exitCode,     (* What main returned, or -1.                              *)
  count,        (* The count analysis: the final result so far.            *)
  printed       (* The report has been printed.                            *)

mainVars == <<args, phase, exitCode, count, printed>>
programVars == <<vars, mainVars>>

(* parse() fails on options it does not know.  The last field tells        *)
(* whether the trace has any sched_switch event.                           *)
Args ==
  [known : BOOLEAN, help : BOOLEAN, version : BOOLEAN, serial : BOOLEAN,
   balanced : BOOLEAN, threads : ThreadCounts,
   analysis : {"count", "cpu", "io", "other"}, paths : 0 .. 2, schedSwitch : BOOLEAN]

analysisList == {"count", "cpu", "io"}

parseCommandLine(a) ==
  CASE ~a.known -> "Error"
    [] a.known /\ a.help -> "HelpRequested"
    [] a.known /\ ~a.help /\ a.version -> "VersionRequested"
    [] OTHER -> IF a.threads <= 0 \/ a.analysis \notin analysisList \/ a.paths # 1
                THEN "Error" ELSE "OK"

(* As many workers as threads, or the chunks are per stream and their      *)
(* number, 0 included, has nothing to do with that of the threads.         *)
ProgramInit ==
  /\ Init
  /\ args \in Args
  /\ args.analysis \in analysisList => job.analysis = args.analysis
  /\ ~args.balanced => job.workers > 0
  /\ ~args.balanced /\ args.threads \in 1 .. MaxWorkers => job.workers = args.threads
  /\ phase = "parsing"
  /\ exitCode = -1
  /\ count = 0
  /\ printed = FALSE

Exit(code) == phase' = "exited" /\ exitCode' = code

(* main up to a.exec().                                                    *)
Start ==
  /\ phase = "parsing"
  /\ CASE parseCommandLine(args) = "Error" -> Exit(1)
       [] parseCommandLine(args) \in {"HelpRequested", "VersionRequested"} -> Exit(0)
       [] OTHER -> phase' = "loop" /\ UNCHANGED exitCode
  /\ UNCHANGED <<vars, args, count, printed>>

-------------------------------------------------------------------------------
(* An int after additions that may overflow: the compilers wrap it.        *)
Int32(n) == ((n + 2 ^ (IntBits - 1)) % 2 ^ IntBits) - 2 ^ (IntBits - 1)

(* The events of the range of worker i; the last range reaches the end.    *)
EventsOf(i) ==
  IF i < job.workers THEN Events[i]
  ELSE SumFunctionOnSet(Events, job.workers .. MaxWorkers)

doMap(i) == Int32(EventsOf(i))

(* Wrong on purpose: the result is assigned, not added.                    *)
Assigned(final, intermediate) == intermediate

doReduce(final, intermediate) == Int32(final + intermediate)

(* The timer fires: execute().  The serial CPU analysis returns early from *)
(* a trace without sched_switch events.                                    *)
ExecuteSerial ==
  /\ phase = "loop"
  /\ args.serial
  /\ count' = IF args.analysis = "count" THEN Int32(SumFunction(Events)) ELSE count
  /\ printed' = (args.analysis = "cpu" => args.schedSwitch)
  /\ phase' = "executed"
  /\ UNCHANGED <<vars, args, exitCode>>

(* IoAnalysis overrides doExecuteParallelBalanced, ...                     *)
Balances == args.analysis # "io"

(* ... which then prints a message and nothing else: there is no report.   *)
BalancedUnsupported ==
  /\ phase = "loop"
  /\ ~args.serial
  /\ args.balanced /\ ~Balances
  /\ phase' = "executed"
  /\ UNCHANGED <<vars, args, exitCode, count, printed>>

ExecuteParallel ==
  /\ phase = "loop"
  /\ ~args.serial
  /\ args.balanced => Balances
  /\ phase' = "parallel"
  /\ UNCHANGED <<vars, args, exitCode, count, printed>>

(* A step of one of the pool's threads, args.threads of which run.         *)
PoolThread(p) ==
  /\ phase = "parallel"
  /\ p <= args.threads
  /\ Thread(p)
  /\ count' = IF job.analysis = "count" /\ merged' # merged
              THEN doReduce(count, doMap(Last(merged'))) ELSE count
  /\ UNCHANGED <<args, phase, exitCode, printed>>

(* future.result() returns; doEnd and printResults.                        *)
Report ==
  /\ phase = "parallel"
  /\ Return
  /\ printed' = TRUE
  /\ phase' = "executed"
  /\ UNCHANGED <<args, exitCode, count>>

(* Wrong on purpose: finished() is emitted by who prints the report.       *)
EmittedByPrinter == printed

(* execute() emits finished() whatever the analysis did.                   *)
Emitted == TRUE

Quit ==
  /\ phase = "executed"
  /\ Emitted
  /\ Exit(0)
  /\ UNCHANGED <<vars, args, count, printed>>

(* An event loop with nothing to do waits.                                 *)
Wait == phase \in {"loop", "executed", "exited"} /\ UNCHANGED programVars

MainThread ==
  Start \/ ExecuteSerial \/ BalancedUnsupported \/ ExecuteParallel \/ Report \/ Quit

ProgramNext == (\E p \in Pool : PoolThread(p)) \/ MainThread \/ Wait

(* As in MapReduce: no thread is kept from running for ever.               *)
ProgramSpec ==
  /\ ProgramInit /\ [][ProgramNext]_programVars
  /\ \A p \in Pool : WF_programVars(PoolThread(p))
  /\ WF_programVars(MainThread)

-------------------------------------------------------------------------------
(* Every invocation ends, in particular those that return before they have *)
(* printed anything, a serial CPU analysis without sched_switch events and *)
(* a balanced I/O analysis, those without any worker, and those with more  *)
(* workers than the pool has threads (traceanalysis.h:106-122,             *)
(* cpuanalysis.cpp:111-114, ioanalysis.h:55-58, main.cpp:201-205).         *)
Ends == <>(phase = "exited")

(* A count of the trace is printed.  Without a single worker none of its   *)
(* events has been looked at.                                              *)
CountPrinted == printed /\ job.analysis = "count" /\ (args.serial \/ job.workers > 0)

(* The parallel count is the serial one in whatever order the results are  *)
(* added, also when there are more events than an int can hold: both wrap  *)
(* alike, which does not make the count right (countanalysis.cpp:47-67).   *)
SameCount == CountPrinted => count = Int32(SumFunction(Events))

(* The count analysis is a "simple event count" (README.md:50): it reports *)
(* how many events the trace has, however many (countanalysis.cpp:65, 76). *)
CountsEvents == CountPrinted => count = SumFunction(Events)
===============================================================================
