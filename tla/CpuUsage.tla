------------------------------- MODULE CpuUsage -------------------------------
(***************************************************************************)
(* What a CPU analysis promises, with no word of chunks, contexts or       *)
(* merging: every CPU is charged for the time it is known to run a task    *)
(* other than the swapper, every thread for the time it is known to run,   *)
(* and a thread is shown under the last command name it was seen with.     *)
(* Nothing is known of a CPU before its first context switch.  The serial  *)
(* and the parallel analysis are shown to implement this module.           *)
(***************************************************************************)
EXTENDS SchedTrace, SequencesExt

CONSTANTS None, NoComm

VARIABLES
  since,        (* When the CPU started the task it is known to run.       *)
  busy,         (* Time charged to each CPU.                               *)
  spent,        (* Time charged to each thread.                            *)
  name,         (* The command name shown for each thread.                 *)
  closed        (* The trace has been read to its end.                     *)

vars == <<running, now, since, busy, spent, name, closed>>

Init ==
  /\ TraceInit
  /\ since = [c \in Cpus |-> None]
  /\ busy = [c \in Cpus |-> 0]
  /\ spent = [t \in AllTids |-> 0]
  /\ name = [t \in AllTids |-> NoComm]
  /\ closed = FALSE

Elapsed(c, ts) == IF since[c] = None THEN 0 ELSE ts - since[c]

(* One context switch: the task that leaves the CPU is charged, the task   *)
(* that enters starts to be timed unless it is the swapper.                *)
Account(c, next, comm, ts) ==
  /\ ~closed
  /\ Switch(c, next, ts)
  /\ busy' = [busy EXCEPT ![c] = @ + Elapsed(c, ts)]
  /\ spent' = [spent EXCEPT ![running[c]] = @ + Elapsed(c, ts)]
  /\ name' = [name EXCEPT ![running[c]] = comm]
  /\ since' = [since EXCEPT ![c] = IF next = Idle THEN None ELSE ts]
  /\ UNCHANGED closed

(* CPUs known to be running thread t.                                      *)
Hosts(t) == {c \in Cpus : since[c] # None /\ running[c] = t}

(* At the end of the trace the tasks still running are charged to its end. *)
Close ==
  /\ ~closed
  /\ closed' = TRUE
  /\ busy' = [c \in Cpus |-> busy[c] + Elapsed(c, TraceEnd)]
  /\ spent' = [t \in AllTids |-> spent[t] +
                 SumFunctionOnSet([c \in Cpus |-> Elapsed(c, TraceEnd)], Hosts(t))]
  /\ since' = [c \in Cpus |-> None]
  /\ UNCHANGED <<running, now, name>>

Next ==
  \/ \E c \in Cpus, next \in AllTids, comm \in Comms, ts \in now .. TraceEnd :
       Account(c, next, comm, ts)
  \/ Close

Spec == Init /\ [][Next]_vars

-------------------------------------------------------------------------------
(* No CPU and no thread is ever charged more than the length of the trace. *)
WithinTrace ==
  /\ \A c \in Cpus : busy[c] <= TraceEnd - TraceBegin
  /\ \A t \in AllTids : spent[t] <= TraceEnd - TraceBegin

(* The CPUs together are charged what the threads together are charged.    *)
Balances == SumFunctionOnSet(busy, Cpus) = SumFunctionOnSet(spent, AllTids)
===============================================================================
