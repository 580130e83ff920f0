------------------------------- MODULE CpuSerial -------------------------------
(***************************************************************************)
(* The serial CPU analysis (CpuAnalysis::doExecuteSerial): one context     *)
(* handles every sched_switch of the trace, then handleEnd.  The trace     *)
(* declares sched_switch events: on any other doExecuteSerial returns      *)
(* before the loop and reports nothing, which is part of Program.          *)
(***************************************************************************)
EXTENDS SchedTrace, CpuContext

VARIABLES
  data,         (* The context.                                            *)
  ended         (* handleEnd has run.                                      *)

vars == <<running, now, data, ended>>

Init ==
  /\ TraceInit
  /\ data = NewContext(TraceBegin, TraceEnd)
  /\ ended = FALSE

Event(c, next, comm, ts) ==
  /\ ~ended
  /\ Switch(c, next, ts)
  /\ data' = HandleSchedSwitch(data, SwitchEvent(c, next, comm, ts))
  /\ UNCHANGED ended

End ==
  /\ ~ended
  /\ data' = PatchEndTasks(data)
  /\ ended' = TRUE
  /\ UNCHANGED <<running, now>>

Next ==
  \/ \E c \in Cpus, next \in AllTids, comm \in Comms, ts \in now .. TraceEnd :
       Event(c, next, comm, ts)
  \/ End

Spec == Init /\ [][Next]_vars

-------------------------------------------------------------------------------
(* What the context accounts for, in the terms of CpuUsage.                *)
Since == [c \in Cpus |-> IF data.cpus[c].currentTask = None THEN None
                         ELSE data.cpus[c].currentTask.start]
Busy  == [c \in Cpus |-> data.cpus[c].cpu_ns]
Spent == [t \in AllTids |-> data.tids[t].cpu_ns]
Name  == [t \in AllTids |-> data.tids[t].comm]

Usage == INSTANCE CpuUsage WITH
  since <- Since, busy <- Busy, spent <- Spent, name <- Name, closed <- ended

(* The serial analysis charges every CPU and every thread exactly the time *)
(* it is known to run, whatever the order in which CPUs switch tasks       *)
(* (handleSchedSwitch and handleEnd, cpucontext.cpp).                      *)
SerialImplementsUsage == Usage!Spec
===============================================================================
