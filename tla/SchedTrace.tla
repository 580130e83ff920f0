------------------------------ MODULE SchedTrace ------------------------------
(***************************************************************************)
(* The recorded machine: what an LTTng kernel trace says about the CPUs.   *)
(*                                                                         *)
(* The trace is produced by the kernel tracer and read through             *)
(* tigerbeetle, neither of which is in the repository; this module states  *)
(* what the analyses take for granted about the sched_switch events they   *)
(* receive (the fields cpucontext.cpp reads, in the order TraceSet         *)
(* iterates).  The analyses extend this module, so that the same machine   *)
(* drives the serial analysis, the parallel one and the specification of   *)
(* what both must report.                                                  *)
(*                                                                         *)
(* `running` is the task each CPU really executes.  It is not visible to   *)
(* an analysis before the first event of that CPU.                         *)
(***************************************************************************)
EXTENDS TracedSystem

VARIABLES
  running,      (* The task each CPU executes.                             *)
  now           (* Timestamp of the latest context switch.                 *)

RunsElsewhere(t, c) == \E d \in Cpus \ {c} : running[d] = t

(* A thread runs on one CPU at a time; any number of CPUs may be idle.     *)
TraceInit ==
  /\ running \in [Cpus -> AllTids]
  /\ \A c \in Cpus : running[c] # Idle => ~RunsElsewhere(running[c], c)
  /\ now = TraceBegin

(* CPU c switches from the task it runs to another one at time ts.         *)
Switch(c, next, ts) ==
  /\ ts \in now .. TraceEnd
  /\ next \in AllTids \ {running[c]}
  /\ next # Idle => ~RunsElsewhere(next, c)
  /\ running' = [running EXCEPT ![c] = next]
  /\ now' = ts

(* The names the task of CPU c may have when it is switched out: a thread  *)
(* may change its name at any time, an idle task never does.  Thread 0 is  *)
(* thus seen on several CPUs, under a name on each.                        *)
Names(c) ==
  IF running[c] = Idle THEN {Swapper[c]} ELSE Comms \ {Swapper[d] : d \in Cpus}

(* The sched_switch event the tracer records for that switch.              *)
SwitchEvent(c, next, comm, ts) ==
  [cpu_id |-> c, prev_tid |-> running[c], prev_comm |-> comm,
   next_tid |-> next, timestamp |-> ts]
===============================================================================
