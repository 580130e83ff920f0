----------------------------- MODULE TracedSystem -----------------------------
(***************************************************************************)
(* The parameters of a kernel trace: what was traced, and when.            *)
(***************************************************************************)
EXTENDS Integers, FiniteSets

CONSTANTS
  Cpus,         (* The traced processors.                                  *)
  Tids,         (* Thread ids other than 0.                                *)
  Idle,         (* Thread id 0, shared by the idle tasks of all CPUs.      *)
  Comms,        (* Command names.                                          *)
  Swapper,      (* That of the idle task of each CPU, swapper/N.           *)
  TraceBegin,   (* Timestamp of the first event, TraceSet::getBegin().     *)
  TraceEnd      (* Timestamp of the last event, TraceSet::getEnd().        *)

(* Timestamps are nanoseconds since the epoch, hence never 0 (CpuContext   *)
(* takes a start of 0 for "not set").                                      *)
ASSUME TracedSystemAssumption ==
  /\ Idle \notin Tids
  /\ Swapper \in [Cpus -> Comms]
  /\ TraceBegin \in Nat \ {0}
  /\ TraceEnd \in Nat
  /\ TraceBegin <= TraceEnd

(* A trace is a finite file: it names finitely many CPUs and threads.      *)
ASSUME FiniteSystem == IsFiniteSet(Cpus) /\ IsFiniteSet(Tids)

AllTids == Tids \cup {Idle}
===============================================================================
