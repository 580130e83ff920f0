------------------------------ MODULE TracedCalls ------------------------------
(***************************************************************************)
(* The parameters of a trace of system calls.                              *)
(***************************************************************************)
EXTENDS Integers, FiniteSets

CONSTANTS
  Tids,         (* The traced threads.                                     *)
  Rets,         (* Values a call returns: an amount of bytes or an error.  *)
  Comms,        (* Command names a thread can carry.                       *)
  TraceBegin,   (* Timestamp of the first event, TraceSet::getBegin().     *)
  TraceEnd      (* Timestamp of the last event, TraceSet::getEnd().        *)

ASSUME TracedCallsAssumption ==
  /\ Rets \subseteq Int
  /\ TraceBegin \in Nat \ {0}
  /\ TraceEnd \in Nat
  /\ TraceBegin <= TraceEnd

ASSUME FiniteThreads == IsFiniteSet(Tids)

(* The calls ioanalysis.cpp looks at: readSyscalls, writeSyscalls and      *)
(* readWriteSyscalls.                                                      *)
IOTypes == {"READ", "WRITE", "READWRITE"}
===============================================================================
