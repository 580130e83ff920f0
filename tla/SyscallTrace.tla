------------------------------ MODULE SyscallTrace ------------------------------
(***************************************************************************)
(* The recorded threads: what an LTTng kernel trace says about system      *)
(* calls.  As in SchedTrace, the tracer is outside the repository; this    *)
(* module states what iocontext.cpp takes for granted about the entry and  *)
(* exit events it receives: a thread is in one call at a time, it leaves   *)
(* the call it entered, and its own events carry increasing timestamps.    *)
(* At the beginning of the trace a thread may be inside any call.          *)
(*                                                                         *)
(* Calls other than reads and writes matter because exit_syscall, which is *)
(* one of ioanalysis.cpp's exitSyscalls, is recorded for every call while  *)
(* their entries are not looked at.                                        *)
(***************************************************************************)
EXTENDS TracedCalls

Calls == IOTypes \cup {"OTHER"}

VARIABLES
  call,         (* The call each thread is in, "NONE" outside of calls.    *)
  last,         (* When each thread entered or left its latest call.       *)
  now           (* Timestamp of the latest event.                          *)

TraceInit ==
  /\ call \in [Tids -> Calls \cup {"NONE"}]
  /\ last = [t \in Tids |-> TraceBegin - 1]
  /\ now = TraceBegin

Advance(t, ts) ==
  /\ ts \in now .. TraceEnd
  /\ ts > last[t]
  /\ last' = [last EXCEPT ![t] = ts]
  /\ now' = ts

EnterCall(t, kind, ts) ==
  /\ call[t] = "NONE"
  /\ Advance(t, ts)
  /\ call' = [call EXCEPT ![t] = kind]

ExitCall(t, ts) ==
  /\ call[t] # "NONE"
  /\ Advance(t, ts)
  /\ call' = [call EXCEPT ![t] = "NONE"]

(* The fields the handlers read of an entry and of an exit event.          *)
EntryEvent(t, comm, ts) == [tid |-> t, procname |-> comm, timestamp |-> ts]

ExitEvent(t, comm, ret, ts) ==
  [tid |-> t, procname |-> comm, ret |-> ret, timestamp |-> ts]
===============================================================================
