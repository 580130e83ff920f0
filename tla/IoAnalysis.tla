------------------------------- MODULE IoAnalysis -------------------------------
(***************************************************************************)
(* The serial and the parallel I/O analysis reading the same trace:        *)
(* IoAnalysis::doExecuteSerial handles every event in one context, which   *)
(* is printed as it is.                                                    *)
(***************************************************************************)
EXTENDS IoChunks

VARIABLES
  data,         (* The context of the serial analysis.                     *)
  ended         (* Its handleEnd has run.                                  *)

bothVars == <<vars, data, ended>>

BothInit == Init /\ data = NewContext /\ ended = FALSE

SerialHandles(next) == ~ended /\ data' = next /\ UNCHANGED ended

BothEnter(t, type, comm, ts) ==
  /\ MapEnter(t, type, comm, ts)
  /\ SerialHandles(HandleReadWrite(data, EntryEvent(t, comm, ts), type))

BothEnterOther(t, ts) == MapEnterOther(t, ts) /\ SerialHandles(data)

BothExit(t, comm, ret, ts) ==
  /\ MapExit(t, comm, ret, ts)
  /\ SerialHandles(HandleExitSyscall(data, ExitEvent(t, comm, ret, ts)))

ParallelReduce == Reduce /\ UNCHANGED <<data, ended>>

ParallelEnd == End /\ UNCHANGED <<data, ended>>

(* The serial analysis ends after the last event of the trace.             *)
SerialEnd ==
  /\ phase # "map"
  /\ ~ended
  /\ ended' = TRUE
  /\ UNCHANGED <<vars, data>>

BothDone == phase = "done" /\ ended /\ UNCHANGED bothVars

BothNext ==
  \/ \E t \in Tids, ts \in now .. TraceEnd :
       \/ BothEnterOther(t, ts)
       \/ \E comm \in Comms :
            \/ \E type \in IOTypes : BothEnter(t, type, comm, ts)
            \/ \E ret \in Rets : BothExit(t, comm, ret, ts)
  \/ ParallelReduce
  \/ ParallelEnd
  \/ SerialEnd
  \/ BothDone

BothSpec == BothInit /\ [][BothNext]_bothVars

SerialUsage == INSTANCE IoUsage WITH
  known  <- {t \in Tids : data[t].currentSyscall # None},
  seen   <- {t \in Tids : data[t].present},
  name   <- [t \in Tids |-> data[t].comm],
  read   <- [t \in Tids |-> data[t].read],
  write  <- [t \in Tids |-> data[t].write],
  closed <- ended

(* The serial analysis charges every call that the trace shows entirely    *)
(* once, with its own latency and return value (handleReadWrite and        *)
(* handleExitSyscall, iocontext.cpp).                                      *)
SerialImplementsUsage == SerialUsage!Spec

(* The parallel analysis reports what the serial one reports: the same     *)
(* threads under the same names with the same bytes read and written.      *)
SameReport ==
  phase = "done" /\ ended => \A t \in Tids :
    /\ final[t].present = data[t].present
    /\ final[t].comm = data[t].comm
    /\ final[t].read = data[t].read
    /\ final[t].write = data[t].write
===============================================================================
