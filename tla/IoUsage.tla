-------------------------------- MODULE IoUsage --------------------------------
(***************************************************************************)
(* What an I/O analysis promises, with no word of chunks, contexts or      *)
(* merging: every call whose entry and exit are both in the trace, and     *)
(* that did not fail, is charged once to its thread, in each direction in  *)
(* which it moves data; a thread carries the name it was first seen with.  *)
(***************************************************************************)
EXTENDS SyscallTrace

CONSTANT NoComm

VARIABLES
  known,        (* Threads in a read or write whose entry is in the trace. *)
  seen,         (* Threads of which an event was looked at.                *)
  name,         (* The name each of them was first seen with.              *)
  read, write,  (* Totals of every thread in each direction.               *)
  closed        (* The trace has been read to its end.                     *)

vars == <<call, last, now, known, seen, name, read, write, closed>>

Nothing == [t \in Tids |-> [latency |-> 0, bytes |-> 0, count |-> 0]]

Init ==
  /\ TraceInit
  /\ known = {}
  /\ seen = {}
  /\ name = [t \in Tids |-> NoComm]
  /\ read = Nothing
  /\ write = Nothing
  /\ closed = FALSE

See(t, comm) ==
  /\ seen' = seen \cup {t}
  /\ name' = [name EXCEPT ![t] = IF t \in seen THEN @ ELSE comm]

(* A thread enters a read or a write.                                      *)
Enter(t, type, comm, ts) ==
  /\ ~closed
  /\ EnterCall(t, type, ts)
  /\ known' = known \cup {t}
  /\ See(t, comm)
  /\ UNCHANGED <<read, write, closed>>

(* A thread enters a call the analysis is not interested in.               *)
EnterOther(t, ts) ==
  /\ ~closed
  /\ EnterCall(t, "OTHER", ts)
  /\ UNCHANGED <<known, seen, name, read, write, closed>>

Moved(total, t, types, ret, ts) ==
  IF t \in known /\ call[t] \in types /\ ret >= 0
  THEN [total EXCEPT ![t] = [latency |-> @.latency + (ts - last[t]),
                             bytes   |-> @.bytes + ret,
                             count   |-> @.count + 1]]
  ELSE total

(* A thread leaves the call it is in.                                      *)
Exit(t, comm, ret, ts) ==
  /\ ~closed
  /\ ExitCall(t, ts)
  /\ read'  = Moved(read, t, {"READ", "READWRITE"}, ret, ts)
  /\ write' = Moved(write, t, {"WRITE", "READWRITE"}, ret, ts)
  /\ known' = known \ {t}
  /\ See(t, comm)
  /\ UNCHANGED closed

(* The end of the trace: calls that have not returned are not charged.     *)
Close ==
  /\ ~closed
  /\ closed' = TRUE
  /\ UNCHANGED <<call, last, now, known, seen, name, read, write>>

Next ==
  \/ \E t \in Tids, ts \in now .. TraceEnd :
       \/ EnterOther(t, ts)
       \/ \E comm \in Comms :
            \/ \E type \in IOTypes : Enter(t, type, comm, ts)
            \/ \E ret \in Rets : Exit(t, comm, ret, ts)
  \/ Close

Spec == Init /\ [][Next]_vars
===============================================================================
