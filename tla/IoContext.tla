------------------------------- MODULE IoContext -------------------------------
(***************************************************************************)
(* The I/O accounting state and its handlers (src/io/iocontext.h and       *)
(* iocontext.cpp), as functions from a context to the context the handler  *)
(* leaves.  The `tids` hash is a function over every thread: a thread it   *)
(* does not contain has the default-constructed process, with `present`    *)
(* FALSE.  The name, fd and count of a Syscall are never read and are left *)
(* out.                                                                    *)
(***************************************************************************)
EXTENDS TracedCalls, SequencesExt

CONSTANTS
  NoComm,       (* The empty command name of a new process.                *)
  None          (* An empty boost::optional<Syscall>.                      *)

Syscall        == [type : IOTypes, start : Nat]
UnknownSyscall == [end : Nat, ret : Rets]
Total          == [latency : Nat, bytes : Nat, count : Nat]

IoProcess == [present : BOOLEAN, comm : Comms \cup {NoComm},
              currentSyscall : Syscall \cup {None},
              unknownSyscall : UnknownSyscall \cup {None},
              read : Total, write : Total]

Contexts == [Tids -> IoProcess]

ASSUME IoContextAssumption == None \notin Syscall \cup UnknownSyscall

NoTotal == [latency |-> 0, bytes |-> 0, count |-> 0]

NewProcess ==
  [present |-> FALSE, comm |-> NoComm, currentSyscall |-> None, unknownSyscall |-> None,
   read |-> NoTotal, write |-> NoTotal]

NewContext == [t \in Tids |-> NewProcess]

-------------------------------------------------------------------------------
Reads(type)  == type \in {"READ", "READWRITE"}
Writes(type) == type \in {"WRITE", "READWRITE"}

(* Wrong on purpose: a call that failed is charged too.                    *)
CountsErrors(moves, ret) == moves

Counts(moves, ret) == moves /\ ret >= 0

(* A total once a call that moves data in its direction has returned.      *)
Charged(total, moves, ret, latency) ==
  IF Counts(moves, ret)
  THEN [latency |-> total.latency + latency,
        bytes   |-> total.bytes + ret,
        count   |-> total.count + 1]
  ELSE total

(* The name of a process is that of the first event it was seen with.      *)
SeenComm(process, comm) == IF process.present THEN process.comm ELSE comm

EnterProcess(process, e, type) ==
  [present        |-> TRUE,
   comm           |-> SeenComm(process, e.procname),
   currentSyscall |-> [type |-> type, start |-> e.timestamp],
   unknownSyscall |-> process.unknownSyscall,
   read           |-> process.read,
   write          |-> process.write]

HandleReadWrite(ctx, e, type) == [ctx EXCEPT ![e.tid] = EnterProcess(@, e, type)]

(* Wrong on purpose: the exit is kept only by a process seen before.       *)
KeepsExitOfSeen(process) ==
  process.present /\ process.currentSyscall = None /\ process.unknownSyscall = None

KeepsExit(process) == process.currentSyscall = None /\ process.unknownSyscall = None

(* An exit without its entry is kept if it is the first of its thread.     *)
FirstExit(process, e) ==
  IF KeepsExit(process) THEN [end |-> e.timestamp, ret |-> e.ret] ELSE process.unknownSyscall

(* Wrong on purpose: currentSyscall is not reset.                          *)
StillInCall(process) == process.currentSyscall

CallAfterExit(process) == None

(* The call that returns is charged, and is current no more.               *)
ExitProcess(process, e) ==
  LET cur == process.currentSyscall
      Add(total, moves) == IF cur = None THEN total
                           ELSE Charged(total, moves, e.ret, e.timestamp - cur.start)
  IN  [present        |-> TRUE,
       comm           |-> SeenComm(process, e.procname),
       currentSyscall |-> CallAfterExit(process),
       unknownSyscall |-> FirstExit(process, e),
       read           |-> Add(process.read, Reads(cur.type)),
       write          |-> Add(process.write, Writes(cur.type))]

HandleExitSyscall(ctx, e) == [ctx EXCEPT ![e.tid] = ExitProcess(@, e)]

-------------------------------------------------------------------------------
(* merge: `this` is the reduction so far, `other` the next chunk.          *)
AddTotals(a, b) ==
  [latency |-> a.latency + b.latency, bytes |-> a.bytes + b.bytes, count |-> a.count + b.count]

(* The totals of a thread both contexts know, with the call `this` left    *)
(* unfinished if `other` saw it end.                                       *)
MergeTotal(this, other, a, b, moves) ==
  LET cur == this.currentSyscall
      unk == other.unknownSyscall
  IN  IF cur = None \/ unk = None
      THEN AddTotals(a, b)
      ELSE Charged(AddTotals(a, b), moves, unk.ret, unk.end - cur.start)

(* Wrong on purpose: the unfinished call of `this` is kept; the name of    *)
(* the later chunk wins.                                                   *)
UnfinishedCall(this, other) ==
  IF this.currentSyscall # None THEN this.currentSyscall ELSE other.currentSyscall

MergedCall(this, other) == other.currentSyscall

LatestComm(this, other) == other.comm

MergedComm(this, other) == this.comm

MergeKnown(this, other) ==
  [present        |-> TRUE,
   comm           |-> MergedComm(this, other),
   currentSyscall |-> MergedCall(this, other),
   unknownSyscall |-> this.unknownSyscall,
   read           |-> MergeTotal(this, other, this.read, other.read,
                                Reads(this.currentSyscall.type)),
   write          |-> MergeTotal(this, other, this.write, other.write,
                                Writes(this.currentSyscall.type))]

MergeProcess(this, other) ==
  CASE ~other.present -> this
    [] other.present /\ ~this.present -> other
    [] OTHER -> MergeKnown(this, other)

Merge(this, other) == [t \in Tids |-> MergeProcess(this[t], other[t])]

-------------------------------------------------------------------------------
(* Wrong on purpose: the table of writes keeps the order of the reads.     *)
ByWriteUnsorted(ctx, l) == {m \in SetToSeqs(ToSet(l)) : m = l}

(* handleEnd lists the processes in the arbitrary order of the hash; the   *)
(* list is sorted by bytes read for one table, then by bytes written for   *)
(* the other (std::list::sort is stable).                                  *)
ByRead(ctx) ==
  {l \in SetToSeqs({t \in Tids : ctx[t].present}) :
     IsSorted(l, LAMBDA a, b : ctx[a].read.bytes >= ctx[b].read.bytes)}

ByWrite(ctx, l) ==
  {m \in SetToSeqs(ToSet(l)) :
     IsSorted(m, LAMBDA a, b :
       \/ ctx[a].write.bytes > ctx[b].write.bytes
       \/ ctx[a].write.bytes = ctx[b].write.bytes
          /\ \E i, j \in DOMAIN l : i <= j /\ l[i] = a /\ l[j] = b)}
===============================================================================
