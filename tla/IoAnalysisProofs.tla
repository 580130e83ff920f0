--------------------------- MODULE IoAnalysisProofs ---------------------------
(***************************************************************************)
(* The parallel I/O analysis implements IoUsage, wherever the trace is     *)
(* cut, for any threads, names, return values and number of ranges; so     *)
(* does the serial one, and both report the same.                          *)
(*                                                                         *)
(* The serial analysis is the parallel one with nothing to merge its       *)
(* context into, so the lemmas about a handler followed by a merge serve   *)
(* both.                                                                   *)
(***************************************************************************)
EXTENDS IoAnalysis, SumFacts

(* The call is the one its thread is in.                                   *)
IsCurrent(cur, t) == call[t] = cur.type /\ last[t] = cur.start

(* What the current chunk (w) and the chunks before it (f) know of thread  *)
(* t relates to the call t is really in: the entry that is still waiting   *)
(* for its exit is that call's, and once the current chunk has seen t it   *)
(* holds the exit of the call the chunks before it left unfinished.        *)
Tracks(t, f, w) ==
  /\ ~f.present => f = NewProcess
  /\ ~w.present => w = NewProcess
  /\ w.currentSyscall # None => IsCurrent(w.currentSyscall, t)
  /\ f.currentSyscall # None /\ ~w.present => IsCurrent(f.currentSyscall, t)
  /\ f.currentSyscall # None /\ w.present =>
       /\ w.unknownSyscall # None
       /\ f.currentSyscall.start <= w.unknownSyscall.end

(* The inductive invariant.                                                *)
IInv ==
  /\ TypeOK
  /\ phase # "map" => work = NewContext
  /\ \A t \in Tids : Tracks(t, final[t], work[t])

-------------------------------------------------------------------------------
(* Lemmas about the totals.                                                *)

(* Charging a call keeps a total a total.                                  *)
LEMMA ChargedType ==
  ASSUME NEW total \in Total, NEW moves \in BOOLEAN, NEW ret \in Int, NEW d \in Nat
  PROVE  Charged(total, moves, ret, d) \in Total
BY DEF Charged, Counts, Total

(* So does adding two of them; an empty one adds nothing.                  *)
LEMMA AddTotalsType ==
  ASSUME NEW x \in Total, NEW y \in Total
  PROVE  /\ AddTotals(x, y) \in Total
         /\ AddTotals(x, NoTotal) = x
         /\ NoTotal \in Total
BY DEF AddTotals, Total, NoTotal

(* A call charged by the current chunk counts as if it were charged after  *)
(* the merge.                                                              *)
LEMMA ChargeThenAdd ==
  ASSUME NEW x \in Total, NEW y \in Total, NEW moves \in BOOLEAN, NEW ret \in Int, NEW d \in Nat
  PROVE  AddTotals(x, Charged(y, moves, ret, d)) = Charged(AddTotals(x, y), moves, ret, d)
BY DEF AddTotals, Total, Charged, Counts

(* Two calls can be charged in either order.                               *)
LEMMA ChargeCommutes ==
  ASSUME NEW x \in Total,
         NEW m1 \in BOOLEAN, NEW ret1 \in Int, NEW d1 \in Nat,
         NEW m2 \in BOOLEAN, NEW ret2 \in Int, NEW d2 \in Nat
  PROVE  Charged(Charged(x, m1, ret1, d1), m2, ret2, d2)
       = Charged(Charged(x, m2, ret2, d2), m1, ret1, d1)
BY DEF Total, Charged, Counts

(* The latency of a call completed by a merge, and what it returned.       *)
LEMMA CompletedCall ==
  ASSUME NEW f \in IoProcess, NEW w \in IoProcess,
         f.currentSyscall # None, w.unknownSyscall # None,
         f.currentSyscall.start <= w.unknownSyscall.end
  PROVE  /\ w.unknownSyscall.end - f.currentSyscall.start \in Nat
         /\ w.unknownSyscall.ret \in Int
<1>1. f.currentSyscall \in Syscall /\ w.unknownSyscall \in UnknownSyscall
  BY DEF IoProcess
<1>2. f.currentSyscall.start \in Nat /\ w.unknownSyscall.end \in Nat
  BY <1>1 DEF Syscall, UnknownSyscall
<1>3. w.unknownSyscall.ret \in Int
  BY <1>1, TracedCallsAssumption DEF UnknownSyscall
<1> DEFINE start == f.currentSyscall.start
           end   == w.unknownSyscall.end
<1>4. start \in Nat /\ end \in Nat /\ start <= end
  BY <1>2
<1> HIDE DEF start, end
<1>5. end - start \in Nat
  BY <1>4
<1> QED
  BY <1>3, <1>5 DEF start, end

(* Hence a merge and a charge can be exchanged, as long as the first exit  *)
(* of the chunk stays the same.                                            *)
LEMMA ChargeThenMerge ==
  ASSUME NEW f \in IoProcess, NEW w \in IoProcess, NEW v \in IoProcess,
         v.unknownSyscall = w.unknownSyscall,
         f.currentSyscall # None /\ w.unknownSyscall # None
           => f.currentSyscall.start <= w.unknownSyscall.end,
         NEW x \in Total, NEW y \in Total, NEW m1 \in BOOLEAN,
         NEW m2 \in BOOLEAN, NEW ret \in Int, NEW d \in Nat
  PROVE  MergeTotal(f, v, x, Charged(y, m2, ret, d), m1)
       = Charged(MergeTotal(f, w, x, y, m1), m2, ret, d)
<1>1. AddTotals(x, y) \in Total
  BY AddTotalsType
<1>2. CASE f.currentSyscall = None \/ w.unknownSyscall = None
  BY <1>2, ChargeThenAdd DEF MergeTotal
<1>3. CASE f.currentSyscall # None /\ w.unknownSyscall # None
  <2>1. /\ w.unknownSyscall.end - f.currentSyscall.start \in Nat
        /\ w.unknownSyscall.ret \in Int
    BY <1>3, CompletedCall
  <2> QED
    BY <1>1, <1>3, <2>1, ChargeThenAdd, ChargeCommutes DEF MergeTotal
<1> QED
  BY <1>2, <1>3

(* merge keeps a total a total, given that a call's exit is not before its *)
(* entry.                                                                  *)
LEMMA MergeTotalType ==
  ASSUME NEW f \in IoProcess, NEW w \in IoProcess,
         f.currentSyscall # None /\ w.unknownSyscall # None
           => f.currentSyscall.start <= w.unknownSyscall.end,
         NEW x \in Total, NEW y \in Total, NEW moves \in BOOLEAN
  PROVE  MergeTotal(f, w, x, y, moves) \in Total
<1>1. AddTotals(x, y) \in Total
  BY AddTotalsType
<1>2. CASE f.currentSyscall = None \/ w.unknownSyscall = None
  BY <1>1, <1>2 DEF MergeTotal
<1>3. CASE f.currentSyscall # None /\ w.unknownSyscall # None
  <2>1. /\ w.unknownSyscall.end - f.currentSyscall.start \in Nat
        /\ w.unknownSyscall.ret \in Int
    BY <1>3, CompletedCall
  <2> QED
    BY <1>1, <1>3, <2>1, ChargedType DEF MergeTotal
<1> QED
  BY <1>2, <1>3

(* A new process is a process.                                             *)
LEMMA NewTypes == NewProcess \in IoProcess /\ NewContext \in Contexts
BY DEF NewProcess, NewContext, IoProcess, Contexts, Total, NoTotal

(* The fields of a process nothing has happened to.                        *)
LEMMA NewFields ==
  /\ NewProcess.present = FALSE /\ NewProcess.comm = NoComm
  /\ NewProcess.currentSyscall = None /\ NewProcess.unknownSyscall = None
  /\ NewProcess.read = NoTotal /\ NewProcess.write = NoTotal
BY DEF NewProcess

(* merge keeps a process a process.                                        *)
LEMMA MergeProcessType ==
  ASSUME NEW t \in Tids, NEW f \in IoProcess, NEW w \in IoProcess, Tracks(t, f, w)
  PROVE  MergeProcess(f, w) \in IoProcess
<1>1. CASE ~(f.present /\ w.present)
  BY <1>1 DEF MergeProcess, IoProcess
<1>2. CASE f.present /\ w.present
  <2>1. f.currentSyscall # None /\ w.unknownSyscall # None
          => f.currentSyscall.start <= w.unknownSyscall.end
    BY <1>2 DEF Tracks
  <2>2. f.read \in Total /\ w.read \in Total /\ f.write \in Total /\ w.write \in Total
    BY DEF IoProcess
  <2>3. Reads(f.currentSyscall.type) \in BOOLEAN /\ Writes(f.currentSyscall.type) \in BOOLEAN
    BY DEF Reads, Writes
  <2>4. /\ MergeTotal(f, w, f.read, w.read, Reads(f.currentSyscall.type)) \in Total
        /\ MergeTotal(f, w, f.write, w.write, Writes(f.currentSyscall.type)) \in Total
    BY <2>1, <2>2, <2>3, MergeTotalType
  <2> QED
    BY <1>2, <2>4 DEF MergeProcess, MergeKnown, MergedCall, MergedComm, IoProcess
<1> QED
  BY <1>1, <1>2

(* With no unfinished call before it, a chunk's totals are just added.     *)
LEMMA MergeTotalNone ==
  ASSUME NEW f, NEW w, NEW x, NEW y, NEW moves, f.currentSyscall = None
  PROVE  MergeTotal(f, w, x, y, moves) = AddTotals(x, y)
BY DEF MergeTotal

-------------------------------------------------------------------------------
(* How the handlers change what merging would yield.                       *)

(* The merged process of a thread the current chunk has not seen, or that  *)
(* no chunk before it has seen.                                            *)
LEMMA NowCases ==
  ASSUME NEW t \in Tids, NEW f \in IoProcess, NEW w \in IoProcess, Tracks(t, f, w)
  PROVE  /\ ~w.present => MergeProcess(f, w) = f /\ w = NewProcess
         /\ ~f.present => MergeProcess(f, w) = w /\ f = NewProcess
         /\ f.present /\ w.present => MergeProcess(f, w) = MergeKnown(f, w)
BY DEF Tracks, MergeProcess

(* The call it carries is the one its thread is in.                        *)
LEMMA NowIsCurrent ==
  ASSUME NEW t \in Tids, NEW f \in IoProcess, NEW w \in IoProcess, Tracks(t, f, w),
         MergeProcess(f, w).currentSyscall # None
  PROVE  /\ IsCurrent(MergeProcess(f, w).currentSyscall, t)
         /\ MergeProcess(f, w).currentSyscall \in Syscall
<1>1. MergeProcess(f, w).currentSyscall =
        IF w.present THEN w.currentSyscall ELSE f.currentSyscall
  BY NowCases DEF MergeKnown, MergedCall, MergedComm
<1> QED
  BY <1>1 DEF Tracks, IoProcess

(* handleReadWrite, then merge.                                            *)
LEMMA EnterNow ==
  ASSUME NEW t \in Tids, NEW f \in IoProcess, NEW w \in IoProcess, Tracks(t, f, w),
         call[t] = "NONE",
         NEW comm \in Comms, NEW type \in IOTypes, NEW ts \in Nat,
         NEW v, v = EnterProcess(w, EntryEvent(t, comm, ts), type)
  PROVE  /\ v \in IoProcess
         /\ v.present
         /\ v.currentSyscall = [type |-> type, start |-> ts]
         /\ v.unknownSyscall = w.unknownSyscall
         /\ f.currentSyscall # None => w.present
         /\ MergeProcess(f, v).present
         /\ MergeProcess(f, v).comm = SeenComm(MergeProcess(f, w), comm)
         /\ MergeProcess(f, v).currentSyscall # None
         /\ MergeProcess(f, v).read = MergeProcess(f, w).read
         /\ MergeProcess(f, v).write = MergeProcess(f, w).write
<1>1. /\ v = [present        |-> TRUE,
              comm           |-> SeenComm(w, comm),
              currentSyscall |-> [type |-> type, start |-> ts],
              unknownSyscall |-> w.unknownSyscall,
              read           |-> w.read,
              write          |-> w.write]
  BY DEF EnterProcess, EntryEvent
<1>2. /\ v.present /\ v.comm = SeenComm(w, comm)
      /\ v.currentSyscall = [type |-> type, start |-> ts]
      /\ v.unknownSyscall = w.unknownSyscall
      /\ v.read = w.read /\ v.write = w.write
  BY <1>1
<1>3. [type |-> type, start |-> ts] \in Syscall
  BY DEF Syscall
<1>4. [type |-> type, start |-> ts] # None
  BY <1>3, IoContextAssumption
<1>5. v \in IoProcess
  BY <1>1, <1>3 DEF IoProcess, SeenComm
<1>6. f.currentSyscall # None => w.present
  <2> SUFFICES ASSUME f.currentSyscall # None, ~w.present PROVE FALSE
    OBVIOUS
  <2>1. f.currentSyscall.type \in IOTypes
    BY DEF IoProcess, Syscall
  <2>2. f.currentSyscall.type = "NONE"
    BY DEF Tracks, IsCurrent
  <2> QED
    BY <2>1, <2>2 DEF IOTypes
<1>7. CASE ~f.present
  <2>1. MergeProcess(f, v) = v /\ MergeProcess(f, w) = w
    BY <1>2, <1>7, NowCases DEF MergeProcess
  <2> QED
    BY <1>2, <1>4, <1>5, <1>6, <2>1 DEF SeenComm
<1>8. CASE f.present
  <2>1. MergeProcess(f, v) = MergeKnown(f, v)
    BY <1>2, <1>8 DEF MergeProcess
  <2>2. CASE w.present
    <3>1. MergeProcess(f, w) = MergeKnown(f, w)
      BY <1>8, <2>2, NowCases
    <3>2. \A x, y, moves : MergeTotal(f, v, x, y, moves) = MergeTotal(f, w, x, y, moves)
      BY <1>2 DEF MergeTotal
    <3> QED
      BY <1>2, <1>4, <1>5, <1>6, <2>1, <3>1, <3>2 DEF MergeKnown, MergedCall, MergedComm, SeenComm
  <2>3. CASE ~w.present
    <3>1. MergeProcess(f, w) = f /\ w.read = NoTotal /\ w.write = NoTotal
      BY <2>3, NowCases DEF NewProcess
    <3>2. f.read \in Total /\ f.write \in Total
      BY DEF IoProcess
    <3>3. \A x \in Total : \A moves : MergeTotal(f, v, x, NoTotal, moves) = x
      BY <1>6, <2>3, MergeTotalNone, AddTotalsType
    <3> QED
      BY <1>2, <1>4, <1>5, <1>6, <1>8, <2>1, <3>1, <3>2, <3>3 DEF MergeKnown, MergedCall, MergedComm, SeenComm
  <2> QED
    BY <2>2, <2>3
<1> QED
  BY <1>7, <1>8

(* What the current chunk charges when a call returns.                     *)
AddReturned(process, total, moves, ret, ts) ==
  IF process.currentSyscall = None THEN total
  ELSE Charged(total, moves, ret, ts - process.currentSyscall.start)

(* The latency of a call that returns now.                                 *)
LEMMA Latency ==
  ASSUME NEW t \in Tids, NEW cur \in Syscall, IsCurrent(cur, t),
         NEW ts \in Nat, last[t] < ts
  PROVE  cur.start \in Nat /\ cur.start <= ts /\ ts - cur.start \in Nat
<1>1. cur.start \in Nat
  BY DEF Syscall
<1>2. cur.start < ts
  BY DEF IsCurrent
<1> QED
  BY <1>1, <1>2

(* handleExitSyscall, then merge, for one of the two totals: the call that *)
(* returns is charged once, whether the current chunk saw its entry or an  *)
(* earlier one did.                                                        *)
LEMMA ExitTotal ==
  ASSUME NEW t \in Tids, NEW f \in IoProcess, NEW w \in IoProcess, Tracks(t, f, w),
         NEW ts \in Nat, last[t] < ts, NEW ret \in Rets,
         NEW v \in IoProcess,
         v.unknownSyscall = IF w.currentSyscall = None /\ w.unknownSyscall = None
                            THEN [end |-> ts, ret |-> ret] ELSE w.unknownSyscall,
         NEW x \in Total, NEW y \in Total, ~w.present => y = NoTotal,
         NEW mf \in BOOLEAN, NEW mw \in BOOLEAN
  PROVE  MergeTotal(f, v, x, AddReturned(w, y, mw, ret, ts), mf)
       = IF w.present
         THEN AddReturned(w, MergeTotal(f, w, x, y, mf), mw, ret, ts)
         ELSE AddReturned(f, x, mf, ret, ts)
<1>1. CASE w.present /\ w.currentSyscall # None
  <2>1. v.unknownSyscall = w.unknownSyscall
    BY <1>1
  <2>2. w.currentSyscall \in Syscall /\ IsCurrent(w.currentSyscall, t)
    BY <1>1 DEF Tracks, IoProcess
  <2>3. ts - w.currentSyscall.start \in Nat
    BY <2>2, Latency
  <2>4. f.currentSyscall # None /\ w.unknownSyscall # None
        => f.currentSyscall.start <= w.unknownSyscall.end
    BY <1>1 DEF Tracks
  <2>5. ret \in Int
    BY TracedCallsAssumption
  <2>6. MergeTotal(f, v, x, Charged(y, mw, ret, ts - w.currentSyscall.start), mf)
      = Charged(MergeTotal(f, w, x, y, mf), mw, ret, ts - w.currentSyscall.start)
    BY <2>1, <2>3, <2>4, <2>5, ChargeThenMerge
  <2> QED
    BY <1>1, <2>6 DEF AddReturned
<1>2. CASE w.present /\ w.currentSyscall = None
  <2>1. f.currentSyscall # None => v.unknownSyscall = w.unknownSyscall
    BY <1>2 DEF Tracks
  <2>2. MergeTotal(f, v, x, y, mf) = MergeTotal(f, w, x, y, mf)
    BY <2>1 DEF MergeTotal
  <2> QED
    BY <1>2, <2>2 DEF AddReturned
<1>3. CASE ~w.present
  <2>1. w.currentSyscall = None /\ w.unknownSyscall = None /\ y = NoTotal
    BY <1>3 DEF Tracks, NewProcess
  <2>2. AddTotals(x, y) = x
    BY <2>1, AddTotalsType
  <2>3. v.unknownSyscall = [end |-> ts, ret |-> ret]
    BY <2>1
  <2>4. [end |-> ts, ret |-> ret] # None
    BY IoContextAssumption DEF UnknownSyscall
  <2>5. MergeTotal(f, v, x, y, mf) = AddReturned(f, x, mf, ret, ts)
    BY <2>2, <2>3, <2>4 DEF MergeTotal, AddReturned
  <2> QED
    BY <1>3, <2>1, <2>5 DEF AddReturned
<1> QED
  BY <1>1, <1>2, <1>3

(* handleExitSyscall, then merge.                                          *)
LEMMA ExitNow ==
  ASSUME NEW t \in Tids, NEW f \in IoProcess, NEW w \in IoProcess, Tracks(t, f, w),
         NEW comm \in Comms, NEW ret \in Rets, NEW ts \in Nat, last[t] < ts,
         NEW v, v = ExitProcess(w, ExitEvent(t, comm, ret, ts)),
         NEW m, m = MergeProcess(f, w)
  PROVE  /\ v \in IoProcess
         /\ v.present
         /\ v.currentSyscall = None
         /\ f.currentSyscall # None =>
              /\ v.unknownSyscall # None
              /\ f.currentSyscall.start <= v.unknownSyscall.end
         /\ MergeProcess(f, v).present
         /\ MergeProcess(f, v).comm = SeenComm(m, comm)
         /\ MergeProcess(f, v).currentSyscall = None
         /\ MergeProcess(f, v).read =
              AddReturned(m, m.read, Reads(m.currentSyscall.type), ret, ts)
         /\ MergeProcess(f, v).write =
              AddReturned(m, m.write, Writes(m.currentSyscall.type), ret, ts)
<1> DEFINE rd == AddReturned(w, w.read, Reads(w.currentSyscall.type), ret, ts)
           wr == AddReturned(w, w.write, Writes(w.currentSyscall.type), ret, ts)
           unk == IF w.currentSyscall = None /\ w.unknownSyscall = None
                  THEN [end |-> ts, ret |-> ret] ELSE w.unknownSyscall
<1>1. v = [present        |-> TRUE,
           comm           |-> SeenComm(w, comm),
           currentSyscall |-> None,
           unknownSyscall |-> unk,
           read           |-> rd,
           write          |-> wr]
  BY DEF ExitProcess, CallAfterExit, ExitEvent, FirstExit, KeepsExit, AddReturned
<1>2. [end |-> ts, ret |-> ret] \in UnknownSyscall /\ [end |-> ts, ret |-> ret] # None
  BY IoContextAssumption DEF UnknownSyscall
<1>3. unk \in UnknownSyscall \cup {None}
  BY <1>2 DEF IoProcess
<1>4. /\ Reads(w.currentSyscall.type) \in BOOLEAN /\ Writes(w.currentSyscall.type) \in BOOLEAN
      /\ Reads(f.currentSyscall.type) \in BOOLEAN /\ Writes(f.currentSyscall.type) \in BOOLEAN
  BY DEF Reads, Writes
<1>5. ret \in Int
  BY TracedCallsAssumption
<1>6. w.read \in Total /\ w.write \in Total /\ f.read \in Total /\ f.write \in Total
  BY DEF IoProcess
<1>7. rd \in Total /\ wr \in Total
  <2>1. CASE w.currentSyscall = None
    BY <1>6, <2>1 DEF AddReturned
  <2>2. CASE w.currentSyscall # None
    <3>1. w.currentSyscall \in Syscall /\ IsCurrent(w.currentSyscall, t)
      BY <2>2 DEF Tracks, IoProcess
    <3>2. ts - w.currentSyscall.start \in Nat
      BY <3>1, Latency
    <3> QED
      BY <1>4, <1>5, <1>6, <2>2, <3>2, ChargedType DEF AddReturned
  <2> QED
    BY <2>1, <2>2
<1> HIDE DEF rd, wr, unk
<1>8. v \in IoProcess
  BY <1>1, <1>3, <1>7 DEF IoProcess, SeenComm
<1>9. /\ v.present /\ v.comm = SeenComm(w, comm) /\ v.currentSyscall = None
      /\ v.unknownSyscall = unk /\ v.read = rd /\ v.write = wr
  BY <1>1
<1>10. ASSUME f.currentSyscall # None
       PROVE  unk # None /\ f.currentSyscall.start <= unk.end
  <2>1. CASE w.present
    BY <1>10, <2>1 DEF Tracks, unk
  <2>2. CASE ~w.present
    <3>1. f.currentSyscall \in Syscall /\ IsCurrent(f.currentSyscall, t)
      BY <1>10, <2>2 DEF Tracks, IoProcess
    <3>2. f.currentSyscall.start <= ts
      BY <3>1, Latency
    <3>3. unk = [end |-> ts, ret |-> ret]
      BY <2>2 DEF Tracks, unk, NewProcess
    <3> QED
      BY <1>2, <3>2, <3>3
  <2> QED
    BY <2>1, <2>2
<1>11. CASE ~f.present
  <2>1. MergeProcess(f, v) = v /\ m = w
    BY <1>9, <1>11, NowCases DEF MergeProcess
  <2> QED
    BY <1>8, <1>9, <1>10, <2>1 DEF SeenComm, rd, wr
<1>12. CASE f.present
  <2>1. MergeProcess(f, v) = MergeKnown(f, v)
    BY <1>9, <1>12 DEF MergeProcess
  <2>2. ~w.present => w.read = NoTotal /\ w.write = NoTotal
    BY DEF Tracks, NewProcess
  <2>3. /\ MergeTotal(f, v, f.read, rd, Reads(f.currentSyscall.type)) =
             IF w.present
             THEN AddReturned(w, MergeTotal(f, w, f.read, w.read, Reads(f.currentSyscall.type)),
                              Reads(w.currentSyscall.type), ret, ts)
             ELSE AddReturned(f, f.read, Reads(f.currentSyscall.type), ret, ts)
        /\ MergeTotal(f, v, f.write, wr, Writes(f.currentSyscall.type)) =
             IF w.present
             THEN AddReturned(w, MergeTotal(f, w, f.write, w.write, Writes(f.currentSyscall.type)),
                              Writes(w.currentSyscall.type), ret, ts)
             ELSE AddReturned(f, f.write, Writes(f.currentSyscall.type), ret, ts)
    BY <1>4, <1>6, <1>8, <1>9, <2>2, ExitTotal DEF rd, wr, unk
  <2>4. CASE w.present
    <3>1. m = MergeKnown(f, w)
      BY <1>12, <2>4, NowCases
    <3>2. /\ m.present /\ m.comm = f.comm /\ m.currentSyscall = w.currentSyscall
          /\ m.read = MergeTotal(f, w, f.read, w.read, Reads(f.currentSyscall.type))
          /\ m.write = MergeTotal(f, w, f.write, w.write, Writes(f.currentSyscall.type))
      BY <3>1 DEF MergeKnown, MergedCall, MergedComm
    <3>3. /\ MergeProcess(f, v).read =
               AddReturned(m, m.read, Reads(m.currentSyscall.type), ret, ts)
          /\ MergeProcess(f, v).write =
               AddReturned(m, m.write, Writes(m.currentSyscall.type), ret, ts)
      BY <1>9, <2>1, <2>3, <2>4, <3>2 DEF MergeKnown, MergedCall, MergedComm, AddReturned
    <3> QED
      BY <1>8, <1>9, <1>10, <2>1, <3>2, <3>3 DEF MergeKnown, MergedCall, MergedComm, SeenComm
  <2>5. CASE ~w.present
    <3>1. m = f
      BY <2>5, NowCases
    <3> QED
      BY <1>8, <1>9, <1>10, <1>12, <2>1, <2>3, <2>5, <3>1 DEF MergeKnown, MergedCall, MergedComm, SeenComm
  <2> QED
    BY <2>4, <2>5
<1> QED
  BY <1>11, <1>12

-------------------------------------------------------------------------------
(* Every step keeps the invariant and is a step of IoUsage.                *)

LEMMA InitRefines == Init => IInv /\ Usage!Init
<1> SUFFICES ASSUME Init PROVE IInv /\ Usage!Init
  OBVIOUS
<1>1. TypeOK
  BY NewTypes, TracedCallsAssumption, IoChunksAssumption
     DEF Init, TraceInit, TypeOK, EndPositions
<1>2. \A t \in Tids : work[t] = NewProcess /\ final[t] = NewProcess
  BY DEF Init, NewContext
<1>3. \A t \in Tids : Tracks(t, final[t], work[t])
  BY <1>2, NewFields DEF Tracks
<1>4. \A t \in Tids : ProcessNow(t) = NewProcess
  BY <1>2, NewFields DEF ProcessNow, MergeProcess
<1>5. /\ Known = {} /\ Seen = {} /\ Name = [t \in Tids |-> NoComm]
      /\ Read = Usage!Nothing /\ Write = Usage!Nothing
  BY <1>4, NewFields DEF Known, Seen, Name, Read, Write, Usage!Nothing, NoTotal
<1> QED
  BY <1>1, <1>3, <1>5 DEF IInv, Init, TraceInit, Usage!Init, Usage!TraceInit,
     Usage!Calls, Usage!IOTypes, Calls, IOTypes

(* What the invariant says of one thread.                                  *)
LEMMA OfThread ==
  ASSUME IInv, NEW t \in Tids
  PROVE  /\ final[t] \in IoProcess
         /\ work[t] \in IoProcess
         /\ Tracks(t, final[t], work[t])
         /\ last[t] \in Int
         /\ ProcessNow(t) \in IoProcess
<1>1. /\ final[t] \in IoProcess /\ work[t] \in IoProcess /\ Tracks(t, final[t], work[t])
      /\ last[t] \in Int
  BY TracedCallsAssumption DEF IInv, TypeOK, Contexts
<1> QED
  BY <1>1, MergeProcessType DEF ProcessNow

(* An event of one thread leaves what is known of the others alone.        *)
LEMMA Others ==
  ASSUME IInv, NEW t \in Tids, NEW v \in IoProcess, NEW kind,
         NEW ts \in now .. TraceEnd,
         work' = [work EXCEPT ![t] = v], UNCHANGED <<final, phase>>, phase = "map",
         UNCHANGED <<chunk, beginPos, endPos>>,
         call' = [call EXCEPT ![t] = kind], kind \in Calls \cup {"NONE"},
         last' = [last EXCEPT ![t] = ts], now' = ts
  PROVE  /\ TypeOK'
         /\ \A u \in Tids \ {t} : Tracks(u, final[u], work[u])'
<1>1. ts \in Nat /\ ts \in TraceBegin .. TraceEnd /\ ts \in (TraceBegin - 1) .. TraceEnd
  BY TracedCallsAssumption DEF IInv, TypeOK
<1>2. TypeOK'
  BY <1>1 DEF IInv, TypeOK, Contexts
<1>3. ASSUME NEW u \in Tids \ {t}
      PROVE  /\ work'[u] = work[u] /\ final'[u] = final[u]
             /\ call'[u] = call[u] /\ last'[u] = last[u]
  BY DEF IInv, TypeOK, Contexts
<1>4. ASSUME NEW u \in Tids \ {t}
      PROVE  Tracks(u, final[u], work[u])'
  BY <1>3, <1>4 DEF IInv, Tracks, IsCurrent
<1> QED
  BY <1>2, <1>4

(* A thread enters a read or a write.                                      *)
LEMMA EnterRefines ==
  ASSUME IInv, NEW t \in Tids, NEW type \in IOTypes, NEW comm \in Comms,
         NEW ts \in now .. TraceEnd, MapEnter(t, type, comm, ts)
  PROVE  IInv' /\ Usage!Enter(t, type, comm, ts)
<1> DEFINE v == EnterProcess(work[t], EntryEvent(t, comm, ts), type)
<1>1. /\ final[t] \in IoProcess /\ work[t] \in IoProcess /\ Tracks(t, final[t], work[t])
  BY OfThread
<1>2. /\ call[t] = "NONE" /\ phase = "map"
      /\ call' = [call EXCEPT ![t] = type] /\ last' = [last EXCEPT ![t] = ts] /\ now' = ts
      /\ ts \in now .. TraceEnd /\ last[t] < ts
      /\ UNCHANGED <<chunk, beginPos, endPos, final, phase>>
  <2>1. last[t] \in Int /\ ts \in Int
    BY OfThread, TracedCallsAssumption DEF IInv, TypeOK
  <2> QED
    BY <2>1 DEF MapEnter, EnterCall, Advance, Map
<1>3. work' = [work EXCEPT ![t] = v]
  BY DEF MapEnter, Map, HandleReadWrite, EntryEvent
<1>4. ts \in Nat
  BY TracedCallsAssumption DEF IInv, TypeOK
<1>5. /\ v \in IoProcess
      /\ v.present
      /\ v.currentSyscall = [type |-> type, start |-> ts]
      /\ v.unknownSyscall = work[t].unknownSyscall
      /\ final[t].currentSyscall # None => work[t].present
      /\ MergeProcess(final[t], v).present
      /\ MergeProcess(final[t], v).comm = SeenComm(ProcessNow(t), comm)
      /\ MergeProcess(final[t], v).currentSyscall # None
      /\ MergeProcess(final[t], v).read = ProcessNow(t).read
      /\ MergeProcess(final[t], v).write = ProcessNow(t).write
  BY <1>1, <1>2, <1>4, EnterNow DEF ProcessNow
<1> HIDE DEF v
<1> v \in IoProcess /\ type \in Calls \cup {"NONE"}
  BY <1>5 DEF Calls
<1>6. /\ TypeOK'
      /\ work'[t] = v /\ final'[t] = final[t] /\ call'[t] = type /\ last'[t] = ts
      /\ \A u \in Tids \ {t} : /\ work'[u] = work[u] /\ final'[u] = final[u]
                               /\ call'[u] = call[u] /\ last'[u] = last[u]
                               /\ Tracks(u, final[u], work[u])'
  <2>1. /\ UNCHANGED <<final, phase>> /\ UNCHANGED <<chunk, beginPos, endPos>>
        /\ phase = "map" /\ now' = ts /\ last' = [last EXCEPT ![t] = ts]
    BY <1>2
  <2>2. TypeOK' /\ \A u \in Tids \ {t} : Tracks(u, final[u], work[u])'
    BY <1>2, <1>3, <2>1, Others
  <2> QED
    BY <1>2, <1>3, <2>2 DEF IInv, TypeOK, Contexts
<1>7. Tracks(t, final[t], work[t])'
  BY <1>1, <1>5, <1>6 DEF Tracks, IsCurrent
<1>8. IInv'
  BY <1>2, <1>6, <1>7 DEF IInv
<1>9. /\ ProcessNow(t)' = MergeProcess(final[t], v)
      /\ \A u \in Tids \ {t} : ProcessNow(u)' = ProcessNow(u)
  BY <1>6 DEF ProcessNow
<1>10. Known' = Known \cup {t} /\ Seen' = Seen \cup {t}
  BY <1>5, <1>9 DEF Known, Seen
<1>11. Name' = [Name EXCEPT ![t] = IF t \in Seen THEN @ ELSE comm]
  BY <1>5, <1>9 DEF Name, Seen, SeenComm
<1>12. Read' = Read /\ Write' = Write
  BY <1>5, <1>9 DEF Read, Write
<1>13. Usage!EnterCall(t, type, ts)
  BY DEF MapEnter, EnterCall, Advance, Usage!EnterCall, Usage!Advance
<1> QED
  BY <1>2, <1>8, <1>10, <1>11, <1>12, <1>13 DEF Usage!Enter, Usage!See

(* A thread enters a call the analysis is not interested in.               *)
LEMMA EnterOtherRefines ==
  ASSUME IInv, NEW t \in Tids, NEW ts \in now .. TraceEnd, MapEnterOther(t, ts)
  PROVE  IInv' /\ Usage!EnterOther(t, ts)
<1>1. /\ final[t] \in IoProcess /\ work[t] \in IoProcess /\ Tracks(t, final[t], work[t])
  BY OfThread
<1>2. /\ call[t] = "NONE" /\ phase = "map"
      /\ call' = [call EXCEPT ![t] = "OTHER"] /\ last' = [last EXCEPT ![t] = ts] /\ now' = ts
      /\ UNCHANGED <<chunk, beginPos, endPos, final, phase, work>>
  BY DEF MapEnterOther, EnterCall, Advance, Map
<1>3. work' = [work EXCEPT ![t] = work[t]]
  BY <1>2 DEF IInv, TypeOK, Contexts
<1>4. /\ TypeOK'
      /\ \A u \in Tids \ {t} : Tracks(u, final[u], work[u])'
  BY <1>1, <1>2, <1>3, Others DEF Calls
<1>5. work[t].currentSyscall = None
  <2>1. work[t].currentSyscall \in Syscall \cup {None}
    BY <1>1 DEF IoProcess
  <2> QED
    BY <1>1, <1>2, <2>1 DEF Tracks, IsCurrent, Syscall, IOTypes
<1>6. final[t].currentSyscall # None => work[t].present
  <2>1. final[t].currentSyscall \in Syscall \cup {None}
    BY <1>1 DEF IoProcess
  <2> QED
    BY <1>1, <1>2, <2>1 DEF Tracks, IsCurrent, Syscall, IOTypes
<1>7. Tracks(t, final[t], work[t])'
  BY <1>1, <1>2, <1>5, <1>6 DEF Tracks
<1>8. IInv'
  BY <1>2, <1>4, <1>7 DEF IInv
<1>9. UNCHANGED <<Known, Seen, Name, Read, Write>>
  BY <1>2 DEF Known, Seen, Name, Read, Write, ProcessNow
<1>10. Usage!EnterCall(t, "OTHER", ts)
  BY DEF MapEnterOther, EnterCall, Advance, Usage!EnterCall, Usage!Advance
<1> QED
  BY <1>2, <1>8, <1>9, <1>10 DEF Usage!EnterOther

(* A thread leaves the call it is in.                                      *)
LEMMA ExitRefines ==
  ASSUME IInv, NEW t \in Tids, NEW comm \in Comms, NEW ret \in Rets,
         NEW ts \in now .. TraceEnd, MapExit(t, comm, ret, ts)
  PROVE  IInv' /\ Usage!Exit(t, comm, ret, ts)
<1> DEFINE v == ExitProcess(work[t], ExitEvent(t, comm, ret, ts))
           m == ProcessNow(t)
<1>1. /\ final[t] \in IoProcess /\ work[t] \in IoProcess /\ Tracks(t, final[t], work[t])
      /\ m \in IoProcess
  BY OfThread
<1>2. /\ call[t] # "NONE" /\ phase = "map"
      /\ call' = [call EXCEPT ![t] = "NONE"] /\ last' = [last EXCEPT ![t] = ts] /\ now' = ts
      /\ ts \in now .. TraceEnd /\ last[t] < ts
      /\ UNCHANGED <<chunk, beginPos, endPos, final, phase>>
  <2>1. last[t] \in Int /\ ts \in Int
    BY OfThread, TracedCallsAssumption DEF IInv, TypeOK
  <2> QED
    BY <2>1 DEF MapExit, ExitCall, Advance, Map
<1>3. work' = [work EXCEPT ![t] = v]
  BY DEF MapExit, Map, HandleExitSyscall, ExitEvent
<1>4. ts \in Nat
  BY TracedCallsAssumption DEF IInv, TypeOK
<1>5. /\ v \in IoProcess
      /\ v.present
      /\ v.currentSyscall = None
      /\ final[t].currentSyscall # None =>
           /\ v.unknownSyscall # None
           /\ final[t].currentSyscall.start <= v.unknownSyscall.end
      /\ MergeProcess(final[t], v).present
      /\ MergeProcess(final[t], v).comm = SeenComm(m, comm)
      /\ MergeProcess(final[t], v).currentSyscall = None
      /\ MergeProcess(final[t], v).read =
           AddReturned(m, m.read, Reads(m.currentSyscall.type), ret, ts)
      /\ MergeProcess(final[t], v).write =
           AddReturned(m, m.write, Writes(m.currentSyscall.type), ret, ts)
  BY <1>1, <1>2, <1>4, ExitNow DEF ProcessNow
<1>6. m.currentSyscall # None =>
        m.currentSyscall.type = call[t] /\ m.currentSyscall.start = last[t]
  BY <1>1, NowIsCurrent DEF ProcessNow, IsCurrent
<1> HIDE DEF v
<1> v \in IoProcess /\ "NONE" \in Calls \cup {"NONE"}
  BY <1>5
<1>7. /\ TypeOK'
      /\ work'[t] = v /\ final'[t] = final[t] /\ call'[t] = "NONE" /\ last'[t] = ts
      /\ \A u \in Tids \ {t} : /\ work'[u] = work[u] /\ final'[u] = final[u]
                               /\ call'[u] = call[u] /\ last'[u] = last[u]
                               /\ Tracks(u, final[u], work[u])'
  <2>1. /\ UNCHANGED <<final, phase>> /\ UNCHANGED <<chunk, beginPos, endPos>>
        /\ phase = "map" /\ now' = ts /\ last' = [last EXCEPT ![t] = ts]
    BY <1>2
  <2>2. TypeOK' /\ \A u \in Tids \ {t} : Tracks(u, final[u], work[u])'
    BY <1>2, <1>3, <2>1, Others
  <2> QED
    BY <1>2, <1>3, <2>2 DEF IInv, TypeOK, Contexts
<1>8. Tracks(t, final[t], work[t])'
  BY <1>1, <1>5, <1>7 DEF Tracks
<1>9. IInv'
  BY <1>2, <1>7, <1>8 DEF IInv
<1>10. /\ ProcessNow(t)' = MergeProcess(final[t], v)
       /\ \A u \in Tids \ {t} : ProcessNow(u)' = ProcessNow(u)
  BY <1>7 DEF ProcessNow
<1>11. Known' = Known \ {t} /\ Seen' = Seen \cup {t}
  BY <1>5, <1>10 DEF Known, Seen
<1>12. Name' = [Name EXCEPT ![t] = IF t \in Seen THEN @ ELSE comm]
  BY <1>5, <1>10 DEF Name, Seen, SeenComm
<1>13. t \in Known <=> m.currentSyscall # None
  BY DEF Known
<1>14. Read' = Usage!Moved(Read, t, {"READ", "READWRITE"}, ret, ts)
  <2>1. ProcessNow(t)'.read =
          IF t \in Known /\ call[t] \in {"READ", "READWRITE"} /\ ret >= 0
          THEN [latency |-> m.read.latency + (ts - last[t]),
                bytes   |-> m.read.bytes + ret,
                count   |-> m.read.count + 1]
          ELSE m.read
    BY <1>5, <1>6, <1>10, <1>13 DEF AddReturned, Charged, Counts, Reads
  <2> QED
    BY <1>10, <2>1 DEF Usage!Moved, Read
<1>15. Write' = Usage!Moved(Write, t, {"WRITE", "READWRITE"}, ret, ts)
  <2>1. ProcessNow(t)'.write =
          IF t \in Known /\ call[t] \in {"WRITE", "READWRITE"} /\ ret >= 0
          THEN [latency |-> m.write.latency + (ts - last[t]),
                bytes   |-> m.write.bytes + ret,
                count   |-> m.write.count + 1]
          ELSE m.write
    BY <1>5, <1>6, <1>10, <1>13 DEF AddReturned, Charged, Counts, Writes
  <2> QED
    BY <1>10, <2>1 DEF Usage!Moved, Write
<1>16. Usage!ExitCall(t, ts)
  BY DEF MapExit, ExitCall, Advance, Usage!ExitCall, Usage!Advance
<1> QED
  BY <1>2, <1>9, <1>11, <1>12, <1>14, <1>15, <1>16 DEF Usage!Exit, Usage!See

(* Merging a chunk changes nothing that the accounts show.                 *)
LEMMA ReduceRefines ==
  ASSUME IInv, Reduce
  PROVE  IInv' /\ UNCHANGED Usage!vars
<1>1. ASSUME NEW t \in Tids
      PROVE  /\ final'[t] = ProcessNow(t) /\ final'[t] \in IoProcess
             /\ work'[t] = NewProcess
  BY <1>1, OfThread DEF Reduce, Merge, ProcessNow, NewContext
<1>2. /\ final' \in Contexts /\ work' = NewContext /\ work' \in Contexts
  <2>1. final' = [t \in Tids |-> ProcessNow(t)]
    BY DEF Reduce, Merge, ProcessNow
  <2> QED
    BY <1>1, <2>1, NewTypes DEF Reduce, Contexts
<1>3. /\ chunk' \in 1 .. Threads /\ beginPos' \in Nat
      /\ endPos' \in TraceBegin .. TraceEnd /\ phase' \in {"map", "reduced"}
  BY TracedCallsAssumption, IoChunksAssumption DEF Reduce, EndPositions, IInv, TypeOK
<1>4. UNCHANGED <<call, last, now>>
  BY DEF Reduce, traceVars
<1>5. TypeOK'
  BY <1>2, <1>3, <1>4 DEF TypeOK, IInv
<1>6. ASSUME NEW t \in Tids
      PROVE  Tracks(t, final[t], work[t])'
  <2>1. final[t] \in IoProcess /\ work[t] \in IoProcess /\ Tracks(t, final[t], work[t])
    BY OfThread
  <2>2. ~ProcessNow(t).present => ProcessNow(t) = NewProcess
    BY <2>1 DEF ProcessNow, MergeProcess, MergeKnown, MergedCall, MergedComm, Tracks
  <2>3. ProcessNow(t).currentSyscall # None => IsCurrent(ProcessNow(t).currentSyscall, t)
    BY <2>1, NowIsCurrent DEF ProcessNow
  <2> QED
    BY <1>1, <1>4, <2>2, <2>3, NewFields DEF Tracks, IsCurrent
<1>7. IInv'
  BY <1>2, <1>5, <1>6 DEF IInv
<1>8. ASSUME NEW t \in Tids
      PROVE  ProcessNow(t)' = ProcessNow(t)
  BY <1>1, NewFields DEF ProcessNow, MergeProcess
<1>9. UNCHANGED <<Known, Seen, Name, Read, Write>>
  BY <1>8 DEF Known, Seen, Name, Read, Write
<1>10. UNCHANGED (phase = "done")
  BY DEF Reduce
<1> QED
  BY <1>4, <1>7, <1>9, <1>10 DEF Usage!vars

(* doEnd closes the accounts.                                              *)
LEMMA EndRefines ==
  ASSUME IInv, End
  PROVE  IInv' /\ Usage!Close
<1>1. /\ UNCHANGED <<call, last, now, chunk, beginPos, endPos, work, final>>
      /\ phase = "reduced" /\ phase' = "done"
  BY DEF End, traceVars
<1>2. IInv'
  BY <1>1 DEF IInv, TypeOK, Tracks, IsCurrent
<1>3. UNCHANGED <<Known, Seen, Name, Read, Write>>
  BY <1>1 DEF Known, Seen, Name, Read, Write, ProcessNow
<1> QED
  BY <1>1, <1>2, <1>3 DEF Usage!Close

(* Every step keeps the invariant and is a step of IoUsage, or none.       *)
LEMMA StepRefines == IInv /\ [Next]_vars => IInv' /\ [Usage!Next]_Usage!vars
<1> SUFFICES ASSUME IInv, [Next]_vars PROVE IInv' /\ [Usage!Next]_Usage!vars
  OBVIOUS
<1>1. ASSUME NEW t \in Tids, NEW ts \in now .. TraceEnd, MapEnterOther(t, ts)
      PROVE  IInv' /\ Usage!Next
  BY <1>1, EnterOtherRefines DEF Usage!Next
<1>2. ASSUME NEW t \in Tids, NEW ts \in now .. TraceEnd, NEW comm \in Comms,
             NEW type \in IOTypes, MapEnter(t, type, comm, ts)
      PROVE  IInv' /\ Usage!Next
  BY <1>2, EnterRefines DEF Usage!Next, Usage!IOTypes, IOTypes
<1>3. ASSUME NEW t \in Tids, NEW ts \in now .. TraceEnd, NEW comm \in Comms,
             NEW ret \in Rets, MapExit(t, comm, ret, ts)
      PROVE  IInv' /\ Usage!Next
  BY <1>3, ExitRefines DEF Usage!Next
<1>4. CASE Reduce
  BY <1>4, ReduceRefines
<1>5. CASE End
  BY <1>5, EndRefines DEF Usage!Next
<1>6. CASE UNCHANGED vars
  BY <1>6 DEF vars, traceVars, IInv, TypeOK, Tracks, IsCurrent, Usage!vars,
     Known, Seen, Name, Read, Write, ProcessNow
<1> QED
  BY <1>1, <1>2, <1>3, <1>4, <1>5, <1>6 DEF Next, Finished

(* The invariant holds always.                                             *)
LEMMA Invariant == Spec => []IInv
BY InitRefines, StepRefines, PTL DEF Spec

(* Type correctness: the totals stay natural numbers, so no latency is     *)
(* ever negative (iocontext.cpp:124 and 70).                               *)
THEOREM WellTyped == Spec => []TypeOK
<1>1. IInv => TypeOK
  BY DEF IInv
<1> QED
  BY <1>1, Invariant, PTL

(* merge pairs the entry of a call with its own exit, and no exit is lost  *)
(* because only the first one of a chunk is kept.                          *)
THEOREM UnfinishedCallsMeet == Spec => []CallsMeet
<1>1. IInv => CallsMeet
  BY DEF IInv, Tracks, IsCurrent, CallsMeet
<1> QED
  BY <1>1, Invariant, PTL

(* The parallel I/O analysis charges every call the trace shows entirely   *)
(* once, wherever the trace is cut.                                        *)
THEOREM ParallelRefinesUsage == Spec => ParallelImplementsUsage
BY InitRefines, StepRefines, PTL DEF Spec, ParallelImplementsUsage, Usage!Spec

-------------------------------------------------------------------------------
(* The tables.                                                             *)

(* A list of a finite set sorted by f, the greatest first.                 *)
Ranks(l, S, f) ==
  /\ IsFiniteSet(S)
  /\ l \in [1 .. Cardinality(S) -> S]
  /\ \A i, j \in 1 .. Cardinality(S) : i # j => l[i] # l[j]
  /\ \A i, j \in 1 .. Cardinality(S) : i < j => f[l[i]] >= f[l[j]]

(* What is not among the first ones printed is not greater than any that   *)
(* is.                                                                     *)
LEMMA PrintedFirst ==
  ASSUME NEW S, NEW f, NEW l, Ranks(l, S, f), \A x \in S : f[x] \in Nat
  PROVE  \A i \in DOMAIN Printed(l) :
           /\ Printed(l)[i] \in S
           /\ \A x \in S \ ToSet(Printed(l)) : f[x] <= f[Printed(l)[i]]
<1> DEFINE N == Cardinality(S)
<1>1. N \in Nat
  BY FS_CardinalityType DEF Ranks
<1>2. l \in [1 .. N -> S] /\ \A x \in S : \E i \in 1 .. N : l[i] = x
  BY OnceEach DEF Ranks
<1>3. \A i, j \in 1 .. N : i < j => f[l[i]] >= f[l[j]]
  BY DEF Ranks
<1> HIDE DEF N
<1>4. l \in Seq(S) /\ Len(l) = N
  BY <1>1, <1>2
<1>5. PICK n \in 0 .. N : Printed(l) = SubSeq(l, 1, n)
  <2> DEFINE k == IF Len(l) < MaxPrinted THEN Len(l) ELSE MaxPrinted
  <2>1. k \in 0 .. N
    BY <1>1, <1>4, IoChunksAssumption
  <2>2. Printed(l) = SubSeq(l, 1, k)
    BY DEF Printed
  <2> HIDE DEF k
  <2> QED
    BY <2>1, <2>2
<1>6. /\ DOMAIN Printed(l) = 1 .. n
      /\ \A i \in 1 .. n : Printed(l)[i] = l[i]
  BY <1>1, <1>4, <1>5
<1>7. \A i \in 1 .. n : l[i] \in ToSet(Printed(l))
  BY <1>6 DEF ToSet
<1>8. ASSUME NEW i \in 1 .. n, NEW x \in S, x \notin ToSet(Printed(l))
      PROVE  f[x] <= f[l[i]]
  <2>1. PICK j \in 1 .. N : l[j] = x
    BY <1>2
  <2>2. j > n
    BY <1>1, <1>7, <1>8, <2>1
  <2>3. f[l[i]] >= f[l[j]]
    BY <1>1, <1>3, <2>2
  <2>4. f[l[i]] \in Nat /\ f[x] \in Nat
    BY <1>1, <1>2
  <2> QED
    BY <2>1, <2>3, <2>4
<1> QED
  BY <1>1, <1>2, <1>6, <1>8

Present(ctx) == {t \in Tids : ctx[t].present}

(* There are finitely many entries.                                        *)
LEMMA PresentFinite == \A ctx : IsFiniteSet(Present(ctx))
BY FiniteThreads, FS_Subset DEF Present

BytesRead(ctx)    == [t \in Tids |-> ctx[t].read.bytes]
BytesWritten(ctx) == [t \in Tids |-> ctx[t].write.bytes]

(* The first sort lists every thread that has an entry, by bytes read.     *)
LEMMA ReadsRanked ==
  ASSUME NEW ctx, NEW l \in ByRead(ctx)
  PROVE  Ranks(l, Present(ctx), BytesRead(ctx))
<1> DEFINE N == Cardinality(Present(ctx))
<1>1. N \in Nat
  BY PresentFinite, FS_CardinalityType
<1>2. /\ l \in [1 .. N -> Present(ctx)]
      /\ \A i, j \in 1 .. N : i # j => l[i] # l[j]
      /\ \A i, j \in 1 .. Len(l) : i < j => ctx[l[i]].read.bytes >= ctx[l[j]].read.bytes
  BY DEF ByRead, SetToSeqs, IsSorted, Present
<1>3. Present(ctx) \subseteq Tids
  BY DEF Present
<1> HIDE DEF N
<1>4. Len(l) = N
  BY <1>1, <1>2
<1>5. \A i, j \in 1 .. N : i < j => BytesRead(ctx)[l[i]] >= BytesRead(ctx)[l[j]]
  BY <1>2, <1>3, <1>4 DEF BytesRead
<1> QED
  BY <1>2, <1>5, PresentFinite DEF Ranks, N

(* The second sort lists the same threads again.                           *)
LEMMA WritesRanked ==
  ASSUME NEW ctx \in Contexts, NEW l \in ByRead(ctx), NEW m \in ByWrite(ctx, l)
  PROVE  Ranks(m, Present(ctx), BytesWritten(ctx))
<1> DEFINE N == Cardinality(Present(ctx))
<1>1. N \in Nat
  BY PresentFinite, FS_CardinalityType
<1>2. ToSet(l) = Present(ctx)
  <2>1. Ranks(l, Present(ctx), BytesRead(ctx))
    BY ReadsRanked
  <2>2. l \in [1 .. N -> Present(ctx)] /\ \A x \in Present(ctx) : \E i \in 1 .. N : l[i] = x
    BY <2>1, OnceEach DEF Ranks
  <2> HIDE DEF N
  <2> QED
    BY <2>2 DEF ToSet
<1>3. /\ m \in [1 .. N -> Present(ctx)]
      /\ \A i, j \in 1 .. N : i # j => m[i] # m[j]
  BY <1>2 DEF ByWrite, SetToSeqs
<1>4. \A i, j \in 1 .. Len(m) :
        i < j => \/ ctx[m[i]].write.bytes > ctx[m[j]].write.bytes
                 \/ ctx[m[i]].write.bytes = ctx[m[j]].write.bytes
  BY DEF ByWrite, IsSorted
<1>5. Present(ctx) \subseteq Tids /\ \A t \in Tids : ctx[t].write.bytes \in Nat
  BY DEF Present, Contexts, IoProcess, Total
<1> HIDE DEF N
<1>6. Len(m) = N
  BY <1>1, <1>3
<1>7. \A i, j \in 1 .. N : i < j => BytesWritten(ctx)[m[i]] >= BytesWritten(ctx)[m[j]]
  BY <1>3, <1>4, <1>5, <1>6 DEF BytesWritten
<1> QED
  BY <1>3, <1>7, PresentFinite DEF Ranks, N

(* Both tables list the heaviest threads: the end does so, ...             *)
LEMMA EndLists ==
  ASSUME IInv, End
  PROVE  HeaviestListed'
<1>1. final' = final /\ final \in Contexts
  BY DEF End, IInv, TypeOK
<1>2. PICK l \in ByRead(final) :
        reads' = Printed(l) /\ \E m \in ByWrite(final, l) : writes' = Printed(m)
  BY DEF End
<1>3. PICK m \in ByWrite(final, l) : writes' = Printed(m)
  BY <1>2
<1>4. /\ Ranks(l, Present(final), BytesRead(final))
      /\ Ranks(m, Present(final), BytesWritten(final))
  BY <1>1, ReadsRanked, WritesRanked
<1>5. \A t \in Tids : BytesRead(final)[t] \in Nat /\ BytesWritten(final)[t] \in Nat
  BY <1>1 DEF BytesRead, BytesWritten, Contexts, IoProcess, Total
<1>6. \A t \in Tids \ Present(final) : BytesRead(final)[t] = 0 /\ BytesWritten(final)[t] = 0
  <2> TAKE t \in Tids \ Present(final)
  <2>1. final[t] = NewProcess
    BY DEF Present, IInv, Tracks
  <2> QED
    BY <2>1 DEF BytesRead, BytesWritten, NewProcess, NoTotal
<1>7. Present(final) \subseteq Tids
  BY DEF Present
<1>8. /\ \A i \in DOMAIN reads' :
           /\ reads'[i] \in Present(final)
           /\ \A x \in Present(final) \ ToSet(reads') :
                BytesRead(final)[x] <= BytesRead(final)[reads'[i]]
      /\ \A i \in DOMAIN writes' :
           /\ writes'[i] \in Present(final)
           /\ \A x \in Present(final) \ ToSet(writes') :
                BytesWritten(final)[x] <= BytesWritten(final)[writes'[i]]
  BY <1>2, <1>3, <1>4, <1>5, <1>7, PrintedFirst
<1>9. ASSUME NEW t \in Tids
      PROVE  /\ \A i \in DOMAIN reads' :
                  t \notin ToSet(reads') =>
                    BytesRead(final)[t] <= BytesRead(final)[reads'[i]]
             /\ \A i \in DOMAIN writes' :
                  t \notin ToSet(writes') =>
                    BytesWritten(final)[t] <= BytesWritten(final)[writes'[i]]
  BY <1>5, <1>6, <1>7, <1>8
<1>10. /\ \A i \in DOMAIN reads' : reads'[i] \in Tids
       /\ \A i \in DOMAIN writes' : writes'[i] \in Tids
  BY <1>7, <1>8
<1> QED
  BY <1>1, <1>9, <1>10 DEF HeaviestListed, BytesRead, BytesWritten

(* ... and nothing after it changes them.                                  *)
LEMMA StepLists == IInv /\ HeaviestListed /\ [Next]_vars => HeaviestListed'
<1> SUFFICES ASSUME IInv, HeaviestListed, [Next]_vars PROVE HeaviestListed'
  OBVIOUS
<1>1. CASE End
  BY <1>1, EndLists
<1>2. CASE UNCHANGED vars
  BY <1>2 DEF vars, traceVars, HeaviestListed
<1>3. CASE phase' # "done"
  BY <1>3 DEF HeaviestListed
<1>4. [Next]_vars => End \/ UNCHANGED vars \/ phase' # "done"
  BY DEF Next, Finished, MapEnter, MapEnterOther, MapExit, Map, Reduce, IInv, TypeOK
<1> QED
  BY <1>1, <1>2, <1>3, <1>4

(* Each table lists the threads that read, or wrote, most, although both   *)
(* come from one list that is sorted again.                                *)
THEOREM HeaviestAreListed == Spec => []HeaviestListed
<1>1. Init => HeaviestListed
  BY DEF Init, HeaviestListed
<1> QED
  BY <1>1, StepLists, Invariant, PTL DEF Spec

-------------------------------------------------------------------------------
(* The serial analysis: the entry that waits for its exit is that of the   *)
(* call its thread is in.                                                  *)
SerialInv ==
  /\ data \in Contexts
  /\ ended \in BOOLEAN
  /\ phase = "map" => ~ended
  /\ \A t \in Tids : Tracks(t, NewProcess, data[t])

(* What it accounts for.                                                   *)
SerialKnown == {t \in Tids : data[t].currentSyscall # None}
SerialSeen  == {t \in Tids : data[t].present}
SerialName  == [t \in Tids |-> data[t].comm]
SerialRead  == [t \in Tids |-> data[t].read]
SerialWrite == [t \in Tids |-> data[t].write]

BothInv == IInv /\ SerialInv

(* Merging into nothing yields the context itself.                         *)
LEMMA MergeIntoNothing ==
  ASSUME NEW w, ~w.present => w = NewProcess
  PROVE  MergeProcess(NewProcess, w) = w
BY NewFields DEF MergeProcess

(* Every step of the two is a step of the parallel analysis, or none.      *)
LEMMA BothIsNext == [BothNext]_bothVars => [Next]_vars
<1>1. SerialEnd \/ UNCHANGED bothVars => UNCHANGED vars
  BY DEF SerialEnd, bothVars
<1> QED
  BY <1>1 DEF BothNext, Next, BothEnter, BothEnterOther, BothExit, ParallelReduce, ParallelEnd,
              BothDone

(* The serial analysis begins as IoUsage does.                             *)
LEMMA SerialInit ==
  ASSUME BothInit
  PROVE  SerialInv /\ SerialUsage!Init
<1>1. \A t \in Tids : data[t] = NewProcess
  BY DEF BothInit, NewContext
<1>2. data \in Contexts /\ ~ended /\ ended \in BOOLEAN /\ TraceInit
  BY NewTypes DEF BothInit, Init
<1>3. \A t \in Tids : Tracks(t, NewProcess, data[t])
  BY <1>1, NewFields DEF Tracks
<1>4. /\ SerialKnown = {} /\ SerialSeen = {} /\ SerialName = [t \in Tids |-> NoComm]
      /\ SerialRead = [t \in Tids |-> NoTotal] /\ SerialWrite = [t \in Tids |-> NoTotal]
  BY <1>1, NewFields DEF SerialKnown, SerialSeen, SerialName, SerialRead, SerialWrite
<1>5. SerialUsage!Nothing = [t \in Tids |-> NoTotal]
  BY DEF SerialUsage!Nothing, NoTotal
<1>6. SerialUsage!TraceInit
  BY <1>2 DEF TraceInit, SerialUsage!TraceInit, SerialUsage!Calls, SerialUsage!IOTypes,
              Calls, IOTypes
<1>7. SerialUsage!Init
  BY <1>2, <1>4, <1>5, <1>6, Zenon DEF SerialUsage!Init, SerialKnown, SerialSeen, SerialName,
              SerialRead, SerialWrite
<1> QED
  BY <1>2, <1>3, <1>7 DEF SerialInv

(* A thread enters a read or a write.                                      *)
LEMMA SerialEnter ==
  ASSUME BothInv, NEW t \in Tids, NEW type \in IOTypes, NEW comm \in Comms,
         NEW ts \in now .. TraceEnd, BothEnter(t, type, comm, ts)
  PROVE  SerialInv' /\ SerialUsage!Enter(t, type, comm, ts)
<1> DEFINE w == data[t]
           v == EnterProcess(w, EntryEvent(t, comm, ts), type)
<1>1. /\ w \in IoProcess /\ Tracks(t, NewProcess, w) /\ NewProcess \in IoProcess
  BY NewTypes DEF BothInv, SerialInv, Contexts
<1>2. /\ call[t] = "NONE" /\ phase = "map" /\ phase' = phase
      /\ call' = [call EXCEPT ![t] = type] /\ last' = [last EXCEPT ![t] = ts] /\ now' = ts
      /\ ~ended /\ ended' = ended
  BY DEF BothEnter, SerialHandles, MapEnter, EnterCall, Advance, Map
<1>3. data' = [data EXCEPT ![t] = v]
  BY DEF BothEnter, SerialHandles, HandleReadWrite, EntryEvent
<1>4. ts \in Nat
  BY TracedCallsAssumption DEF BothInv, IInv, TypeOK
<1>5. MergeProcess(NewProcess, w) = w
  BY <1>1, MergeIntoNothing DEF Tracks
<1>6. /\ v \in IoProcess
      /\ v.present
      /\ v.currentSyscall = [type |-> type, start |-> ts]
      /\ MergeProcess(NewProcess, v).comm = SeenComm(w, comm)
      /\ MergeProcess(NewProcess, v).currentSyscall # None
      /\ MergeProcess(NewProcess, v).read = w.read
      /\ MergeProcess(NewProcess, v).write = w.write
  BY <1>1, <1>2, <1>4, <1>5, EnterNow
<1> HIDE DEF v
<1>7. MergeProcess(NewProcess, v) = v
  BY <1>6, MergeIntoNothing
<1>8. /\ data'[t] = v /\ call'[t] = type /\ last'[t] = ts
      /\ \A u \in Tids \ {t} : /\ data'[u] = data[u]
                               /\ call'[u] = call[u] /\ last'[u] = last[u]
  BY <1>2, <1>3 DEF BothInv, SerialInv, Contexts, IInv, TypeOK
<1>9. \A u \in Tids : Tracks(u, NewProcess, data[u])'
  BY <1>6, <1>8, NewFields DEF BothInv, SerialInv, Tracks, IsCurrent
<1>10. SerialInv'
  BY <1>2, <1>3, <1>6, <1>9 DEF BothInv, SerialInv, Contexts
<1>11. SerialKnown' = SerialKnown \cup {t} /\ SerialSeen' = SerialSeen \cup {t}
  BY <1>6, <1>7, <1>8 DEF SerialKnown, SerialSeen
<1>12. SerialName' = [SerialName EXCEPT ![t] = IF t \in SerialSeen THEN @ ELSE comm]
  <2>1. v.comm = IF t \in SerialSeen THEN w.comm ELSE comm
    BY <1>6, <1>7 DEF SerialSeen, SeenComm
  <2> HIDE DEF w
  <2>2. \A u \in Tids : data'[u].comm = IF u = t THEN v.comm ELSE data[u].comm
    BY <1>8
  <2>3. t \in SerialSeen => v.comm = data[t].comm
    BY <2>1 DEF w
  <2> QED
    BY <2>1, <2>2, <2>3 DEF SerialName
<1>13. SerialRead' = SerialRead /\ SerialWrite' = SerialWrite
  BY <1>6, <1>7, <1>8 DEF SerialRead, SerialWrite
<1>14. SerialUsage!EnterCall(t, type, ts)
  BY DEF BothEnter, MapEnter, EnterCall, Advance, SerialUsage!EnterCall, SerialUsage!Advance
<1> QED
  BY <1>2, <1>10, <1>11, <1>12, <1>13, <1>14
     DEF SerialUsage!Enter, SerialUsage!See, SerialKnown, SerialSeen, SerialName,
         SerialRead, SerialWrite

(* A thread enters a call the analysis is not interested in.               *)
LEMMA SerialEnterOther ==
  ASSUME BothInv, NEW t \in Tids, NEW ts \in now .. TraceEnd, BothEnterOther(t, ts)
  PROVE  SerialInv' /\ SerialUsage!EnterOther(t, ts)
<1>1. /\ call[t] = "NONE" /\ phase' = phase /\ data' = data /\ ~ended /\ ended' = ended
      /\ call' = [call EXCEPT ![t] = "OTHER"] /\ last' = [last EXCEPT ![t] = ts]
  BY DEF BothEnterOther, SerialHandles, MapEnterOther, EnterCall, Advance, Map
<1>2. data[t] \in IoProcess /\ Tracks(t, NewProcess, data[t])
  BY DEF BothInv, SerialInv, Contexts
<1>3. data[t].currentSyscall = None
  <2>1. data[t].currentSyscall \in Syscall \cup {None}
    BY <1>2 DEF IoProcess
  <2> QED
    BY <1>1, <1>2, <2>1 DEF Tracks, IsCurrent, Syscall, IOTypes
<1>4. \A u \in Tids \ {t} : call'[u] = call[u] /\ last'[u] = last[u]
  BY <1>1 DEF BothInv, IInv, TypeOK
<1>5. \A u \in Tids : Tracks(u, NewProcess, data[u])'
  BY <1>1, <1>3, <1>4, NewFields DEF BothInv, SerialInv, Tracks, IsCurrent
<1>6. SerialInv'
  BY <1>1, <1>5 DEF BothInv, SerialInv
<1>7. SerialUsage!EnterCall(t, "OTHER", ts)
  BY DEF BothEnterOther, MapEnterOther, EnterCall, Advance, SerialUsage!EnterCall,
         SerialUsage!Advance
<1> QED
  BY <1>1, <1>6, <1>7 DEF SerialUsage!EnterOther

(* A thread leaves the call it is in.                                      *)
LEMMA SerialExit ==
  ASSUME BothInv, NEW t \in Tids, NEW comm \in Comms, NEW ret \in Rets,
         NEW ts \in now .. TraceEnd, BothExit(t, comm, ret, ts)
  PROVE  SerialInv' /\ SerialUsage!Exit(t, comm, ret, ts)
<1> DEFINE w == data[t]
           v == ExitProcess(w, ExitEvent(t, comm, ret, ts))
<1>1. /\ w \in IoProcess /\ Tracks(t, NewProcess, w) /\ NewProcess \in IoProcess
  BY NewTypes DEF BothInv, SerialInv, Contexts
<1>2. /\ phase = "map" /\ phase' = phase
      /\ call' = [call EXCEPT ![t] = "NONE"] /\ last' = [last EXCEPT ![t] = ts] /\ now' = ts
      /\ ~ended /\ ended' = ended /\ ts > last[t]
  BY DEF BothExit, SerialHandles, MapExit, ExitCall, Advance, Map
<1>3. data' = [data EXCEPT ![t] = v]
  BY DEF BothExit, SerialHandles, HandleExitSyscall, ExitEvent
<1>4. ts \in Nat /\ last[t] < ts
  <2>1. last[t] \in Int /\ ts \in Nat
    BY TracedCallsAssumption DEF BothInv, IInv, TypeOK
  <2> QED
    BY <1>2, <2>1
<1>5. MergeProcess(NewProcess, w) = w
  BY <1>1, MergeIntoNothing DEF Tracks
<1>6. /\ v \in IoProcess
      /\ v.present
      /\ v.currentSyscall = None
      /\ MergeProcess(NewProcess, v).comm = SeenComm(w, comm)
      /\ MergeProcess(NewProcess, v).read =
           AddReturned(w, w.read, Reads(w.currentSyscall.type), ret, ts)
      /\ MergeProcess(NewProcess, v).write =
           AddReturned(w, w.write, Writes(w.currentSyscall.type), ret, ts)
  BY <1>1, <1>4, <1>5, ExitNow
<1> HIDE DEF v
<1>7. MergeProcess(NewProcess, v) = v
  BY <1>6, MergeIntoNothing
<1>8. /\ data'[t] = v /\ call'[t] = "NONE" /\ last'[t] = ts
      /\ \A u \in Tids \ {t} : /\ data'[u] = data[u]
                               /\ call'[u] = call[u] /\ last'[u] = last[u]
  BY <1>2, <1>3 DEF BothInv, SerialInv, Contexts, IInv, TypeOK
<1>9. \A u \in Tids : Tracks(u, NewProcess, data[u])'
  BY <1>6, <1>8, NewFields DEF BothInv, SerialInv, Tracks, IsCurrent
<1>10. SerialInv'
  BY <1>2, <1>3, <1>6, <1>9 DEF BothInv, SerialInv, Contexts
<1>11. w.currentSyscall # None => w.currentSyscall.type = call[t] /\ w.currentSyscall.start = last[t]
  BY <1>1 DEF Tracks, IsCurrent
<1>12. SerialKnown' = SerialKnown \ {t} /\ SerialSeen' = SerialSeen \cup {t}
  BY <1>6, <1>8 DEF SerialKnown, SerialSeen
<1>13. SerialName' = [SerialName EXCEPT ![t] = IF t \in SerialSeen THEN @ ELSE comm]
  <2>1. v.comm = IF t \in SerialSeen THEN w.comm ELSE comm
    BY <1>6, <1>7 DEF SerialSeen, SeenComm
  <2> HIDE DEF w
  <2>2. \A u \in Tids : data'[u].comm = IF u = t THEN v.comm ELSE data[u].comm
    BY <1>8
  <2>3. t \in SerialSeen => v.comm = data[t].comm
    BY <2>1 DEF w
  <2> QED
    BY <2>1, <2>2, <2>3 DEF SerialName
<1>14. t \in SerialKnown <=> w.currentSyscall # None
  BY DEF SerialKnown
<1>15. SerialRead' =
         IF t \in SerialKnown /\ call[t] \in {"READ", "READWRITE"} /\ ret >= 0
         THEN [SerialRead EXCEPT ![t] = [latency |-> @.latency + (ts - last[t]),
                                         bytes   |-> @.bytes + ret,
                                         count   |-> @.count + 1]]
         ELSE SerialRead
  <2>1. v.read = IF t \in SerialKnown /\ call[t] \in {"READ", "READWRITE"} /\ ret >= 0
                 THEN [latency |-> w.read.latency + (ts - last[t]),
                       bytes   |-> w.read.bytes + ret,
                       count   |-> w.read.count + 1]
                 ELSE w.read
    BY <1>6, <1>7, <1>11, <1>14 DEF AddReturned, Charged, Counts, Reads
  <2> QED
    BY <1>8, <2>1 DEF SerialRead
<1>16. SerialWrite' =
         IF t \in SerialKnown /\ call[t] \in {"WRITE", "READWRITE"} /\ ret >= 0
         THEN [SerialWrite EXCEPT ![t] = [latency |-> @.latency + (ts - last[t]),
                                          bytes   |-> @.bytes + ret,
                                          count   |-> @.count + 1]]
         ELSE SerialWrite
  <2>1. v.write = IF t \in SerialKnown /\ call[t] \in {"WRITE", "READWRITE"} /\ ret >= 0
                  THEN [latency |-> w.write.latency + (ts - last[t]),
                        bytes   |-> w.write.bytes + ret,
                        count   |-> w.write.count + 1]
                  ELSE w.write
    BY <1>6, <1>7, <1>11, <1>14 DEF AddReturned, Charged, Counts, Writes
  <2> QED
    BY <1>8, <2>1 DEF SerialWrite
<1>17. SerialUsage!ExitCall(t, ts)
  BY DEF BothExit, MapExit, ExitCall, Advance, SerialUsage!ExitCall, SerialUsage!Advance
<1> QED
  BY <1>2, <1>10, <1>12, <1>13, <1>15, <1>16, <1>17
     DEF SerialUsage!Exit, SerialUsage!See, SerialUsage!Moved, SerialKnown, SerialSeen,
         SerialName, SerialRead, SerialWrite

(* The other steps change nothing the serial analysis accounts for.        *)
LEMMA SerialRest ==
  ASSUME BothInv,
         \/ Reduce /\ data' = data /\ ended' = ended
         \/ End /\ data' = data /\ ended' = ended
         \/ UNCHANGED bothVars
  PROVE  SerialInv' /\ UNCHANGED SerialUsage!vars
<1>1. /\ data' = data /\ ended' = ended /\ UNCHANGED <<call, last, now>>
      /\ phase' = "map" => phase = "map"
  BY DEF Reduce, End, traceVars, bothVars, vars
<1> QED
  BY <1>1 DEF BothInv, SerialInv, Tracks, IsCurrent, SerialUsage!vars

(* The end of the serial analysis is the end of IoUsage.                   *)
LEMMA SerialEndCloses ==
  ASSUME BothInv, SerialEnd
  PROVE  SerialInv' /\ SerialUsage!Close
<1>1. /\ data' = data /\ ~ended /\ ended' = TRUE /\ UNCHANGED <<call, last, now>>
      /\ phase' = phase /\ phase # "map"
  BY DEF SerialEnd, vars, traceVars
<1>2. SerialInv'
  BY <1>1 DEF BothInv, SerialInv, Tracks, IsCurrent
<1> QED
  BY <1>1, <1>2 DEF SerialUsage!Close

(* Every step of both analyses is a step of IoUsage for the serial one.    *)
LEMMA BothStep ==
  BothInv /\ [BothNext]_bothVars => BothInv' /\ [SerialUsage!Next]_SerialUsage!vars
<1> SUFFICES ASSUME BothInv, [BothNext]_bothVars
             PROVE  BothInv' /\ [SerialUsage!Next]_SerialUsage!vars
  OBVIOUS
<1>1. IInv'
  BY BothIsNext, StepRefines DEF BothInv
<1>2. ASSUME NEW t \in Tids, NEW ts \in now .. TraceEnd, BothEnterOther(t, ts)
      PROVE  SerialInv' /\ SerialUsage!Next
  BY <1>2, SerialEnterOther DEF SerialUsage!Next
<1>3. ASSUME NEW t \in Tids, NEW ts \in now .. TraceEnd, NEW comm \in Comms,
             NEW type \in IOTypes, BothEnter(t, type, comm, ts)
      PROVE  SerialInv' /\ SerialUsage!Next
  BY <1>3, SerialEnter DEF SerialUsage!Next, SerialUsage!IOTypes, IOTypes
<1>4. ASSUME NEW t \in Tids, NEW ts \in now .. TraceEnd, NEW comm \in Comms,
             NEW ret \in Rets, BothExit(t, comm, ret, ts)
      PROVE  SerialInv' /\ SerialUsage!Next
  BY <1>4, SerialExit DEF SerialUsage!Next
<1>5. CASE \/ Reduce /\ data' = data /\ ended' = ended
           \/ End /\ data' = data /\ ended' = ended
           \/ UNCHANGED bothVars
  BY <1>1, <1>5, SerialRest DEF BothInv
<1>6. CASE SerialEnd
  BY <1>1, <1>6, SerialEndCloses DEF BothInv, SerialUsage!Next
<1> QED
  BY <1>1, <1>2, <1>3, <1>4, <1>5, <1>6
     DEF BothInv, BothNext, ParallelReduce, ParallelEnd, BothDone

(* The serial I/O analysis charges every call the trace shows entirely     *)
(* once, with its own latency and return value (SerialImplementsUsage).    *)
THEOREM SerialRefinesUsage == BothSpec => SerialImplementsUsage
<1>1. BothInit => BothInv /\ SerialUsage!Init
  BY InitRefines, SerialInit DEF BothInit, BothInv
<1> QED
  BY <1>1, BothStep, PTL DEF BothSpec, SerialImplementsUsage, SerialUsage!Spec

-------------------------------------------------------------------------------
(* Both account for the same at every moment: they make the same steps of  *)
(* IoUsage.                                                                *)
Same ==
  /\ Known = SerialKnown /\ Seen = SerialSeen /\ Name = SerialName
  /\ Read = SerialRead /\ Write = SerialWrite

(* Both usages are equal at first, ...                                     *)
LEMMA SameInit == BothInit => Same
<1> SUFFICES ASSUME BothInit PROVE Same
  OBVIOUS
<1>1. \A t \in Tids : data[t] = NewProcess /\ work[t] = NewProcess /\ final[t] = NewProcess
  BY DEF BothInit, Init, NewContext
<1>2. \A t \in Tids : ProcessNow(t) = data[t]
  BY <1>1, MergeIntoNothing DEF ProcessNow
<1> QED
  BY <1>2 DEF Same, Known, Seen, Name, Read, Write, SerialKnown, SerialSeen, SerialName,
              SerialRead, SerialWrite

(* ... and stay equal in every step of the two analyses.                   *)
LEMMA SameStep == BothInv /\ Same /\ [BothNext]_bothVars => Same'
<1> SUFFICES ASSUME BothInv, Same, [BothNext]_bothVars PROVE Same'
  OBVIOUS
<1> USE DEF SerialKnown, SerialSeen, SerialName, SerialRead, SerialWrite
<1>1. ASSUME NEW t \in Tids, NEW ts \in now .. TraceEnd, BothEnterOther(t, ts)
      PROVE  Same'
  <2>1. Usage!EnterOther(t, ts) /\ SerialUsage!EnterOther(t, ts)
    BY <1>1, EnterOtherRefines, SerialEnterOther DEF BothEnterOther, BothInv
  <2> QED
    BY <2>1 DEF Usage!EnterOther, SerialUsage!EnterOther, Same
<1>2. ASSUME NEW t \in Tids, NEW ts \in now .. TraceEnd, NEW comm \in Comms,
             NEW type \in IOTypes, BothEnter(t, type, comm, ts)
      PROVE  Same'
  <2>1. Usage!Enter(t, type, comm, ts) /\ SerialUsage!Enter(t, type, comm, ts)
    BY <1>2, EnterRefines, SerialEnter DEF BothEnter, BothInv
  <2> QED
    BY <2>1 DEF Usage!Enter, SerialUsage!Enter, Usage!See, SerialUsage!See, Same
<1>3. ASSUME NEW t \in Tids, NEW ts \in now .. TraceEnd, NEW comm \in Comms,
             NEW ret \in Rets, BothExit(t, comm, ret, ts)
      PROVE  Same'
  <2>1. Usage!Exit(t, comm, ret, ts) /\ SerialUsage!Exit(t, comm, ret, ts)
    BY <1>3, ExitRefines, SerialExit DEF BothExit, BothInv
  <2> QED
    BY <2>1 DEF Usage!Exit, SerialUsage!Exit, Usage!See, SerialUsage!See,
                Usage!Moved, SerialUsage!Moved, Same
<1>4. CASE \/ Reduce /\ data' = data /\ ended' = ended
           \/ End /\ data' = data /\ ended' = ended
           \/ UNCHANGED bothVars
  <2>1. UNCHANGED <<Known, Seen, Name, Read, Write>>
    <3>1. CASE Reduce
      BY <3>1, ReduceRefines DEF BothInv, Usage!vars
    <3>2. CASE End
      BY <3>2, EndRefines DEF BothInv, Usage!Close
    <3>3. CASE UNCHANGED bothVars
      BY <3>3 DEF bothVars, vars, Known, Seen, Name, Read, Write, ProcessNow
    <3> QED
      BY <1>4, <3>1, <3>2, <3>3
  <2>2. data' = data
    BY <1>4 DEF bothVars
  <2> QED
    BY <2>1, <2>2 DEF Same
<1>5. CASE SerialEnd
  BY <1>5 DEF SerialEnd, vars, Same, Known, Seen, Name, Read, Write, ProcessNow
<1> QED
  BY <1>1, <1>2, <1>3, <1>4, <1>5 DEF BothNext, ParallelReduce, ParallelEnd, BothDone

(* The parallel I/O analysis reports what the serial one reports, wherever *)
(* the trace is cut (SameReport).                                          *)
THEOREM SameAsSerial == BothSpec => []SameReport
<1>1. BothInv /\ Same => SameReport
  <2> SUFFICES ASSUME BothInv, Same, phase = "done", NEW t \in Tids
               PROVE  /\ final[t].present = data[t].present
                      /\ final[t].comm = data[t].comm
                      /\ final[t].read = data[t].read
                      /\ final[t].write = data[t].write
    BY DEF SameReport
  <2>1. work[t] = NewProcess
    BY DEF BothInv, IInv, NewContext
  <2>2. ProcessNow(t) = final[t]
    BY <2>1, NewFields DEF ProcessNow, MergeProcess
  <2>3. final[t].present \in BOOLEAN /\ data[t].present \in BOOLEAN
    BY DEF BothInv, IInv, TypeOK, SerialInv, Contexts, IoProcess
  <2>4. t \in Seen <=> t \in SerialSeen
    BY DEF Same
  <2>5. final[t].present = data[t].present
    BY <2>2, <2>3, <2>4 DEF Seen, SerialSeen
  <2>6. Name[t] = SerialName[t] /\ Read[t] = SerialRead[t] /\ Write[t] = SerialWrite[t]
    BY DEF Same
  <2> QED
    BY <2>2, <2>5, <2>6 DEF Name, Read, Write, SerialName, SerialRead, SerialWrite
<1>2. BothInit => BothInv
  BY InitRefines, SerialInit DEF BothInit, BothInv
<1> QED
  BY <1>1, <1>2, SameInit, BothStep, SameStep, PTL DEF BothSpec
===============================================================================
