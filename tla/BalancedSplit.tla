----------------------------- MODULE BalancedSplit -----------------------------
(***************************************************************************)
(* The balanced chunking, doExecuteParallelBalanced as a whole: once every *)
(* stream is set up (StreamSetup), the calling thread reads the packet     *)
(* index of every stream, cuts the stream where enough packets have come   *)
(* together, sorts the workers of all streams by begin position, has them  *)
(* mapped and reduced (MapReduce) and removes the directory.               *)
(*                                                                         *)
(* The program ends abnormally ("crashed") where the code throws, divides  *)
(* by zero or passes a null pointer on.                                    *)
(***************************************************************************)
EXTENDS StreamSetup

CONSTANTS
  Stranger,     (* An index file that belongs to no stream.                *)
  PacketSizes,  (* Values of contentSize.                                  *)
  MaxPackets,   (* A bound on the packets of a stream.                     *)
  MaxTime,      (* A bound on the timestamps, from 1.                      *)
  NULL

ASSUME BalancedSplitAssumption ==
  /\ Stranger \notin Streams
  /\ PacketSizes \subseteq Nat
  /\ MaxPackets \in Nat
  /\ MaxTime \in Nat
  /\ NULL \notin Nat

VARIABLES
  listing,      (* The index files not read yet.                           *)
  name,         (* The one being read, or NULL.                            *)
  indices,      (* Its packets.                                            *)
  workers       (* The workers of the streams read so far.                 *)

splitVars == <<listing, name, indices, workers>>
vars == <<setupVars, splitVars>>

Init ==
  /\ SetupInit
  /\ listing = {}
  /\ name = NULL
  /\ indices = <<>>
  /\ workers = <<>>

(* waitForFinished returns.  The files of the index directory are listed:  *)
(* usually one per stream, but a stream may have none and a file may have  *)
(* no stream (all of them, if the trace has no index directory: traceDir   *)
(* is then listed again).                                                  *)
ListIndexFiles ==
  /\ AllSetUp
  /\ phase' = "index"
  /\ listing' \in SUBSET (Streams \cup {Stranger})
  /\ UNCHANGED <<fsVars, tmpDir, thisTmpDir, step, mapVars, opened, failed, faults,
                 name, indices, workers>>

-------------------------------------------------------------------------------
(* The packet index of a stream.  Packets end one after the other; the     *)
(* conversion of the ends from cycles to nanoseconds, rounded, keeps that  *)
(* order but may make two of them equal.                                   *)
PacketHeader == [contentSize : PacketSizes, timestampEnd : 1 .. MaxTime]

PacketLists ==
  {l \in UNION {[1 .. n -> PacketHeader] : n \in 0 .. MaxPackets} :
     IsSorted(l, LAMBDA p, q : p.timestampEnd <= q.timestampEnd)}

Reading(f) ==
  /\ phase = "index"
  /\ name = NULL
  /\ f \in listing
  /\ UNCHANGED <<fsVars, tmpDir, thisTmpDir, step, mapVars, opened, workers>>

Crash(f) ==
  /\ Reading(f)
  /\ phase' = "crashed"
  /\ UNCHANGED <<listing, name, indices>>

(* traceSets.at(name) throws.                                              *)
NoTraceSet(f) == Crash(f) /\ f \notin traceSets /\ UNCHANGED <<failed, faults>>

(* fopen fails and the null pointer is passed to fclose.                   *)
CannotOpenIndex(f) == Crash(f) /\ f \in traceSets /\ FailsFor(f, FALSE)

(* The clock is that of the first trace of an empty set.                   *)
NoTrace(f) ==
  /\ Crash(f)
  /\ f \in traceSets
  /\ opened[f] = {}
  /\ UNCHANGED <<failed, faults>>

Read(f, packets) ==
  /\ Reading(f)
  /\ name' = f
  /\ listing' = listing \ {f}
  /\ indices' = packets
  /\ UNCHANGED phase

(* The header cannot be read or is refused: the index stays empty.         *)
RefuseIndex(f) == f \in traceSets /\ Read(f, <<>>) /\ FailsFor(f, FALSE)

ReadIndex(f) ==
  /\ f \in traceSets
  /\ opened[f] # {}
  /\ \E packets \in PacketLists : Read(f, packets)
  /\ UNCHANGED <<failed, faults>>

(* size/indices.size() for an index without packets.                       *)
DivideByZero ==
  /\ name # NULL
  /\ indices = <<>>
  /\ phase = "index"
  /\ phase' = "crashed"
  /\ UNCHANGED <<fsVars, tmpDir, thisTmpDir, step, mapVars, opened, failed, faults, splitVars>>

-------------------------------------------------------------------------------
Sizes(packets) == [i \in DOMAIN packets |-> packets[i].contentSize]

MaxPacketSize(packets) == SumFunction(Sizes(packets)) \div Len(packets)

(* Wrong on purpose: the accumulator is not reset.                         *)
NotReset(acc) == acc

Reset(acc) == 0

(* The packets a chunk ends with.  The last one is disregarded.            *)
Cuts(packets) ==
  LET Walk(walk, i) ==
        LET acc == walk.acc + packets[i].contentSize
        IN  IF acc >= MaxPacketSize(packets)
            THEN [acc |-> Reset(acc), cuts |-> Append(walk.cuts, i)]
            ELSE [acc |-> acc, cuts |-> walk.cuts]
  IN  FoldLeft(Walk, [acc |-> 0, cuts |-> <<>>], [i \in 1 .. Len(packets) - 1 |-> i]).cuts

Positions(packets) == [k \in DOMAIN Cuts(packets) |-> packets[Cuts(packets)[k]].timestampEnd]

(* The two pointers of a worker with these positions, when they are to its *)
(* own fields: null, or the address of the worker in the vector.           *)
PointersTo(address, beginPos, endPos) ==
  [begin |-> IF beginPos = NULL THEN NULL ELSE address,
   end   |-> IF endPos = NULL THEN NULL ELSE address]

(* Wrong on purpose: consecutive ranges share a timestamp.                 *)
TraceWorkerOverlapping(f, b, e, address) ==
  [stream |-> f, beginPos |-> b, endPos |-> e, at |-> PointersTo(address, b, e)]

(* A worker constructed at an address from two positions: beginPos and     *)
(* endPos are what its pointers lead to, NULL for a null pointer, `at` is  *)
(* where they lead.                                                        *)
TraceWorker(f, b, e, address) ==
  LET first == IF b = NULL THEN NULL ELSE b + 1
  IN  [stream |-> f, beginPos |-> first, endPos |-> e, at |-> PointersTo(address, first, e)]

(* Wrong on purpose: the end pointer is copied.                            *)
MovedEndPointer(worker, address) ==
  [worker EXCEPT !.at.begin = PointersTo(address, worker.beginPos, worker.endPos).begin]

(* What the move constructor and the move assignment make of a worker at   *)
(* its new address.  Both null the pointers of the source too, which no    *)
(* one sees: it is destroyed with the old allocation, or it is an element  *)
(* or a temporary of the sort that is assigned to or destroyed next.       *)
Moved(worker, address) ==
  [worker EXCEPT !.at = PointersTo(address, worker.beginPos, worker.endPos)]

(* The allocation of a vector of n elements, and the place of its i-th.    *)
Capacity(n) == CHOOSE c \in {2 ^ k : k \in 0 .. n} : n <= c /\ c < 2 * n

Place(n, i) == <<Capacity(n), i>>

(* The workers of a stream, constructed at the end of a vector of n.  i    *)
(* counts from 1, hence one more than in the code.                         *)
StreamWorkers(f, positions, n) ==
  [i \in 1 .. Len(positions) + 1 |->
     TraceWorker(f, IF i = 1 THEN NULL ELSE positions[i - 1],
                    IF i = Len(positions) + 1 THEN NULL ELSE positions[i],
                    Place(n + i, n + i))]

(* emplace_back of one worker after the other: a vector that is full moves *)
(* its elements to an allocation twice as big.                             *)
Emplaced(ws, more) ==
  LET n     == Len(ws) + Len(more)
      built == ws \o more
      Was(i) == Place(IF i <= Len(ws) THEN Len(ws) ELSE i, i)
  IN  [i \in 1 .. n |-> IF Was(i) = Place(n, i) THEN built[i]
                        ELSE Moved(built[i], Place(n, i))]

SplitStream ==
  /\ phase = "index"
  /\ name # NULL
  /\ indices # <<>>
  /\ workers' = Emplaced(workers, StreamWorkers(name, Positions(indices), Len(workers)))
  /\ name' = NULL
  /\ UNCHANGED <<setupVars, listing, indices>>

(* Wrong on purpose: the workers that begin with their stream come last.   *)
BeforeNullLast(a, b) ==
  /\ a.beginPos # NULL
  /\ b.beginPos = NULL \/ a.beginPos < b.beginPos

Before(a, b) ==
  /\ b.beginPos # NULL
  /\ a.beginPos = NULL \/ a.beginPos < b.beginPos

(* std::sort: every order it may leave the workers in.  Equals may come in *)
(* any order.                                                              *)
Least(ws, rest) == {i \in rest : \A j \in rest : ~Before(ws[j], ws[i])}

SortedOrders(ws) ==
  LET Longer(orders, w) ==
        UNION {{Append(o, i) : i \in Least(ws, DOMAIN ws \ ToSet(o))} : o \in orders}
  IN  FoldLeft(Longer, {<<>>}, ws)

SortWorkers ==
  /\ phase = "index"
  /\ listing = {}
  /\ name = NULL
  /\ phase' = "sorted"
  /\ indices' = <<>>
  /\ \E o \in SortedOrders(workers) :
       workers' = [i \in DOMAIN workers |->
                     IF o[i] = i THEN workers[i]
                     ELSE Moved(workers[o[i]], Place(Len(workers), i))]
  /\ UNCHANGED <<fsVars, tmpDir, thisTmpDir, step, mapVars, opened, failed, faults,
                 listing, name>>

(* The map-reduce, doEnd, printResults and the removal of the directory.   *)
Report ==
  /\ phase = "sorted"
  /\ phase' = "done"
  /\ RemoveTmpDir
  /\ UNCHANGED <<tmpDir, thisTmpDir, step, mapVars, opened, failed, faults, splitVars>>

Main ==
  \/ MakeTmpDir /\ UNCHANGED splitVars
  \/ ListIndexFiles
  \/ \E f \in listing :
       \/ NoTraceSet(f)
       \/ CannotOpenIndex(f)
       \/ NoTrace(f)
       \/ RefuseIndex(f)
       \/ ReadIndex(f)
  \/ DivideByZero
  \/ SplitStream
  \/ SortWorkers
  \/ Report

Finished == phase \in {"done", "crashed"} /\ UNCHANGED vars

Next == (\E s \in Streams : SetUp(s) /\ UNCHANGED splitVars) \/ Main \/ Finished

Spec == Init /\ [][Next]_vars

-------------------------------------------------------------------------------
From(w) == IF w.beginPos = NULL THEN 1 ELSE w.beginPos
To(w)   == IF w.endPos = NULL THEN MaxTime ELSE w.endPos

WorkersOf(s) == {i \in DOMAIN workers : workers[i].stream = s}

(* Every event of a stream that was read from its index belongs to exactly *)
(* one worker of that stream, also when several packets end at the same    *)
(* time (traceanalysis.h:248-276).                                         *)
EveryEventOnce ==
  \A s \in Streams : WorkersOf(s) # {} =>
    \A ts \in 1 .. MaxTime :
      Cardinality({i \in WorkersOf(s) : ts \in From(workers[i]) .. To(workers[i])}) = 1

(* After the sort of the workers of all streams, those of one stream are   *)
(* merged in the order of time, although equal begin positions may change  *)
(* places: only one of such workers has any event (traceanalysis.h:285).   *)
StreamsInOrder ==
  phase \in {"sorted", "done"} =>
    \A i, j \in DOMAIN workers :
      /\ i < j
      /\ workers[i].stream = workers[j].stream
      /\ From(workers[i]) <= To(workers[i])
      /\ From(workers[j]) <= To(workers[j])
      => To(workers[i]) < From(workers[j])

(* Every chunk but the last of its stream reaches the average size of a    *)
(* packet, and would not without its last packet unless that is its only   *)
(* one, also when packets, or all of them, are empty                       *)
(* (traceanalysis.h:242-257).                                              *)
ChunksBalanced ==
  \A k \in DOMAIN Cuts(indices) :
    LET cuts  == Cuts(indices)
        first == IF k = 1 THEN 1 ELSE cuts[k - 1] + 1
        Content(last) == SumFunction(SubSeq(Sizes(indices), first, last))
    IN  /\ Content(cuts[k]) >= MaxPacketSize(indices)
        /\ first < cuts[k] => Content(cuts[k] - 1) < MaxPacketSize(indices)

(* However often the vector grew and the sort exchanged them, the pointers *)
(* a worker hands out are to its own fields (traceanalysis.h:394-435).     *)
PointersOwn ==
  \A i \in DOMAIN workers : LET w == workers[i] IN
    w.at = PointersTo(Place(Len(workers), i), w.beginPos, w.endPos)

(* The program crashes only after an operation of the file system failed,  *)
(* or for an index that is empty or belongs to no stream; in particular no *)
(* stream loses its trace set to the concurrent insertion of another one   *)
(* (traceanalysis.h:203 and 224).                                          *)
CrashesOnlyFor ==
  phase = "crashed" =>
    \/ faults > 0
    \/ Stranger \in listing
    \/ name # NULL /\ indices = <<>>

(* At the end everything that was created is gone, although the links are  *)
(* spread over the directories (traceanalysis.h:305).                      *)
NothingLeft == phase = "done" => links = {} /\ dirs \subseteq {Temp}
===============================================================================
