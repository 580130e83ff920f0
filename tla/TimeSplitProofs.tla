---------------------------- MODULE TimeSplitProofs ----------------------------
(***************************************************************************)
(* The ranges of the unbalanced parallel analysis partition the trace, for *)
(* any trace and any number of threads.                                    *)
(***************************************************************************)
EXTENDS TimeSplit, TLAPS

(* The position the loop computes in turn i, counted from 1.               *)
Position(i) == begin + (i - 1) * Step

Worker(i) == TraceWorker(IF i = 1 THEN NULL ELSE Position(i),
                         IF i = threads THEN NULL ELSE Position(i + 1))

(* The inductive invariant: what is in the two arrays, as far as filled.   *)
IInv ==
  /\ begin \in Nat /\ end \in Nat /\ begin <= end
  /\ threads \in Nat \ {0}
  /\ positions \in Seq(Nat)
  /\ Len(positions) <= threads
  /\ \A i \in 1 .. Len(positions) : positions[i] = Position(i)
  /\ workers \in Seq([beginPos : Nat \cup {NULL}, endPos : Nat \cup {NULL}])
  /\ Len(workers) <= threads
  /\ workers # <<>> => Len(positions) = threads
  /\ \A i \in 1 .. Len(workers) : workers[i] = Worker(i)

-------------------------------------------------------------------------------
(* Facts of arithmetic.                                                    *)

LEMMA Monotone ==
  ASSUME NEW s \in Nat, NEW k \in Int, NEW n \in Int, k <= n
  PROVE  k * s <= n * s
<1>1. (n - k) * s >= 0
  BY SMT
<1> QED
  BY <1>1, SMT

(* What an integer division gives.                                         *)
LEMMA Division ==
  ASSUME NEW x \in Nat, NEW n \in Nat \ {0}
  PROVE  x \div n \in Nat /\ n * (x \div n) <= x /\ x < n * (x \div n) + n
BY SMT

(* One step further is one summand more.                                   *)
LEMMA Product ==
  ASSUME NEW s \in Nat, NEW k \in Nat
  PROVE  k * s \in Nat /\ (k + 1) * s = k * s + s
BY SMT

(* The position of turn k, counted from 0 as in the code.                  *)
LEMMA PositionOfTurn ==
  ASSUME NEW k \in Int
  PROVE  Position(k + 1) = begin + k * Step
<1>1. (k + 1) - 1 = k
  OBVIOUS
<1> QED
  BY <1>1 DEF Position

(* The step is a natural number and as many steps as threads fit in the    *)
(* trace, so every position lies inside it.                                *)
LEMMA StepFits ==
  ASSUME IInv
  PROVE  Step \in Nat /\ threads * Step <= end - begin
<1>1. end - begin \in Nat /\ threads \in Nat \ {0}
  BY DEF IInv
<1> QED
  BY <1>1, Division DEF Step

(* Positions lie inside the trace, a step apart.                           *)
LEMMA PositionInside ==
  ASSUME IInv, NEW i \in 1 .. threads
  PROVE  /\ Position(i) \in Nat
         /\ Position(i) \in begin .. end
         /\ Position(i + 1) = Position(i) + Step
<1>0. i - 1 \in Nat /\ threads \in Nat /\ i - 1 <= threads /\ (i - 1) + 1 = i /\ Step \in Nat
  BY StepFits DEF IInv
<1>1. (i - 1) * Step \in Nat /\ i * Step = (i - 1) * Step + Step
  <2> DEFINE k == i - 1
  <2>1. k \in Nat /\ k + 1 = i
    BY <1>0
  <2> HIDE DEF k
  <2>2. k * Step \in Nat /\ i * Step = k * Step + Step
    BY <1>0, <2>1, Product
  <2> QED
    BY <2>2 DEF k
<1>2. (i - 1) * Step <= threads * Step
  BY <1>0, Monotone
<1>3. Position(i) = begin + (i - 1) * Step
  BY DEF Position
<1>4. Position(i + 1) = begin + i * Step
  BY PositionOfTurn
<1> DEFINE offset == (i - 1) * Step
<1>5. offset \in Nat /\ offset <= end - begin
  BY <1>1, <1>2, StepFits DEF IInv
<1>6. Position(i) = begin + offset /\ Position(i + 1) = begin + (offset + Step)
  BY <1>1, <1>3, <1>4
<1>7. begin \in Nat /\ end \in Nat
  BY DEF IInv
<1> HIDE DEF offset
<1>8. begin + offset \in Nat /\ begin + offset \in begin .. end
  BY <1>5, <1>7
<1>9. begin + (offset + Step) = (begin + offset) + Step
  BY <1>5, <1>7, StepFits
<1> QED
  BY <1>6, <1>8, <1>9

(* Positions do not decrease.                                              *)
LEMMA PositionsInOrder ==
  ASSUME IInv, NEW i \in 1 .. threads, NEW j \in i .. threads
  PROVE  Position(i) <= Position(j)
<1>1. i - 1 \in Nat /\ j - 1 \in Nat /\ i - 1 <= j - 1 /\ begin \in Nat /\ Step \in Nat
  BY StepFits DEF IInv
<1> DEFINE m == (i - 1) * Step
           n == (j - 1) * Step
<1>2. m <= n /\ m \in Nat /\ n \in Nat
  BY <1>1, Monotone, Product
<1>3. Position(i) = begin + m /\ Position(j) = begin + n
  BY DEF Position
<1> HIDE DEF m, n
<1> QED
  BY <1>1, <1>2, <1>3

-------------------------------------------------------------------------------

(* The invariant holds at first, ...                                       *)
LEMMA InitInv == Init => IInv
BY TimeSplitAssumption DEF Init, IInv

(* ... in every step, ...                                                  *)
LEMMA StepInv == IInv /\ [Next]_vars => IInv'
<1> SUFFICES ASSUME IInv, [Next]_vars PROVE IInv'
  OBVIOUS
<1>1. CASE ComputePosition
  <2>1. /\ UNCHANGED <<begin, end, threads, workers>> /\ Step' = Step
        /\ workers = <<>>
    BY <1>1 DEF ComputePosition, Step, IInv
  <2>2. begin + Len(positions) * Step \in Nat
    BY StepFits, Product DEF IInv
  <2>3. positions' \in Seq(Nat) /\ Len(positions') = Len(positions) + 1
        /\ \A i \in 1 .. Len(positions') :
             positions'[i] = IF i = Len(positions) + 1 THEN begin + Len(positions) * Step
                             ELSE positions[i]
    BY <1>1, <2>2 DEF ComputePosition, IInv
  <2>4. \A i \in 1 .. Len(positions') : positions'[i] = Position(i)'
    <3>1. Len(positions) \in Nat
      BY DEF IInv
    <3>2. Position(Len(positions) + 1) = begin + Len(positions) * Step
      BY <3>1, PositionOfTurn
    <3>3. \A i : Position(i)' = Position(i)
      BY <2>1 DEF Position
    <3>4. \A i \in 1 .. Len(positions) : positions[i] = Position(i)
      BY DEF IInv
    <3> SUFFICES ASSUME NEW i \in 1 .. Len(positions')
                 PROVE  positions'[i] = Position(i)
      BY <3>3
    <3>5. CASE i = Len(positions) + 1
      BY <2>3, <3>2, <3>5
    <3>6. CASE i # Len(positions) + 1
      <4>1. i \in 1 .. Len(positions)
        BY <2>3, <3>1, <3>6
      <4> QED
        BY <2>3, <3>4, <3>6, <4>1
    <3> QED
      BY <3>5, <3>6
  <2> QED
    BY <1>1, <2>1, <2>3, <2>4 DEF ComputePosition, IInv
<1>2. CASE AddWorker
  <2> DEFINE i == Len(workers) + 1
  <2>1. /\ UNCHANGED <<begin, end, threads, positions>> /\ Step' = Step
        /\ Len(positions) = threads /\ i <= threads
    BY <1>2 DEF AddWorker, Step
  <2>0. i \in 1 .. threads
    <3>1. Len(workers) \in Nat
      BY DEF IInv
    <3> QED
      BY <2>1, <3>1 DEF IInv
  <2>2. /\ positions[i] = Position(i) /\ Position(i) \in Nat
        /\ i # threads => positions[i + 1] = Position(i + 1) /\ Position(i + 1) \in Nat
    <3>1. \A j \in 1 .. threads : positions[j] = Position(j) /\ Position(j) \in Nat
      BY <2>1, PositionInside DEF IInv
    <3>2. i # threads => i + 1 \in 1 .. threads
      BY <2>0 DEF IInv
    <3> QED
      BY <2>0, <3>1, <3>2
  <2>3. Worker(i) = TraceWorker(IF i = 1 THEN NULL ELSE positions[i],
                                IF i = threads THEN NULL ELSE positions[i + 1])
    BY <2>1, <2>2, <2>0 DEF Worker
  <2>4. Worker(i) \in [beginPos : Nat \cup {NULL}, endPos : Nat \cup {NULL}]
    BY <2>1, <2>2, <2>3, <2>0 DEF TraceWorker
  <2>5. workers' = Append(workers, Worker(i))
    BY <1>2, <2>3 DEF AddWorker
  <2>6. \A j \in 1 .. threads : Worker(j)' = Worker(j)
    BY <2>1 DEF Worker, TraceWorker, Position
  <2>7. \A j \in 1 .. Len(workers') : workers'[j] = Worker(j)'
    BY <2>1, <2>4, <2>5, <2>6, <2>0 DEF IInv
  <2> QED
    BY <2>1, <2>4, <2>5, <2>7, <2>0 DEF IInv, Position
<1>3. CASE UNCHANGED vars
  BY <1>3 DEF vars, IInv, Position, Worker, Step, TraceWorker
<1> QED
  BY <1>1, <1>2, <1>3 DEF Next, Finished

(* ... and so always.                                                      *)
LEMMA Invariant == Spec => []IInv
BY InitInv, StepInv, PTL DEF Spec

(* The range of a worker.                                                  *)
LEMMA RangeOf ==
  ASSUME IInv, Done, NEW i \in 1 .. threads
  PROVE  /\ First(workers[i]) = IF i = 1 THEN begin ELSE Position(i) + 1
         /\ Last(workers[i]) = IF i = threads THEN end ELSE Position(i + 1)
         /\ First(workers[i]) \in Nat
         /\ Last(workers[i]) \in begin .. end
<1>1. /\ Position(i) \in Nat
      /\ i # threads => Position(i + 1) \in begin .. end
  BY PositionInside DEF IInv
<1>2. workers[i] = TraceWorker(IF i = 1 THEN NULL ELSE Position(i),
                               IF i = threads THEN NULL ELSE Position(i + 1))
  BY DEF IInv, Done, Worker
<1>3. i # threads => Position(i + 1) \in Nat
  BY <1>1 DEF IInv
<1>4. /\ i # threads => Position(i + 1) # NULL
      /\ i # 1 => Position(i) + 1 # NULL /\ Position(i) + 1 \in Nat
      /\ begin \in Nat /\ end \in Nat /\ begin <= end /\ Position(i) # NULL
  BY <1>1, <1>3, TimeSplitAssumption DEF IInv
<1>5. /\ workers[i].beginPos = IF i = 1 THEN NULL ELSE Position(i) + 1
      /\ workers[i].endPos = IF i = threads THEN NULL ELSE Position(i + 1)
  BY <1>2, <1>4 DEF TraceWorker
<1> HIDE DEF Position
<1> QED
  BY <1>1, <1>4, <1>5 DEF First, Last

(* The ranges are contiguous, in order and inside the trace, for any trace *)
(* and any number of threads: the chunks of CpuChunks and IoChunks.        *)
THEOREM Contiguous == Spec => []RangesInOrder
<1>1. ASSUME IInv, Done
      PROVE  /\ First(workers[1]) = begin
             /\ Last(workers[threads]) = end
             /\ \A i \in 1 .. threads : Last(workers[i]) \in begin .. end
             /\ \A i \in 1 .. threads : Last(workers[i]) >= First(workers[i]) - 1
             /\ \A i \in 1 .. threads - 1 : First(workers[i + 1]) = Last(workers[i]) + 1
  <2>1. 1 \in 1 .. threads /\ threads \in 1 .. threads
    BY <1>1 DEF IInv
  <2>2. ASSUME NEW i \in 1 .. threads
        PROVE  Last(workers[i]) >= First(workers[i]) - 1
    <3>1. /\ Position(i) \in begin .. end /\ Position(i) \in Nat
          /\ Position(i + 1) = Position(i) + Step /\ Step \in Nat
      BY <1>1, PositionInside, StepFits
    <3>2. begin \in Nat /\ end \in Nat /\ begin <= end
      BY <1>1 DEF IInv
    <3>3. i = 1 => Position(i) = begin
      BY <3>2, StepFits, <1>1 DEF Position
    <3>4. /\ First(workers[i]) = IF i = 1 THEN begin ELSE Position(i) + 1
          /\ Last(workers[i]) = IF i = threads THEN end ELSE Position(i + 1)
      BY <1>1, RangeOf
    <3> QED
      BY <3>1, <3>2, <3>3, <3>4
  <2>3. ASSUME NEW i \in 1 .. threads - 1
        PROVE  First(workers[i + 1]) = Last(workers[i]) + 1
    <3>1. i \in 1 .. threads /\ i + 1 \in 1 .. threads /\ i # threads /\ i + 1 # 1
      BY <1>1 DEF IInv
    <3> QED
      BY <1>1, <3>1, RangeOf
  <2> QED
    BY <1>1, <2>1, <2>2, <2>3, RangeOf
<1>2. IInv => RangesInOrder
  BY <1>1 DEF RangesInOrder
<1> QED
  BY <1>2, Invariant, PTL

(* Which worker reads an event: with a positive step, the one whose turn   *)
(* the distance from the beginning of the trace falls in.                  *)
LEMMA SomeoneReads ==
  ASSUME IInv, Done, NEW ts \in begin .. end
  PROVE  \E i \in 1 .. threads : ts \in First(workers[i]) .. Last(workers[i])
<1>1. /\ begin \in Nat /\ end \in Nat /\ begin <= end /\ threads \in Nat \ {0}
      /\ Step \in Nat /\ ts \in Nat
  BY StepFits DEF IInv
<1>2. 1 \in 1 .. threads /\ threads \in 1 .. threads
  BY <1>1
<1>3. CASE ts = begin
  <2>1. First(workers[1]) = begin /\ Last(workers[1]) \in begin .. end
    BY <1>2, RangeOf
  <2> QED
    BY <1>1, <1>2, <1>3, <2>1
<1>4. CASE ts > Position(threads)
  <2>1. /\ First(workers[threads]) = IF threads = 1 THEN begin ELSE Position(threads) + 1
        /\ Last(workers[threads]) = end
    BY <1>2, RangeOf
  <2>2. Position(threads) \in Nat
    BY <1>2, PositionInside
  <2>3. First(workers[threads]) <= ts /\ ts <= Last(workers[threads])
    BY <1>1, <1>4, <2>1, <2>2
  <2>4. First(workers[threads]) \in Nat
    BY <1>2, RangeOf
  <2> QED
    BY <1>1, <1>2, <2>1, <2>3, <2>4
<1>5. CASE ts # begin /\ ts <= Position(threads)
  <2> DEFINE d == ts - begin - 1
             k == d \div Step
  <2>1. d \in Nat
    BY <1>1, <1>5
  <2>2. Position(threads) = begin + (threads - 1) * Step
    BY DEF Position
  <2>3. Step # 0
    <3>1. Step = 0 => (threads - 1) * Step = 0
      BY <1>1, SMT
    <3> QED
      BY <1>1, <1>5, <2>2, <3>1
  <2>4. k \in Nat /\ Step * k <= d /\ d < Step * k + Step
    BY <1>1, <2>1, <2>3, Division
  <2> HIDE DEF k
  <2>5. Step * k = k * Step /\ (k + 1) * Step = k * Step + Step /\ k * Step \in Nat
    BY <1>1, <2>4, Product, SMT
  <2>6. k + 1 <= threads - 1
    <3>1. SUFFICES ASSUME k >= threads - 1 PROVE FALSE
      BY <1>1, <2>4
    <3>2. (threads - 1) * Step <= k * Step
      BY <1>1, <2>4, <3>1, Monotone
    <3>3. (threads - 1) * Step \in Nat
      BY <1>1, Product
    <3>4. d + 1 <= (threads - 1) * Step
      BY <1>1, <1>5, <2>2, <3>3
    <3> QED
      BY <2>1, <2>4, <2>5, <3>2, <3>3, <3>4
  <2> DEFINE n == k + 1
  <2>7. n \in 1 .. threads /\ n # threads
    BY <1>1, <2>4, <2>6
  <2>8. Position(n) = begin + k * Step /\ Position(n + 1) = begin + k * Step + Step
    <3>1. Position(k + 1) = begin + k * Step /\ Position((k + 1) + 1) = begin + (k + 1) * Step
      BY <2>4, PositionOfTurn
    <3>2. begin + (k * Step + Step) = begin + k * Step + Step
      BY <1>1, <2>5
    <3> QED
      BY <2>5, <3>1, <3>2
  <2>9. /\ First(workers[n]) = IF n = 1 THEN begin ELSE Position(n) + 1
        /\ Last(workers[n]) = Position(n + 1)
        /\ First(workers[n]) \in Nat
    BY <2>7, RangeOf
  <2> DEFINE offset == k * Step
  <2>10. /\ offset \in Nat /\ offset <= d /\ d < offset + Step
         /\ Position(n) = begin + offset /\ Position(n + 1) = begin + offset + Step
    BY <2>4, <2>5, <2>8
  <2> HIDE DEF offset, n
  <2>11. First(workers[n]) <= ts /\ ts <= Last(workers[n])
    BY <1>1, <2>1, <2>9, <2>10
  <2>12. Last(workers[n]) \in Nat
    BY <1>1, <2>9, <2>10
  <2> QED
    BY <1>1, <2>7, <2>9, <2>11, <2>12
<1> QED
  <2>1. Position(threads) \in Nat
    BY <1>2, PositionInside
  <2> QED
    BY <1>1, <1>3, <1>4, <1>5, <2>1

(* No two workers read the same event.                                     *)
LEMMA NobodyElseReads ==
  ASSUME IInv, Done, NEW ts \in begin .. end,
         NEW i \in 1 .. threads, NEW j \in 1 .. threads, i < j
  PROVE  ~(/\ ts \in First(workers[i]) .. Last(workers[i])
           /\ ts \in First(workers[j]) .. Last(workers[j]))
<1>1. /\ begin \in Nat /\ end \in Nat /\ threads \in Nat /\ ts \in Nat
  BY DEF IInv
<1>2. i # threads /\ j # 1 /\ i + 1 \in 1 .. threads /\ j \in (i + 1) .. threads
  BY <1>1
<1>3. Position(i + 1) <= Position(j)
  BY <1>2, PositionsInOrder
<1>4. Last(workers[i]) = Position(i + 1) /\ First(workers[j]) = Position(j) + 1
  BY <1>2, RangeOf
<1>5. Position(i + 1) \in Nat /\ Position(j) \in Nat
  BY <1>2, PositionInside
<1> QED
  BY <1>1, <1>3, <1>4, <1>5

(* Every event of the trace is read by exactly one worker, for any trace   *)
(* and any number of threads.                                              *)
THEOREM Partition == Spec => []EveryEventOnce
<1>1. ASSUME IInv, Done, NEW ts \in begin .. end
      PROVE  \E i \in 1 .. threads :
               \A j \in 1 .. threads : ts \in First(workers[j]) .. Last(workers[j]) <=> j = i
  <2>1. PICK i \in 1 .. threads : ts \in First(workers[i]) .. Last(workers[i])
    BY <1>1, SomeoneReads
  <2>2. ASSUME NEW j \in 1 .. threads, j # i, ts \in First(workers[j]) .. Last(workers[j])
        PROVE  FALSE
    <3>1. i < j \/ j < i
      BY <1>1, <2>2 DEF IInv
    <3> QED
      BY <1>1, <2>1, <2>2, <3>1, NobodyElseReads
  <2> QED
    BY <2>1, <2>2
<1>2. IInv => EveryEventOnce
  BY <1>1 DEF EveryEventOnce
<1> QED
  BY <1>2, Invariant, PTL
===============================================================================
