----------------------------- MODULE ProgramProofs -----------------------------
(***************************************************************************)
(* The safety of the map-reduce, for any number of workers and threads and *)
(* for both reduce options: no two threads reduce at once, and the results *)
(* are merged as Reduction promises.  The program as a whole only takes    *)
(* steps of the map-reduce, and its count is that of the events.           *)
(***************************************************************************)
EXTENDS Program, SumFacts

Merged == ToSet(merged)

(* A worker's result is in one place at a time...                          *)
OnePlace ==
  /\ \A p, q \in Pool : p # q => mapping[p] \cap mapping[q] = {}
  /\ \A p, q \in Pool : p # q => todo[p] \cap todo[q] = {}
  /\ \A p, q \in Pool : mapping[p] \cap todo[q] = {}
  /\ \A p \in Pool : mapping[p] \cap (stored \cup Merged) = {}
  /\ \A p \in Pool : todo[p] \cap (stored \cup Merged) = {}
  /\ stored \cap Merged = {}

(* ... and in one of them from the moment the worker is claimed.           *)
Somewhere(i) ==
  i \in stored \cup Merged \/ \E p \in Pool : i \in mapping[p] \cup todo[p]

Claimed ==
  \A i \in Workers : Somewhere(i) <=> i < nextIndex

(* An ordered reduction has merged the workers before `progress`, is       *)
(* reducing no other than `progress`, and has not stored that one.         *)
InTurn ==
  isOrderedReduce =>
    /\ Len(merged) = progress - 1
    /\ \A i \in 1 .. Len(merged) : merged[i] = i
    /\ \A p \in Pool : todo[p] \subseteq {progress}
    /\ progress \notin stored

(* In an unordered one, results are stored only while someone reduces.     *)
SomeoneReduces == ~isOrderedReduce /\ stored # {} => Reducing # {}

IInv ==
  /\ TypeOK
  /\ OnePlace
  /\ Claimed
  /\ InTurn
  /\ SomeoneReduces
  /\ OneReducer

-------------------------------------------------------------------------------
(* No step changes the job.                                                *)
LEMMA JobKept ==
  ASSUME TypeOK, job' = job
  PROVE  /\ job.workers \in Nat
         /\ UNCHANGED <<job, Workers>>
         /\ isOrderedReduce' <=> isOrderedReduce
         /\ DependsOnOrder <=> isOrderedReduce
  BY MapReduceAssumption DEF TypeOK, Jobs, Workers, isOrderedReduce, DependsOnOrder

(* Appending adds one element.                                             *)
LEMMA AppendToSet ==
  ASSUME NEW S, NEW s \in Seq(S), NEW e \in S
  PROVE  ToSet(Append(s, e)) = ToSet(s) \cup {e}
<1>1. /\ Append(s, e) \in Seq(S) /\ Len(Append(s, e)) = Len(s) + 1
      /\ \A i \in 1 .. Len(s) : Append(s, e)[i] = s[i]
      /\ Append(s, e)[Len(s) + 1] = e
  OBVIOUS
<1>2. DOMAIN s = 1 .. Len(s) /\ DOMAIN Append(s, e) = 1 .. (Len(s) + 1) /\ Len(s) \in Nat
  BY <1>1
<1>3. 1 .. (Len(s) + 1) = (1 .. Len(s)) \cup {Len(s) + 1}
  BY <1>2
<1> QED
  BY <1>1, <1>2, <1>3 DEF ToSet

(* In an ordered reduction the merged workers are those before `progress`. *)
LEMMA MergedInTurn ==
  ASSUME IInv, isOrderedReduce
  PROVE  Merged = 1 .. (progress - 1)
<1>1. DOMAIN merged = 1 .. (progress - 1)
  BY DEF IInv, InTurn, TypeOK
<1> QED
  BY <1>1 DEF IInv, InTurn, Merged, ToSet

(* The invariant of the map-reduce holds at first, ...                     *)
LEMMA InitInv == Init => IInv
<1> SUFFICES ASSUME Init PROVE IInv
  OBVIOUS
<1>0. job.workers \in Nat
  BY MapReduceAssumption DEF Init, Jobs
<1>1. Merged = {}
  BY DEF Init, Merged, ToSet
<1>2. 1 \in 1 .. job.workers + 1 /\ <<>> \in Seq(Workers)
  BY <1>0
<1>3. TypeOK
  BY <1>2 DEF Init, TypeOK
<1> QED
  BY <1>1, <1>3 DEF Init, IInv, OnePlace, Claimed, Somewhere, InTurn, SomeoneReduces,
     OneReducer, Workers

(* ... when a thread takes a worker, ...                                   *)
LEMMA ClaimInv ==
  ASSUME IInv, NEW p \in Pool, Claim(p)
  PROVE  IInv'
<1>0. /\ job.workers \in Nat /\ UNCHANGED <<job, Workers>>
      /\ isOrderedReduce' <=> isOrderedReduce
      /\ DependsOnOrder <=> isOrderedReduce
  BY JobKept DEF Claim, IInv
<1> USE <1>0
<1>1. /\ nextIndex' = nextIndex + 1 /\ nextIndex \in Workers /\ nextIndex \in Nat
      /\ UNCHANGED <<todo, stored, progress, merged, returned>>
      /\ UNCHANGED Merged /\ UNCHANGED Reducing
  BY DEF Claim, IInv, TypeOK, Merged, Reducing
<1>2. \A q \in Pool : mapping'[q] = IF q = p THEN {nextIndex} ELSE mapping[q]
  BY DEF Claim, IInv, TypeOK
<1>3. mapping[p] = {}
  BY DEF Claim, Idle
<1>4. ~Somewhere(nextIndex)
  BY <1>1 DEF IInv, Claimed
<1>5. TypeOK'
  <2>1. nextIndex' \in 1 .. job.workers + 1
    BY <1>1 DEF Workers
  <2>2. mapping' \in [Pool -> SUBSET Workers]
    BY <1>1 DEF Claim, IInv, TypeOK
  <2> QED
    BY <1>1, <2>1, <2>2 DEF IInv, TypeOK
<1>6. OnePlace'
  BY <1>1, <1>2, <1>4 DEF IInv, OnePlace, Somewhere
<1>7. Claimed'
  <2> SUFFICES ASSUME NEW i \in Workers PROVE (Somewhere(i) <=> i < nextIndex)'
    BY DEF Claimed, Workers
  <2>1. Somewhere(i)' <=> Somewhere(i) \/ i = nextIndex
    BY <1>1, <1>2, <1>3 DEF Somewhere
  <2> QED
    BY <1>1, <2>1 DEF IInv, Claimed, Workers
<1> QED
  BY <1>1, <1>5, <1>6, <1>7 DEF IInv, InTurn, SomeoneReduces, OneReducer

(* ... when it has mapped it, ...                                          *)
LEMMA DeliverInv ==
  ASSUME IInv, NEW p \in Pool, Deliver(p)
  PROVE  IInv'
<1>0. /\ job.workers \in Nat /\ UNCHANGED <<job, Workers>>
      /\ isOrderedReduce' <=> isOrderedReduce
      /\ DependsOnOrder <=> isOrderedReduce
  BY JobKept DEF Deliver, IInv
<1> USE <1>0
<1>1. PICK i \in mapping[p] :
        /\ mapping' = [mapping EXCEPT ![p] = @ \ {i}]
        /\ IF CanReduce(i)
           THEN todo' = [todo EXCEPT ![p] = {i}] /\ UNCHANGED stored
           ELSE stored' = stored \cup {i} /\ UNCHANGED todo
        /\ UNCHANGED <<nextIndex, progress, merged, returned>>
  BY DEF Deliver
<1>2. i \in Workers /\ UNCHANGED Merged
  BY <1>1 DEF IInv, TypeOK, Merged
<1>3. \A q \in Pool : mapping'[q] = IF q = p THEN mapping[p] \ {i} ELSE mapping[q]
  BY <1>1 DEF IInv, TypeOK
<1>4. /\ i \notin stored /\ i \notin Merged
      /\ \A q \in Pool : i \notin todo[q]
      /\ \A q \in Pool : q # p => i \notin mapping[q]
  BY <1>1 DEF IInv, OnePlace
<1>5. CASE CanReduce(i)
  <2>1. \A q \in Pool : todo[q] = {}
    BY <1>4, <1>5 DEF CanReduce, isOrderedReduce, Reducing, IInv, InTurn
  <2>2. \A q \in Pool : todo'[q] = IF q = p THEN {i} ELSE {}
    BY <1>1, <1>5, <2>1 DEF IInv, TypeOK
  <2>3. UNCHANGED stored
    BY <1>1, <1>5
  <2>4. TypeOK'
    BY <1>1, <1>2, <1>5, <2>3 DEF IInv, TypeOK
  <2>5. OnePlace'
    BY <1>2, <1>3, <1>4, <2>2, <2>3 DEF IInv, OnePlace
  <2>6. \A j \in Workers : Somewhere(j)' <=> Somewhere(j)
    BY <1>1, <1>2, <1>3, <2>1, <2>2, <2>3 DEF Somewhere
  <2>7. Claimed'
    BY <1>1, <2>6 DEF IInv, Claimed
  <2>8. InTurn' /\ SomeoneReduces' /\ OneReducer'
    <3>1. isOrderedReduce => i = progress
      BY <1>5 DEF CanReduce, isOrderedReduce
    <3> QED
      BY <1>1, <2>2, <2>3, <3>1 DEF IInv, InTurn, SomeoneReduces, OneReducer, Reducing
  <2> QED
    BY <2>4, <2>5, <2>7, <2>8 DEF IInv
<1>6. CASE ~CanReduce(i)
  <2>1. stored' = stored \cup {i} /\ UNCHANGED todo /\ UNCHANGED Reducing
    BY <1>1, <1>6 DEF Reducing
  <2>2. TypeOK'
    BY <1>1, <1>2, <2>1 DEF IInv, TypeOK
  <2>3. OnePlace'
    BY <1>2, <1>3, <1>4, <2>1 DEF IInv, OnePlace
  <2>4. \A j \in Workers : Somewhere(j)' <=> Somewhere(j)
    BY <1>1, <1>2, <1>3, <2>1 DEF Somewhere
  <2>5. Claimed'
    BY <1>1, <2>4 DEF IInv, Claimed
  <2>6. InTurn' /\ SomeoneReduces' /\ OneReducer'
    BY <1>1, <1>6, <2>1 DEF IInv, InTurn, SomeoneReduces, OneReducer, CanReduce, isOrderedReduce
  <2> QED
    BY <2>2, <2>3, <2>5, <2>6 DEF IInv
<1> QED
  BY <1>5, <1>6

(* ... when it has reduced a result, which is a step of the contract, ...  *)
LEMMA ReduceOneInv ==
  ASSUME IInv, NEW p \in Pool, ReduceOne(p)
  PROVE  /\ IInv'
         /\ Contract!Next
<1>0. /\ job.workers \in Nat /\ UNCHANGED <<job, Workers>>
      /\ isOrderedReduce' <=> isOrderedReduce
      /\ DependsOnOrder <=> isOrderedReduce
  BY JobKept DEF ReduceOne, IInv
<1> USE <1>0
<1> DEFINE Next1(i) == IF isOrderedReduce THEN i + 1 ELSE progress
           More(i)  == IF todo[p] = {i} THEN PickUp(Next1(i)) ELSE {}
<1>1. PICK i \in todo[p] :
        /\ merged' = Append(merged, i)
        /\ progress' = Next1(i)
        /\ todo' = [todo EXCEPT ![p] = (@ \ {i}) \cup More(i)]
        /\ stored' = stored \ More(i)
        /\ UNCHANGED <<nextIndex, mapping, returned>>
  BY DEF ReduceOne, isOrderedReduce
<1> DEFINE more == More(i)
           next == Next1(i)
<1>2. i \in Workers /\ i \in Nat /\ i \notin stored /\ i \notin Merged
  BY DEF IInv, TypeOK, OnePlace, Workers
<1>3. more \subseteq stored
  BY DEF PickUp, isOrderedReduce
<1>4. \A q \in Pool : q # p => todo[q] = {}
  BY DEF IInv, OneReducer
<1>5. \A q \in Pool : todo'[q] = IF q = p THEN (todo[p] \ {i}) \cup more ELSE {}
  BY <1>1, <1>4 DEF IInv, TypeOK
<1>6. Merged' = Merged \cup {i}
  BY <1>1, <1>2, AppendToSet DEF IInv, TypeOK, Merged
<1>7. isOrderedReduce => i = progress /\ todo[p] = {i} /\ more = stored \cap {progress + 1}
                 /\ next = progress + 1
  BY DEF IInv, InTurn, PickUp, isOrderedReduce
<1>8. next \in 1 .. job.workers + 1
  BY <1>2 DEF IInv, TypeOK, Workers
<1> HIDE DEF more, next
<1>9. TypeOK'
  <2>1. merged' \in Seq(Workers)
    BY <1>1, <1>2 DEF IInv, TypeOK
  <2>2. todo' \in [Pool -> SUBSET Workers] /\ stored' \subseteq Workers
    BY <1>1, <1>3 DEF IInv, TypeOK, more
  <2>3. progress' \in 1 .. job.workers + 1
    BY <1>1, <1>8 DEF next
  <2> QED
    BY <1>1, <2>1, <2>2, <2>3 DEF IInv, TypeOK
<1>10. stored' = stored \ more /\ UNCHANGED <<nextIndex, mapping>> /\ progress' = next
  BY <1>1 DEF more, next
<1>11. OnePlace'
  BY <1>2, <1>3, <1>5, <1>6, <1>10 DEF IInv, OnePlace
<1>12. \A j \in Workers : Somewhere(j)' <=> Somewhere(j)
  BY <1>3, <1>4, <1>5, <1>6, <1>10 DEF Somewhere
<1>13. Claimed'
  BY <1>10, <1>12 DEF IInv, Claimed
<1>14. InTurn'
  <2> SUFFICES ASSUME isOrderedReduce PROVE InTurn'
    BY DEF InTurn
  <2>1. progress \in Nat /\ progress' = progress + 1 /\ merged' = Append(merged, progress)
        /\ Len(merged) = progress - 1 /\ merged \in Seq(Workers) /\ progress \in Workers
    BY <1>1, <1>2, <1>7, <1>10 DEF IInv, InTurn, TypeOK
  <2>2. Len(merged') = progress' - 1
    BY <2>1
  <2>3. \A j \in 1 .. Len(merged') : merged'[j] = j
    BY <2>1 DEF IInv, InTurn
  <2>4. \A q \in Pool : todo'[q] \subseteq {progress'}
    BY <1>5, <1>7, <2>1
  <2>5. progress' \notin stored'
    BY <1>7, <1>10, <2>1
  <2> QED
    BY <2>2, <2>3, <2>4, <2>5 DEF InTurn
<1>15. SomeoneReduces'
  <2>1. ASSUME ~isOrderedReduce, todo[p] = {i} PROVE more = stored
    BY <2>1 DEF more, PickUp, isOrderedReduce
  <2>2. ASSUME ~isOrderedReduce, stored' # {} PROVE todo'[p] # {}
    BY <1>1, <1>5, <1>10, <2>1, <2>2
  <2> QED
    BY <2>2 DEF SomeoneReduces, Reducing
<1>16. OneReducer'
  BY <1>5 DEF OneReducer
<1>17. Contract!MergeOne(i)
  <2>1. isOrderedReduce => i = Len(merged) + 1
    BY <1>2, <1>7 DEF IInv, InTurn, TypeOK
  <2> QED
    BY <1>1, <1>2, <2>1 DEF DependsOnOrder, Contract!MergeOne, Contract!ToSet, ToSet, Merged
<1> QED
  BY <1>2, <1>9, <1>11, <1>13, <1>14, <1>15, <1>16, <1>17
     DEF IInv, Contract!Next, Workers

(* When the calling thread gets the result, every worker is merged.        *)
LEMMA AllMerged ==
  ASSUME IInv, Return
  PROVE  Merged = Workers
<1>0. job.workers \in Nat
  BY MapReduceAssumption DEF IInv, TypeOK, Jobs
<1>1. /\ nextIndex > job.workers
      /\ \A p \in Pool : mapping[p] = {} /\ todo[p] = {}
  BY DEF Return, Idle
<1>2. \A i \in Workers : i \in stored \cup Merged
  BY <1>0, <1>1 DEF IInv, Claimed, Somewhere, TypeOK, Workers
<1>3. stored = {}
  <2>1. CASE ~isOrderedReduce
    BY <1>1, <2>1 DEF IInv, SomeoneReduces, Reducing
  <2>2. CASE isOrderedReduce
    <3>1. Merged = 1 .. (progress - 1)
      BY <2>2, MergedInTurn
    <3>2. progress = job.workers + 1
      <4>1. progress \in 1 .. job.workers + 1 /\ progress \in Nat
        BY <1>0 DEF IInv, TypeOK
      <4>2. progress \notin stored /\ progress \notin Merged
        BY <2>2, <3>1, <4>1 DEF IInv, InTurn
      <4>3. progress \notin Workers
        BY <1>2, <4>2
      <4> QED
        BY <1>0, <4>1, <4>3 DEF Workers
    <3>3. stored \subseteq Merged
      <4>1. progress - 1 = job.workers
        BY <1>0, <3>2
      <4> QED
        BY <3>1, <4>1 DEF IInv, TypeOK, Workers
    <3> QED
      BY <3>3 DEF IInv, OnePlace
  <2> QED
    BY <2>1, <2>2
<1>4. Merged \subseteq Workers
  BY DEF Merged, ToSet, IInv, TypeOK
<1> QED
  BY <1>2, <1>3, <1>4

(* ... and when the caller gets the final one, which is another.           *)
LEMMA ReturnInv ==
  ASSUME IInv, Return
  PROVE  /\ IInv'
         /\ Contract!Next
<1>0. /\ job.workers \in Nat /\ UNCHANGED <<job, Workers>>
      /\ isOrderedReduce' <=> isOrderedReduce
      /\ DependsOnOrder <=> isOrderedReduce
  BY JobKept DEF Return, IInv
<1> USE <1>0
<1>1. /\ ~returned /\ returned'
      /\ UNCHANGED <<nextIndex, mapping, todo, stored, progress, merged>>
  BY DEF Return
<1>2. IInv'
  BY <1>1 DEF Return, IInv, TypeOK, OnePlace, Claimed, Somewhere, Merged, InTurn,
     SomeoneReduces, Reducing, OneReducer
<1>3. Contract!Return
  BY <1>1, AllMerged DEF Return, DependsOnOrder, Contract!Return, Contract!ToSet, ToSet,
     Merged, Workers
<1> QED
  BY <1>2, <1>3 DEF Contract!Next

(* Every step keeps the invariant and is a step of the contract, or none.  *)
LEMMA StepRefines == IInv /\ [Next]_vars => IInv' /\ [Contract!Next]_Contract!vars
<1> SUFFICES ASSUME IInv, [Next]_vars PROVE IInv' /\ [Contract!Next]_Contract!vars
  OBVIOUS
<1>1. ASSUME NEW p \in Pool, Claim(p)
      PROVE  IInv' /\ UNCHANGED Contract!vars
  BY <1>1, ClaimInv DEF Claim, Contract!vars, DependsOnOrder
<1>2. ASSUME NEW p \in Pool, Deliver(p)
      PROVE  IInv' /\ UNCHANGED Contract!vars
  BY <1>2, DeliverInv DEF Deliver, Contract!vars, DependsOnOrder
<1>3. ASSUME NEW p \in Pool, ReduceOne(p)
      PROVE  IInv' /\ Contract!Next
  BY <1>3, ReduceOneInv
<1>4. CASE Return
  BY <1>4, ReturnInv
<1>5. CASE UNCHANGED vars
  BY <1>5, JobKept DEF vars, DependsOnOrder, Contract!vars, IInv, TypeOK, OnePlace, Claimed, Somewhere, Merged,
     InTurn, SomeoneReduces, Reducing, OneReducer
<1> QED
  BY <1>1, <1>2, <1>3, <1>4, <1>5 DEF Next, Thread, Finished

(* The invariant of the map-reduce holds always, ...                       *)
LEMMA Invariant == Safety => []IInv
BY InitInv, StepRefines, PTL DEF Safety

(* doReduce is never run by two threads at once.                           *)
THEOREM ReduceIsExclusive == Spec => []OneReducer
<1>1. IInv => OneReducer
  BY DEF IInv
<1> QED
  BY <1>1, Invariant, PTL DEF Spec

(* The safety half of ImplementsReduction: results are merged once each,   *)
(* in order when asked to, and all of them before doEnd.                   *)
THEOREM SafelyReduces == Spec => ReducesInTurn
<1>1. Init => Contract!Init
  BY MapReduceAssumption DEF Init, Jobs, DependsOnOrder, Contract!Init
<1> QED
  BY <1>1, InitInv, StepRefines, PTL DEF Spec, Safety, ReducesInTurn, Contract!Safety

-------------------------------------------------------------------------------
(* The program.                                                            *)

(* Everything the program does to the map-reduce is a step of it, so that  *)
(* what is proved of the map-reduce holds in every invocation.             *)
LEMMA ProgramIsMapReduce == [ProgramNext]_programVars => [Next]_vars
BY DEF ProgramNext, programVars, vars, Next, PoolThread, MainThread, Start, ExecuteSerial,
   ExecuteParallel, BalancedUnsupported, Report, Quit, Wait

(* ... and in the program that runs it.                                    *)
LEMMA ProgramInvariant == ProgramSpec => []IInv
<1>1. ProgramInit => IInv
  BY InitInv DEF ProgramInit
<1>2. IInv /\ [ProgramNext]_programVars => IInv'
  BY ProgramIsMapReduce, StepRefines
<1> QED
  BY <1>1, <1>2, PTL DEF ProgramSpec

-------------------------------------------------------------------------------
(* The arithmetic of an int.                                               *)

LEMMA PowerPositive ==
  ASSUME NEW n \in Nat
  PROVE  2 ^ n \in Nat \ {0}
<1>1. IsFiniteSet(1 .. n) /\ Cardinality(1 .. n) = n
  BY FS_Interval
<1>2. IsFiniteSet(SUBSET (1 .. n)) /\ Cardinality(SUBSET (1 .. n)) = 2 ^ n
  BY <1>1, FS_SUBSET
<1>3. Cardinality(SUBSET (1 .. n)) \in Nat /\ Cardinality(SUBSET (1 .. n)) # 0
  BY <1>2, FS_CardinalityType, FS_EmptySet
<1> QED
  BY <1>2, <1>3

(* Powers of two grow.                                                     *)
LEMMA PowerGrows ==
  ASSUME NEW n \in Nat \ {0}
  PROVE  2 ^ (n - 1) < 2 ^ n
<1>1. n - 1 \in Nat /\ 2 ^ n \in Nat /\ 2 ^ (n - 1) \in Nat
  BY PowerPositive
<1>2. /\ IsFiniteSet(1 .. n) /\ Cardinality(1 .. n) = n
      /\ IsFiniteSet(1 .. n - 1) /\ Cardinality(1 .. n - 1) = n - 1
  BY <1>1, FS_Interval
<1>3. /\ IsFiniteSet(SUBSET (1 .. n)) /\ Cardinality(SUBSET (1 .. n)) = 2 ^ n
      /\ Cardinality(SUBSET (1 .. n - 1)) = 2 ^ (n - 1)
  BY <1>2, FS_SUBSET
<1>4. SUBSET (1 .. n - 1) \in SUBSET SUBSET (1 .. n) /\ SUBSET (1 .. n - 1) # SUBSET (1 .. n)
  <2>1. n \in 1 .. n /\ n \notin 1 .. n - 1 /\ 1 .. n - 1 \subseteq 1 .. n
    BY <1>1
  <2>2. 1 .. n \in SUBSET (1 .. n) /\ 1 .. n \notin SUBSET (1 .. n - 1)
    BY <2>1
  <2>3. SUBSET (1 .. n - 1) \subseteq SUBSET (1 .. n)
    BY <2>1
  <2> QED
    BY <2>2, <2>3
<1>5. Cardinality(SUBSET (1 .. n - 1)) < Cardinality(SUBSET (1 .. n))
  BY <1>1, <1>3, <1>4, FS_Subset
<1> QED
  BY <1>3, <1>5

(* What a division leaves.                                                 *)
LEMMA Quotient ==
  ASSUME NEW n \in Int, NEW m \in Nat \ {0}
  PROVE  n = m * (n \div m) + (n % m) /\ n % m \in 0 .. m - 1 /\ n \div m \in Int
BY SMT

(* Numbers that differ by a multiple of m leave the same remainder.        *)
LEMMA SameRemainder ==
  ASSUME NEW b \in Int, NEW m \in Nat \ {0}, NEW k \in Int
  PROVE  (b + k * m) % m = b % m
<1> DEFINE a == b + k * m
<1>0. k * m \in Int /\ a \in Int
  BY SMT
<1>1. /\ a = m * (a \div m) + (a % m) /\ a % m \in 0 .. m - 1 /\ a \div m \in Int
      /\ b = m * (b \div m) + (b % m) /\ b % m \in 0 .. m - 1 /\ b \div m \in Int
  BY <1>0, Quotient
<1> DEFINE d == (a \div m) - (b \div m) - k
<1>2. d \in Int /\ m * d = (b % m) - (a % m)
  <2>1. a = b + k * m
    OBVIOUS
  <2> HIDE DEF a
  <2> QED
    BY <1>0, <1>1, <2>1, SMT
<1> HIDE DEF a
<1>3. -m < m * d /\ m * d < m
  BY <1>1, <1>2
<1> HIDE DEF d
<1>4. d = 0
  <2>1. d >= 1 => m * d >= m
    BY <1>2, SMT
  <2>2. d <= -1 => m * d <= -m
    BY <1>2, SMT
  <2> QED
    BY <1>2, <1>3, <2>1, <2>2
<1>5. a % m = b % m
  BY <1>1, <1>2, <1>4
<1> QED
  BY <1>5 DEF a

(* An int differs from what was computed by a multiple of 2 ^ IntBits, and *)
(* is the same for numbers that differ by one.                             *)
LEMMA WrapBy ==
  ASSUME NEW a \in Int
  PROVE  \E k \in Int : Int32(a) = a - 2 ^ IntBits * k
<1> DEFINE M == 2 ^ IntBits
           H == 2 ^ (IntBits - 1)
           k == (a + H) \div M
<1>1. M \in Nat \ {0} /\ H \in Nat
  BY PowerPositive, ProgramAssumption
<1>2. Int32(a) = ((a + H) % M) - H
  BY DEF Int32
<1> HIDE DEF M, H
<1>3. a + H \in Int
  BY <1>1
<1>4. a + H = M * k + ((a + H) % M) /\ k \in Int /\ (a + H) % M \in Int
  BY <1>1, <1>3, Quotient
<1> HIDE DEF k
<1>5. M * k \in Int
  BY <1>1, <1>4
<1>6. Int32(a) = a - M * k
  BY <1>1, <1>2, <1>4, <1>5
<1> QED
  BY <1>4, <1>6 DEF M

(* Integers that differ by a multiple of the range of int wrap to the same *)
(* int.                                                                    *)
LEMMA WrapSame ==
  ASSUME NEW a \in Int, NEW b \in Int, NEW k \in Int, a = b + k * 2 ^ IntBits
  PROVE  Int32(a) = Int32(b)
<1> DEFINE M == 2 ^ IntBits
           H == 2 ^ (IntBits - 1)
<1>1. M \in Nat \ {0} /\ H \in Nat
  BY PowerPositive, ProgramAssumption
<1>2. Int32(a) = ((a + H) % M) - H /\ Int32(b) = ((b + H) % M) - H /\ a = b + k * M
  BY DEF Int32
<1> HIDE DEF M, H
<1>3. k * M \in Int
  BY <1>1
<1> DEFINE x == a + H
           y == b + H
<1>4. x \in Int /\ y \in Int /\ x = y + k * M
  BY <1>1, <1>2, <1>3
<1>5. Int32(a) = (x % M) - H /\ Int32(b) = (y % M) - H
  BY <1>2
<1> HIDE DEF x, y
<1>6. x % M = y % M
  <2>1. (y + k * M) % M = y % M
    BY <1>1, <1>4, SameRemainder
  <2> QED
    BY <1>4, <2>1
<1> QED
  BY <1>5, <1>6

(* Wrapping once or after every addition is the same.                      *)
LEMMA WrapPlus ==
  ASSUME NEW a \in Int, NEW b \in Int
  PROVE  /\ Int32(a) \in Int
         /\ Int32(Int32(a) + Int32(b)) = Int32(a + b)
<1> DEFINE M == 2 ^ IntBits
<1>1. M \in Nat
  BY PowerPositive, ProgramAssumption
<1>2. PICK p \in Int : Int32(a) = a - M * p
  BY WrapBy
<1>3. PICK q \in Int : Int32(b) = b - M * q
  BY WrapBy
<1> HIDE DEF M
<1>4. /\ p + q \in Int /\ M * p \in Int /\ M * q \in Int
      /\ (p + q) * M = M * p + M * q
  BY <1>1, SMT
<1>5. /\ Int32(a) \in Int /\ Int32(a) + Int32(b) \in Int /\ a + b \in Int
      /\ a + b = (Int32(a) + Int32(b)) + (p + q) * M
  BY <1>2, <1>3, <1>4
<1>6. Int32(a + b) = Int32(Int32(a) + Int32(b))
  BY <1>4, <1>5, WrapSame DEF M
<1> QED
  BY <1>5, <1>6

(* Zero is an int.                                                         *)
LEMMA WrapZero == Int32(0) = 0
<1>1. /\ 2 ^ IntBits \in Nat \ {0} /\ 2 ^ (IntBits - 1) \in Nat
      /\ 2 ^ (IntBits - 1) < 2 ^ IntBits
  BY PowerPositive, PowerGrows, ProgramAssumption
<1>2. (0 + 2 ^ (IntBits - 1)) % 2 ^ IntBits = 2 ^ (IntBits - 1)
  BY <1>1, SMT
<1> QED
  BY <1>1, <1>2 DEF Int32

-------------------------------------------------------------------------------
(* The count analysis.                                                     *)

PerWorker == [i \in Workers |-> EventsOf(i)]

(* The events the results merged so far stand for.                         *)
Counted == SumFunctionOnSet(PerWorker, Merged)

(* The time ranges of the workers part the events of the trace.            *)
LEMMA RangesPartEvents ==
  ASSUME job.workers \in 1 .. MaxWorkers
  PROVE  /\ \A i \in Workers : PerWorker[i] = EventsOf(i) /\ EventsOf(i) \in Int
         /\ SumFunctionOnSet(PerWorker, Workers) = SumFunction(Events)
<1> DEFINE All == 1 .. MaxWorkers
           Own == [n \in All |-> IF n < job.workers THEN n ELSE job.workers]
           Part(i) == {n \in All : Own[n] = i}
           Sums == [i \in Workers |-> SumFunctionOnSet(Events, Part(i))]
<1>1. /\ MaxWorkers \in Nat \ {0} /\ job.workers \in Nat \ {0} /\ job.workers <= MaxWorkers
      /\ \A n \in All : Events[n] \in Int /\ DOMAIN Events = All
  BY MapReduceAssumption, ProgramAssumption
<1>2. IsFiniteSet(All) /\ IsFiniteSet(Workers)
  <2>1. job.workers \in Int /\ MaxWorkers \in Int
    BY <1>1
  <2>2. IsFiniteSet(1 .. job.workers) /\ IsFiniteSet(1 .. MaxWorkers)
    BY <2>1, FS_Interval
  <2> QED
    BY <2>2 DEF Workers
<1>3. \A n \in All : Own[n] \in Workers
  BY <1>1 DEF Workers
<1>4. ASSUME NEW i \in Workers
      PROVE  EventsOf(i) = SumFunctionOnSet(Events, Part(i)) /\ EventsOf(i) \in Int
  <2>1. CASE i < job.workers
    <3>1. Part(i) = {i} /\ Events[i] \in Int
      BY <1>1, <2>1 DEF Workers
    <3> QED
      BY <2>1, <3>1, SumOfOne DEF EventsOf
  <2>2. CASE ~(i < job.workers)
    <3>1. Part(i) = job.workers .. MaxWorkers
      BY <1>1, <2>2 DEF Workers
    <3>2. IsFiniteSet(Part(i)) /\ \A n \in Part(i) : Events[n] \in Int
      BY <1>1, <1>2, FS_Subset
    <3> HIDE DEF Part
    <3>3. SumFunctionOnSet(Events, Part(i)) \in Int
      BY <3>2, SumInt
    <3> QED
      BY <2>2, <3>1, <3>3 DEF EventsOf
  <2> QED
    BY <2>1, <2>2
<1>5. Sums = PerWorker
  BY <1>4 DEF PerWorker
<1>6. SumFunctionOnSet(Sums, Workers) = SumFunctionOnSet(Events, All)
  <2> HIDE DEF All, Own
  <2> QED
    BY <1>1, <1>2, <1>3, SumByParts
<1> QED
  BY <1>1, <1>4, <1>5, <1>6, SumOfFunction DEF PerWorker

(* The final result is the sum of the results merged so far, and what is   *)
(* printed is the sum of all.                                              *)
CountInv ==
  /\ args.analysis \in analysisList => job.analysis = args.analysis
  /\ phase = "loop" => args.analysis \in analysisList
  /\ job.analysis = "count" =>
       /\ phase \in {"parsing", "loop"} => merged = <<>> /\ count = 0 /\ ~printed
       /\ phase = "parallel" => count = Int32(Counted) /\ ~printed /\ ~args.serial
       /\ printed /\ (args.serial \/ job.workers > 0) => count = Int32(SumFunction(Events))

(* The count of the results merged so far is right at first, ...           *)
LEMMA CountInit == ProgramInit => CountInv
BY DEF ProgramInit, Init, CountInv

(* Before anything is merged nothing is counted.                           *)
LEMMA NothingCounted == ASSUME merged = <<>> PROVE Counted = 0
<1>1. Merged = {}
  BY DEF Merged, ToSet
<1> QED
  BY <1>1, SumOfNone DEF Counted

(* A result that is reduced adds the events of its worker.                 *)
LEMMA CountReduced ==
  ASSUME IInv, CountInv, NEW p \in Pool, PoolThread(p), job.analysis = "count"
  PROVE  count' = Int32(Counted')
<1>1. /\ phase = "parallel" /\ Thread(p) /\ count = Int32(Counted)
      /\ count' = IF merged' # merged THEN doReduce(count, doMap(Last(merged'))) ELSE count
  BY DEF PoolThread, CountInv
<1>2. job.workers \in 0 .. MaxWorkers /\ Merged \subseteq Workers /\ merged \in Seq(Workers)
  BY DEF IInv, TypeOK, Jobs, Merged, ToSet
<1>3. job' = job
  BY <1>1 DEF Thread, Claim, Deliver, ReduceOne
<1>4. PerWorker' = PerWorker
  BY <1>3 DEF PerWorker, Workers, EventsOf
<1>5. CASE merged' = merged
  BY <1>1, <1>4, <1>5 DEF Counted, Merged
<1>6. CASE merged' # merged
  <2>1. PICK i \in todo[p] : merged' = Append(merged, i)
    BY <1>1, <1>6 DEF Thread, Claim, Deliver, ReduceOne
  <2>2. i \in Workers /\ i \notin Merged
    BY DEF IInv, TypeOK, OnePlace
  <2>0. job.workers \in 1 .. MaxWorkers
    BY <1>2, <2>2, MapReduceAssumption DEF Workers
  <2>3. Merged' = Merged \cup {i} /\ Last(merged') = i
    BY <1>2, <2>1, <2>2, AppendToSet DEF Merged, Last
  <2>4. IsFiniteSet(Merged) /\ IsFiniteSet(Merged \cup {i})
    <3>1. job.workers \in Int
      BY <1>2, MapReduceAssumption
    <3>2. IsFiniteSet(1 .. job.workers)
      BY <3>1, FS_Interval
    <3>3. IsFiniteSet(Workers)
      BY <3>2 DEF Workers
    <3> QED
      BY <1>2, <3>3, FS_Subset, FS_AddElement
  <2>5. \A j \in Merged \cup {i} : PerWorker[j] \in Int
    BY <1>2, <2>0, <2>2, RangesPartEvents
  <2>6. (Merged \cup {i}) \ {i} = Merged
    BY <2>2
  <2>7. SumFunctionOnSet(PerWorker, Merged \cup {i}) = PerWorker[i] + Counted
    BY <2>4, <2>5, <2>6, SumRemove DEF Counted
  <2>8. Counted \in Int /\ EventsOf(i) \in Int /\ PerWorker[i] = EventsOf(i)
    BY <1>2, <2>0, <2>2, <2>4, <2>5, SumInt, RangesPartEvents DEF Counted
  <2>9. Counted' = Counted + EventsOf(i)
    BY <1>4, <2>3, <2>7, <2>8 DEF Counted
  <2>10. count' = Int32(Int32(Counted) + Int32(EventsOf(i)))
    BY <1>1, <1>6, <2>3 DEF doReduce, doMap
  <2> QED
    BY <2>8, <2>9, <2>10, WrapPlus
<1> QED
  BY <1>5, <1>6

(* ... and in every step of the program.                                   *)
LEMMA CountStep == IInv /\ CountInv /\ [ProgramNext]_programVars => CountInv'
<1> SUFFICES ASSUME IInv, CountInv, [ProgramNext]_programVars PROVE CountInv'
  OBVIOUS
<1>1. ASSUME NEW p \in Pool, PoolThread(p) PROVE CountInv'
  <2>1. phase = "parallel" /\ phase' = "parallel" /\ UNCHANGED <<args, printed>> /\ job' = job
    BY <1>1 DEF PoolThread, Thread, Claim, Deliver, ReduceOne
  <2>2. job.analysis = "count" => count' = Int32(Counted')
    BY <1>1, CountReduced
  <2> QED
    BY <2>1, <2>2 DEF CountInv
<1>2. CASE Start
  <2>1. /\ phase' = "loop" => args.analysis \in analysisList
        /\ phase' \in {"loop", "exited"} /\ UNCHANGED <<args, count, printed, merged, job>>
        /\ phase = "parsing"
    BY <1>2 DEF Start, Exit, parseCommandLine, vars
  <2> QED
    BY <2>1 DEF CountInv
<1>3. CASE ExecuteSerial
  <2>1. /\ UNCHANGED <<args, job>> /\ phase' = "executed" /\ phase = "loop"
        /\ args.analysis = "count" => count' = Int32(SumFunction(Events))
    BY <1>3 DEF ExecuteSerial, vars
  <2> QED
    BY <2>1 DEF CountInv
<1>4. CASE ExecuteParallel
  <2>1. /\ phase = "loop" /\ phase' = "parallel" /\ UNCHANGED <<args, count, printed>>
        /\ UNCHANGED <<job, merged>> /\ ~args.serial
    BY <1>4 DEF ExecuteParallel, vars
  <2>2. Counted' = Counted
    BY <2>1 DEF Counted, PerWorker, Workers, EventsOf, Merged
  <2> QED
    BY <2>1, <2>2, NothingCounted, WrapZero DEF CountInv
<1>8. CASE BalancedUnsupported
  <2>1. /\ phase = "loop" /\ phase' = "executed" /\ UNCHANGED <<args, count, printed>>
        /\ job' = job /\ args.analysis = "io"
    BY <1>8 DEF BalancedUnsupported, Balances, vars
  <2>2. job.analysis = "io"
    BY <2>1 DEF CountInv, analysisList
  <2> QED
    BY <2>1, <2>2 DEF CountInv
<1>5. CASE Report
  <2>1. /\ phase = "parallel" /\ phase' = "executed" /\ Return /\ UNCHANGED <<args, count>>
        /\ job' = job
    BY <1>5 DEF Report, Return
  <2>2. job.workers > 0 => Counted = SumFunction(Events)
    <3> SUFFICES ASSUME job.workers > 0 PROVE Counted = SumFunction(Events)
      OBVIOUS
    <3>1. job.workers \in 1 .. MaxWorkers
      BY MapReduceAssumption DEF IInv, TypeOK, Jobs
    <3> QED
      BY <2>1, <3>1, AllMerged, RangesPartEvents DEF Counted
  <2> QED
    BY <2>1, <2>2 DEF CountInv
<1>6. CASE Quit
  <2>1. /\ UNCHANGED <<args, count, printed, job>> /\ phase' = "exited"
    BY <1>6 DEF Quit, Exit, vars
  <2> QED
    BY <2>1 DEF CountInv
<1>7. CASE UNCHANGED programVars
  BY <1>7 DEF CountInv, programVars, mainVars, vars, Counted, PerWorker, Workers, EventsOf, Merged
<1> QED
  BY <1>1, <1>2, <1>3, <1>4, <1>5, <1>6, <1>7, <1>8 DEF ProgramNext, MainThread, Wait

(* The printed count is that of the events of the trace, wrapped to an     *)
(* int, for any number of ranges but none and in whatever order their      *)
(* results are added.                                                      *)
THEOREM CountIsExact == ProgramSpec => []SameCount
<1>1. ProgramInit => IInv /\ CountInv
  BY InitInv, CountInit DEF ProgramInit
<1>2. IInv /\ CountInv /\ [ProgramNext]_programVars => (IInv /\ CountInv)'
  BY ProgramIsMapReduce, StepRefines, CountStep
<1>3. CountInv => SameCount
  BY DEF CountInv, SameCount, CountPrinted
<1> QED
  BY <1>1, <1>2, <1>3, PTL DEF ProgramSpec

(* In every invocation of the program, doReduce is run by one thread at a  *)
(* time.                                                                   *)
THEOREM ProgramReducesExclusively == ProgramSpec => []OneReducer
<1>1. IInv => OneReducer
  BY DEF IInv
<1> QED
  BY <1>1, ProgramInvariant, PTL
===============================================================================
