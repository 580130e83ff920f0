------------------------------- MODULE MapReduce -------------------------------
(***************************************************************************)
(* The map-reduce at the end of both parallel executions: the pool threads *)
(* of QtConcurrent::mappedReduced run doMap on the workers and doReduce on *)
(* their results, while the calling thread waits in future.result().       *)
(*                                                                         *)
(* QtConcurrent is outside the repository.  It is modelled as Qt 5 runs    *)
(* the reduce options the code passes: threads claim the workers in order  *)
(* and map them in parallel; a result that may be reduced is reduced by    *)
(* the thread that produced it, without holding the lock, and any other    *)
(* result is stored for that thread to pick up.                            *)
(***************************************************************************)
EXTENDS Integers, SequencesExt

CONSTANTS
  Pool,         (* The pool threads, --thread of them.                     *)
  MaxWorkers    (* A bound on the number of workers.                       *)

ASSUME MapReduceAssumption == MaxWorkers \in Nat \ {0}

VARIABLES
  job,          (* The analysis and the number of its workers.             *)
  nextIndex,    (* The next worker nobody has claimed.                     *)
  mapping,      (* The workers each thread has claimed and not delivered.  *)
  todo,         (* The results each thread is reducing.                    *)
  stored,       (* Results nobody reduces yet.                             *)
  progress,     (* If ordered, the next worker to reduce.                  *)
  merged,       (* The workers reduced so far, in order.                   *)
  returned      (* future.result() has returned.                           *)

vars == <<job, nextIndex, mapping, todo, stored, progress, merged, returned>>

(* A balanced run has no worker when no index file was listed: the result  *)
(* of mappedReduced is then the default-constructed one.                   *)
Jobs == [analysis : {"count", "cpu", "io"}, workers : 0 .. MaxWorkers]

Workers == 1 .. job.workers

Init ==
  /\ job \in Jobs
  /\ nextIndex = 1
  /\ mapping = [p \in Pool |-> {}]
  /\ todo = [p \in Pool |-> {}]
  /\ stored = {}
  /\ progress = 1
  /\ merged = <<>>
  /\ returned = FALSE

Idle(p) == mapping[p] = {} /\ todo[p] = {}

(* A thread with nothing to do takes the next worker and runs its doMap.   *)
Claim(p) ==
  /\ Idle(p)
  /\ nextIndex \in Workers
  /\ nextIndex' = nextIndex + 1
  /\ mapping' = [mapping EXCEPT ![p] = {nextIndex}]
  /\ UNCHANGED <<job, todo, stored, progress, merged, returned>>

(* Wrong on purpose: the default of the QtConcurrent options for all.      *)
NeverOrdered == FALSE

(* TRUE in the CPU and the I/O analysis, FALSE in the count analysis.      *)
isOrderedReduce == job.analysis \in {"cpu", "io"}

Reducing == {p \in Pool : todo[p] # {}}

(* Wrong on purpose: nobody waits for the others.                          *)
CanReduceAlways(i) == TRUE

CanReduce(i) == IF isOrderedReduce THEN progress = i ELSE Reducing = {}

(* doMap is over; the result is reduced by this thread or stored.          *)
Deliver(p) ==
  \E i \in mapping[p] :
    /\ mapping' = [mapping EXCEPT ![p] = @ \ {i}]
    /\ IF CanReduce(i)
       THEN todo' = [todo EXCEPT ![p] = {i}] /\ UNCHANGED stored
       ELSE stored' = stored \cup {i} /\ UNCHANGED todo
    /\ UNCHANGED <<job, nextIndex, progress, merged, returned>>

(* The stored results a thread goes on with.                               *)
PickUp(next) == IF isOrderedReduce THEN stored \cap {next} ELSE stored

(* doReduce on one of the results at hand, in whatever order; after the    *)
(* last of them the thread looks for results stored in the meantime.       *)
ReduceOne(p) ==
  \E i \in todo[p] :
    LET next == IF isOrderedReduce THEN i + 1 ELSE progress
        more == IF todo[p] = {i} THEN PickUp(next) ELSE {}
    IN  /\ merged' = Append(merged, i)
        /\ progress' = next
        /\ todo' = [todo EXCEPT ![p] = (@ \ {i}) \cup more]
        /\ stored' = stored \ more
        /\ UNCHANGED <<job, nextIndex, mapping, returned>>

(* Nothing is left to claim and every thread has finished: the calling     *)
(* thread gets the result and goes on to doEnd.                            *)
Return ==
  /\ ~returned
  /\ nextIndex > job.workers
  /\ \A p \in Pool : Idle(p)
  /\ returned' = TRUE
  /\ UNCHANGED <<job, nextIndex, mapping, todo, stored, progress, merged>>

Thread(p) == Claim(p) \/ Deliver(p) \/ ReduceOne(p)

Finished == returned /\ UNCHANGED vars

Next == (\E p \in Pool : Thread(p)) \/ Return \/ Finished

Safety == Init /\ [][Next]_vars

(* Every pool thread and the calling thread keep running, and doMap and    *)
(* doReduce, which loop over finite data, end.                             *)
Fairness == (\A p \in Pool : WF_vars(Thread(p))) /\ WF_vars(Return)

Spec == Safety /\ Fairness

-------------------------------------------------------------------------------
(* The merges of CpuContext and of IoContext depend on the order, the sum  *)
(* of the count analysis does not.                                         *)
DependsOnOrder == job.analysis # "count"

Contract == INSTANCE Reduction WITH numWorkers <- job.workers, ordered <- DependsOnOrder

TypeOK ==
  /\ job \in Jobs
  /\ nextIndex \in 1 .. job.workers + 1
  /\ mapping \in [Pool -> SUBSET Workers]
  /\ todo \in [Pool -> SUBSET Workers]
  /\ stored \subseteq Workers
  /\ progress \in 1 .. job.workers + 1
  /\ merged \in Seq(Workers)
  /\ returned \in BOOLEAN

(* Each result is merged once, in the order of the workers when the        *)
(* analysis needs it, and doEnd sees all of them merged, at last           *)
(* (traceanalysis.h:349-358).                                              *)
ImplementsReduction == Contract!Spec

(* The safety part of it alone.                                            *)
ReducesInTurn == Contract!Safety

(* doReduce is never run by two threads at once, although it runs without  *)
(* the lock: CpuContext::merge and IoContext::merge write the final        *)
(* context without any synchronisation of their own.                       *)
OneReducer == \A p, q \in Pool : todo[p] # {} /\ todo[q] # {} => p = q
===============================================================================
