--------------------------- MODULE CpuBalancedProofs ---------------------------
(***************************************************************************)
(* The balanced CPU analysis reports what the serial one reports, however  *)
(* the streams are cut and in whatever order chunks that begin at the same *)
(* time are merged, for any number of CPUs, threads, names and chunks.     *)
(*                                                                         *)
(* The chunks of one CPU follow each other in time, those of two CPUs need *)
(* not, so what is merged so far is no prefix of the trace.  But every     *)
(* chunk touches its own CPU only, and a run that crosses a boundary does  *)
(* so between chunks of one CPU.  So each chunk has a part in the time of  *)
(* every CPU and thread that does not depend on what is merged before it   *)
(* (CpuPart, TidPart), and both contexts are sums of such parts: that of   *)
(* the serial analysis over all chunks, the final one over those that are  *)
(* merged (Accounts).                                                      *)
(***************************************************************************)
EXTENDS CpuBalanced, CpuContextProofs

(* The contexts of the chunks, by CPU and number.                          *)
Chunked == [v \in AllChunks |-> work[v[1]][v[2]]]

Chunking(f) ==
  /\ IsFiniteSet(DOMAIN f)
  /\ \A v \in DOMAIN f : /\ v = <<v[1], v[2]>>
                         /\ v[1] \in Cpus /\ v[2] \in Nat /\ v[2] <= MaxCuts + 1
                         /\ f[v] \in Contexts

(* What a chunk knows of its own CPU, and the chunks of CPU c that know    *)
(* anything, those before v, and the last of some.                         *)
Entry(f, v) == f[v].cpus[v[1]]

SeenOf(f, c) == {v \in DOMAIN f : v[1] = c /\ Entry(f, v).present}

Earlier(f, v) == {u \in SeenOf(f, v[1]) : u[2] < v[2]}

Latest(S) == CHOOSE v \in S : \A u \in S : u[2] <= v[2]

SeenIn(f, c, S) == SeenOf(f, c) \cap S

(* The task that some chunks of one CPU leave running there, and the one   *)
(* that runs when chunk v begins.                                          *)
TaskIn(f, S) == IF S = {} THEN None ELSE Entry(f, Latest(S)).currentTask

TaskBefore(f, v) == TaskIn(f, Earlier(f, v))

(* The chunks that met thread t, and its name in the last of some of them. *)
Met(f, t) == {v \in DOMAIN f : f[v].tids[t].present}

MetIn(f, t, S) == Met(f, t) \cap S

NameIn(f, t, S) == IF S = {} THEN NoComm ELSE f[Latest(S)].tids[t].comm

Pinned(f, t) == \A u, v \in Met(f, t) : u[1] = v[1]

(* The time of the run that chunk v finds under way.                       *)
Gap(f, v) ==
  IF TaskBefore(f, v) # None /\ Entry(f, v).unknownTask # None
  THEN Entry(f, v).unknownTask.end - TaskBefore(f, v).start
  ELSE 0

CpuPart(f, c) ==
  [v \in DOMAIN f |-> IF v[1] = c THEN Entry(f, v).cpu_ns + Gap(f, v) ELSE 0]

TidPart(f, t) ==
  [v \in DOMAIN f |->
     f[v].tids[t].cpu_ns +
       IF Entry(f, v).unknownTask # None /\ Entry(f, v).unknownTask.tid = t
       THEN Gap(f, v) ELSE 0]

(* A thread that was seen is listed under its own id.                      *)
Entries(ctx) ==
  \A t \in AllTids : ctx.tids[t].tid = IF ctx.tids[t].present THEN t ELSE UnknownTid

(* A chunk touches its own CPU only, and nothing before it has seen it;    *)
(* the run it finds under way is the one the chunks before left, of a      *)
(* thread it has an entry for.                                             *)
Meets(f, v) ==
  Entry(f, v).present /\ TaskBefore(f, v) # None =>
    /\ Entry(f, v).unknownTask # None
    /\ Entry(f, v).unknownTask.tid = TaskBefore(f, v).tid
    /\ TaskBefore(f, v).start <= Entry(f, v).unknownTask.end

Sound(f) ==
  \A v \in DOMAIN f :
    /\ \A c \in Cpus \ {v[1]} : f[v].cpus[c] = NewCpu
    /\ ~Entry(f, v).present => /\ Entry(f, v) = NewCpu
                               /\ \A t \in AllTids : ~f[v].tids[t].present
    /\ Entry(f, v).unknownTask # None => f[v].tids[Entry(f, v).unknownTask.tid].present
    /\ Entries(f[v])
    /\ Meets(f, v)

(* Context ctx accounts for the chunks S and nothing else.                 *)
Accounts(f, S, ctx) ==
  /\ \A c \in Cpus :
       /\ ctx.cpus[c].present <=> SeenIn(f, c, S) # {}
       /\ ctx.cpus[c].currentTask = TaskIn(f, SeenIn(f, c, S))
       /\ ctx.cpus[c].cpu_ns = SumFunctionOnSet(CpuPart(f, c), S)
  /\ Entries(ctx)
  /\ \A t \in AllTids :
       /\ ctx.tids[t].present <=> MetIn(f, t, S) # {}
       /\ ctx.tids[t].cpu_ns = SumFunctionOnSet(TidPart(f, t), S)
       /\ Pinned(f, t) => ctx.tids[t].comm = NameIn(f, t, MetIn(f, t, S))

-------------------------------------------------------------------------------
(* One of a set of chunks is last.                                         *)
LEMMA LatestIn ==
  ASSUME NEW f, Chunking(f), NEW S \in SUBSET DOMAIN f, S # {}
  PROVE  Latest(S) \in S /\ \A u \in S : u[2] <= Latest(S)[2]
<1> DEFINE T == {MaxCuts + 1 - u[2] : u \in S}
<1>1. \A u \in S : u[2] \in Nat /\ u[2] <= MaxCuts + 1
  BY DEF Chunking
<1>2. MaxCuts \in Nat
  BY CpuBalancedAssumption
<1>3. T \in SUBSET Nat /\ T # {}
  BY <1>1, <1>2
<1> HIDE DEF T
<1>4. PICK n \in T : \A m \in T : n <= m
  BY <1>3, SmallestNat
<1>5. PICK v \in S : n = MaxCuts + 1 - v[2]
  BY <1>4 DEF T
<1>6. \A u \in S : u[2] <= v[2]
  <2> TAKE u \in S
  <2>1. MaxCuts + 1 - u[2] \in T
    BY DEF T
  <2>2. n <= MaxCuts + 1 - u[2]
    BY <1>4, <2>1
  <2> QED
    BY <1>1, <1>2, <1>5, <2>2
<1> QED
  BY <1>6 DEF Latest

(* It is the only one of its CPU that none follows.                        *)
LEMMA LatestIs ==
  ASSUME NEW f, Chunking(f), NEW S \in SUBSET DOMAIN f, NEW w \in S,
         \A u \in S : u[1] = w[1] /\ u[2] <= w[2]
  PROVE  Latest(S) = w
<1>1. Latest(S) \in S /\ w[2] <= Latest(S)[2]
  BY LatestIn
<1>2. Latest(S)[1] = w[1] /\ Latest(S)[2] <= w[2]
  BY <1>1
<1>3. /\ Latest(S) = <<Latest(S)[1], Latest(S)[2]>> /\ w = <<w[1], w[2]>>
      /\ Latest(S)[2] \in Nat /\ w[2] \in Nat
  BY <1>1 DEF Chunking
<1>4. Latest(S)[2] = w[2]
  BY <1>1, <1>2, <1>3
<1> QED
  BY <1>2, <1>3, <1>4

(* The entry of a chunk is one, and so is the task chunks leave running.   *)
LEMMA EntryType ==
  ASSUME NEW f, Chunking(f)
  PROVE  /\ \A v \in DOMAIN f : /\ Entry(f, v) \in Cpu
                                /\ \A t \in AllTids : f[v].tids[t] \in Process
         /\ \A S \in SUBSET DOMAIN f : TaskIn(f, S) \in Task \cup {None}
<1>1. ASSUME NEW v \in DOMAIN f
      PROVE  Entry(f, v) \in Cpu /\ \A t \in AllTids : f[v].tids[t] \in Process
  BY DEF Chunking, Contexts, Entry
<1>2. ASSUME NEW S \in SUBSET DOMAIN f
      PROVE  TaskIn(f, S) \in Task \cup {None}
  <2>1. CASE S = {}
    BY <2>1 DEF TaskIn
  <2>2. CASE S # {}
    <3>1. Entry(f, Latest(S)) \in Cpu
      BY <1>1, <2>2, LatestIn
    <3> QED
      BY <2>2, <3>1 DEF TaskIn, Cpu
  <2> QED
    BY <2>1, <2>2
<1> QED
  BY <1>1, <1>2

(* The part a chunk has in a time is a length of time.                     *)
LEMMA PartType ==
  ASSUME NEW f, Chunking(f), Sound(f)
  PROVE  /\ \A v \in DOMAIN f : Gap(f, v) \in Nat
         /\ \A c : /\ DOMAIN CpuPart(f, c) = DOMAIN f
                   /\ \A v \in DOMAIN f : CpuPart(f, c)[v] \in Nat
         /\ \A t \in AllTids : /\ DOMAIN TidPart(f, t) = DOMAIN f
                               /\ \A v \in DOMAIN f : TidPart(f, t)[v] \in Nat
<1>1. ASSUME NEW v \in DOMAIN f PROVE Gap(f, v) \in Nat
  <2>1. CASE TaskBefore(f, v) # None /\ Entry(f, v).unknownTask # None
    <3>1. Earlier(f, v) \in SUBSET DOMAIN f
      BY DEF Earlier, SeenOf
    <3>2. TaskBefore(f, v).start \in Nat
      BY <2>1, <3>1, EntryType DEF TaskBefore, Task
    <3>3. Entry(f, v).unknownTask.end \in Nat
      BY <2>1, EntryType, CpuFields
    <3>4. Entry(f, v).present
      BY <2>1 DEF Sound, NewCpu
    <3>5. TaskBefore(f, v).start <= Entry(f, v).unknownTask.end
      BY <2>1, <3>4 DEF Sound, Meets
    <3> QED
      BY <2>1, <3>2, <3>3, <3>5 DEF Gap
  <2>2. CASE ~(TaskBefore(f, v) # None /\ Entry(f, v).unknownTask # None)
    BY <2>2 DEF Gap
  <2> QED
    BY <2>1, <2>2
<1>2. \A v \in DOMAIN f : /\ Entry(f, v).cpu_ns \in Nat
                          /\ \A t \in AllTids : f[v].tids[t].cpu_ns \in Nat
  BY EntryType, CpuFields DEF Process
<1>3. ASSUME NEW c
      PROVE  /\ DOMAIN CpuPart(f, c) = DOMAIN f
             /\ \A v \in DOMAIN f : CpuPart(f, c)[v] \in Nat
  BY <1>1, <1>2 DEF CpuPart
<1>4. ASSUME NEW t \in AllTids
      PROVE  /\ DOMAIN TidPart(f, t) = DOMAIN f
             /\ \A v \in DOMAIN f : TidPart(f, t)[v] \in Nat
  BY <1>1, <1>2 DEF TidPart
<1> QED
  BY <1>1, <1>3, <1>4

-------------------------------------------------------------------------------
(* The chunks after chunk w handled a switch.                              *)
After(f, w, e) == [f EXCEPT ![w] = HandleSchedSwitch(f[w], e)]

(* A switch, handled by the chunk it belongs to and by a context ctx that  *)
(* accounts for all chunks: the chunk is the last of its CPU, and what     *)
(* runs there is what ctx says.                                            *)
Handles(f, w, e, ctx, g) ==
  /\ Chunking(f) /\ Sound(f) /\ w \in DOMAIN f
  /\ e \in Events /\ e.cpu_id = w[1]
  /\ ctx \in Contexts /\ Accounts(f, DOMAIN f, ctx)
  /\ \A u \in SeenOf(f, w[1]) : u[2] <= w[2]
  /\ ctx.cpus[w[1]].currentTask # None =>
       /\ ctx.cpus[w[1]].currentTask.tid = e.prev_tid
       /\ ctx.cpus[w[1]].currentTask.start <= e.timestamp
  /\ ctx.cpus[w[1]].present /\ ctx.cpus[w[1]].currentTask = None => e.prev_tid = Idle
  /\ g = After(f, w, e)

(* The fields of a switch.                                                 *)
LEMMA SwitchFields ==
  ASSUME NEW e \in Events
  PROVE  /\ e.cpu_id \in Cpus /\ e.prev_tid \in AllTids /\ e.prev_comm \in Comms
         /\ e.next_tid \in AllTids /\ e.timestamp \in Nat
BY DEF Events

(* Either the chunk knows what its CPU runs, or the chunks before do.      *)
LEMMA WhatRuns ==
  ASSUME NEW f, NEW w, NEW e, NEW ctx, NEW g, Handles(f, w, e, ctx, g)
  PROVE  /\ Entry(f, w).present =>
              /\ ctx.cpus[w[1]].present
              /\ Entry(f, w).currentTask = ctx.cpus[w[1]].currentTask
         /\ ~Entry(f, w).present =>
              /\ Entry(f, w) = NewCpu
              /\ TaskBefore(f, w) = ctx.cpus[w[1]].currentTask
         /\ StartedBefore(Entry(f, w), e.timestamp)
<1>1. /\ w \in DOMAIN f /\ w[1] \in Cpus /\ w[2] \in Nat /\ Chunking(f) /\ Sound(f)
      /\ \A u \in SeenOf(f, w[1]) : u \in DOMAIN f /\ u[1] = w[1] /\ u[2] <= w[2] /\ u[2] \in Nat
      /\ SeenOf(f, w[1]) \in SUBSET DOMAIN f
  BY DEF Handles, Chunking, SeenOf
<1>2. /\ ctx.cpus[w[1]].present <=> SeenOf(f, w[1]) # {}
      /\ ctx.cpus[w[1]].currentTask = TaskIn(f, SeenOf(f, w[1]))
  <2>1. SeenIn(f, w[1], DOMAIN f) = SeenOf(f, w[1])
    BY <1>1 DEF SeenIn
  <2> QED
    BY <1>1, <2>1 DEF Handles, Accounts
<1>3. ASSUME Entry(f, w).present
      PROVE  ctx.cpus[w[1]].present /\ Entry(f, w).currentTask = ctx.cpus[w[1]].currentTask
  <2>1. w \in SeenOf(f, w[1])
    BY <1>1, <1>3 DEF SeenOf
  <2>2. Latest(SeenOf(f, w[1])) = w
    BY <1>1, <2>1, LatestIs
  <2> QED
    BY <1>2, <2>1, <2>2 DEF TaskIn
<1>4. ASSUME ~Entry(f, w).present
      PROVE  Entry(f, w) = NewCpu /\ TaskBefore(f, w) = ctx.cpus[w[1]].currentTask
  <2>1. w \notin SeenOf(f, w[1])
    BY <1>4 DEF SeenOf
  <2>2. \A u \in SeenOf(f, w[1]) : u[2] < w[2]
    <3> TAKE u \in SeenOf(f, w[1])
    <3>1. u[2] # w[2]
      BY <1>1, <2>1 DEF Chunking
    <3> QED
      BY <1>1, <3>1
  <2>3. Earlier(f, w) = SeenOf(f, w[1])
    BY <2>2 DEF Earlier
  <2>4. Entry(f, w) = NewCpu
    BY <1>1, <1>4 DEF Sound
  <2> QED
    BY <1>2, <2>3, <2>4 DEF TaskBefore
<1>5. StartedBefore(Entry(f, w), e.timestamp)
  <2>1. CASE Entry(f, w).present
    BY <1>3, <2>1 DEF Handles, StartedBefore
  <2>2. CASE ~Entry(f, w).present
    BY <1>4, <2>2 DEF StartedBefore, NewCpu
  <2> QED
    BY <2>1, <2>2
<1> QED
  BY <1>3, <1>4, <1>5

(* What the switch changes: the entries of one CPU and of one thread, in   *)
(* one chunk.                                                              *)
LEMMA AfterIs ==
  ASSUME NEW f, NEW w, NEW e, NEW ctx, NEW g, Handles(f, w, e, ctx, g)
  PROVE  /\ Chunking(g) /\ DOMAIN g = DOMAIN f
         /\ \A v \in DOMAIN f \ {w} : g[v] = f[v] /\ Entry(g, v) = Entry(f, v)
         /\ Entry(g, w) = SwitchCpu(Entry(f, w), e)
         /\ \A c \in Cpus \ {w[1]} : g[w].cpus[c] = f[w].cpus[c]
         /\ g[w].tids[e.prev_tid] =
              SwitchProcess(f[w].tids[e.prev_tid], e, Ran(Entry(f, w), e.timestamp))
         /\ \A t \in AllTids \ {e.prev_tid} : g[w].tids[t] = f[w].tids[t]
<1>1. /\ w \in DOMAIN f /\ w[1] \in Cpus /\ f[w] \in Contexts /\ Chunking(f)
      /\ e \in Events /\ e.cpu_id = w[1] /\ e.prev_tid \in AllTids
  BY SwitchFields DEF Handles, Chunking
<1>2. StartedBefore(f[w].cpus[w[1]], e.timestamp)
  BY WhatRuns DEF Entry
<1>3. HandleSchedSwitch(f[w], e) \in Contexts
  BY <1>1, <1>2, HandleType
<1>4. /\ DOMAIN g = DOMAIN f /\ g[w] = HandleSchedSwitch(f[w], e)
      /\ \A v \in DOMAIN f \ {w} : g[v] = f[v]
  BY <1>1 DEF Handles, After
<1>5. Chunking(g)
  BY <1>1, <1>3, <1>4 DEF Chunking
<1>6. \A v \in DOMAIN f \ {w} : Entry(g, v) = Entry(f, v)
  BY <1>4 DEF Entry
<1>7. /\ g[w].cpus = [f[w].cpus EXCEPT ![w[1]] = SwitchCpu(f[w].cpus[w[1]], e)]
      /\ g[w].tids = [f[w].tids EXCEPT ![e.prev_tid] =
                        SwitchProcess(f[w].tids[e.prev_tid], e,
                                      Ran(f[w].cpus[w[1]], e.timestamp))]
  BY <1>1, <1>4 DEF HandleSchedSwitch
<1>8. f[w].cpus \in [Cpus -> Cpu] /\ f[w].tids \in [AllTids -> Process]
  BY <1>1 DEF Contexts
<1> QED
  BY <1>1, <1>4, <1>5, <1>6, <1>7, <1>8 DEF Entry

(* The thread that is switched out is met, under its name on this CPU.     *)
LEMMA ProcessAfter ==
  ASSUME NEW f, NEW w, NEW e, NEW ctx, NEW g, Handles(f, w, e, ctx, g)
  PROVE  /\ g[w].tids[e.prev_tid].present
         /\ g[w].tids[e.prev_tid].cpu_ns =
              f[w].tids[e.prev_tid].cpu_ns + Ran(Entry(f, w), e.timestamp)
         /\ g[w].tids[e.prev_tid].tid =
              IF f[w].tids[e.prev_tid].present THEN f[w].tids[e.prev_tid].tid ELSE e.prev_tid
         /\ g[w].tids[e.prev_tid].comm = e.prev_comm
<1>1. g[w].tids[e.prev_tid] =
        SwitchProcess(f[w].tids[e.prev_tid], e, Ran(Entry(f, w), e.timestamp))
  BY AfterIs
<1> QED
  BY <1>1 DEF SwitchProcess

(* The chunk has now seen its CPU, which runs the next task.               *)
LEMMA EntryAfter ==
  ASSUME NEW f, NEW w, NEW e, NEW ctx, NEW g, Handles(f, w, e, ctx, g)
  PROVE  /\ Entry(g, w).present
         /\ Entry(g, w).currentTask = NextTask(Entry(f, w), e)
         /\ Entry(g, w).cpu_ns = Entry(f, w).cpu_ns + Ran(Entry(f, w), e.timestamp)
         /\ Entry(f, w).present => Entry(g, w).unknownTask = Entry(f, w).unknownTask
         /\ ~Entry(f, w).present /\ e.prev_tid = Idle => Entry(g, w).unknownTask = None
         /\ ~Entry(f, w).present /\ e.prev_tid # Idle =>
              /\ Entry(g, w).unknownTask # None
              /\ Entry(g, w).unknownTask.end = e.timestamp
              /\ Entry(g, w).unknownTask.tid = e.prev_tid
<1>1. Entry(g, w) = SwitchCpu(Entry(f, w), e)
  BY AfterIs
<1>2. Entry(f, w).present /\ Entry(f, w).currentTask = None => e.prev_tid = Idle
  BY WhatRuns DEF Handles
<1>3. ~Entry(f, w).present => Entry(f, w).currentTask = None /\ Entry(f, w).unknownTask = None
  BY WhatRuns DEF NewCpu
<1>4. e.prev_tid # Idle => [end |-> e.timestamp, tid |-> e.prev_tid] # None
  <2>1. e.prev_tid \in AllTids /\ e.timestamp \in Nat
    BY SwitchFields DEF Handles
  <2> QED
    BY <2>1, CpuContextAssumption DEF UnknownTask, AllTids
<1>5. /\ Entry(g, w).present
      /\ Entry(g, w).currentTask = NextTask(Entry(f, w), e)
      /\ Entry(g, w).cpu_ns = Entry(f, w).cpu_ns + Ran(Entry(f, w), e.timestamp)
      /\ Entry(g, w).unknownTask =
           IF Entry(f, w).currentTask = None /\ e.prev_tid # Idle
           THEN [end |-> e.timestamp, tid |-> e.prev_tid] ELSE Entry(f, w).unknownTask
  BY <1>1 DEF SwitchCpu
<1> QED
  BY <1>2, <1>3, <1>4, <1>5

(* It is the last of its CPU; the others are seen as they were.            *)
LEMMA SeenAfter ==
  ASSUME NEW f, NEW w, NEW e, NEW ctx, NEW g, Handles(f, w, e, ctx, g)
  PROVE  /\ SeenOf(g, w[1]) = SeenOf(f, w[1]) \cup {w}
         /\ \A c \in Cpus \ {w[1]} : SeenOf(g, c) = SeenOf(f, c)
         /\ Latest(SeenOf(g, w[1])) = w
<1>1. /\ w \in DOMAIN f /\ w[1] \in Cpus /\ w[2] \in Nat /\ Chunking(g) /\ DOMAIN g = DOMAIN f
      /\ Entry(g, w).present
      /\ \A v \in DOMAIN f \ {w} : Entry(g, v) = Entry(f, v)
      /\ \A u \in SeenOf(f, w[1]) : u[2] <= w[2]
  BY AfterIs, EntryAfter DEF Handles, Chunking
<1>2. SeenOf(g, w[1]) = SeenOf(f, w[1]) \cup {w}
  BY <1>1 DEF SeenOf
<1>3. \A c \in Cpus \ {w[1]} : SeenOf(g, c) = SeenOf(f, c)
  BY <1>1 DEF SeenIn, SeenOf
<1>4. /\ SeenOf(g, w[1]) \in SUBSET DOMAIN g /\ w \in SeenOf(g, w[1])
      /\ \A u \in SeenOf(g, w[1]) : u[1] = w[1]
  BY <1>1, <1>2 DEF SeenOf
<1>5. \A u \in SeenOf(g, w[1]) : u[2] <= w[2]
  BY <1>1, <1>2
<1>6. Latest(SeenOf(g, w[1])) = w
  BY <1>1, <1>4, <1>5, LatestIs
<1> QED
  BY <1>2, <1>3, <1>6

(* A chunk that has seen its CPU still begins with the task it began with, *)
(* and so does this one.                                                   *)
LEMMA BeforeAfter ==
  ASSUME NEW f, NEW w, NEW e, NEW ctx, NEW g, Handles(f, w, e, ctx, g),
         NEW v \in DOMAIN f, v = w \/ Entry(f, v).present
  PROVE  TaskBefore(g, v) = TaskBefore(f, v)
<1>1. /\ w \in DOMAIN f /\ v[1] \in Cpus /\ Chunking(f)
      /\ v[2] \in Nat /\ w[2] \in Nat
      /\ \A u \in DOMAIN f \ {w} : Entry(g, u) = Entry(f, u)
  BY AfterIs DEF Handles, Chunking
<1>2. v[1] = w[1] => v[2] <= w[2]
  <2>1. Entry(f, v).present /\ v[1] = w[1] => v \in SeenOf(f, w[1])
    BY DEF SeenOf
  <2> QED
    BY <1>1, <2>1 DEF Handles
<1>3. Earlier(g, v) = Earlier(f, v)
  <2>1. CASE v[1] = w[1]
    <3>1. ~(w[2] < v[2])
      BY <1>1, <1>2, <2>1
    <3> QED
      BY <2>1, <3>1, SeenAfter DEF Earlier
  <2>2. CASE v[1] # w[1]
    BY <1>1, <2>2, SeenAfter DEF Earlier
  <2> QED
    BY <2>1, <2>2
<1>4. Earlier(f, v) \in SUBSET DOMAIN f /\ w \notin Earlier(f, v)
  <2>1. w \in Earlier(f, v) => w[1] = v[1] /\ w[2] < v[2]
    BY DEF Earlier, SeenOf
  <2>2. w \notin Earlier(f, v)
    BY <1>1, <1>2, <2>1
  <2> QED
    BY <2>2 DEF Earlier, SeenOf
<1>5. Earlier(f, v) # {} =>
        Entry(g, Latest(Earlier(f, v))) = Entry(f, Latest(Earlier(f, v)))
  <2>1. Earlier(f, v) # {} => Latest(Earlier(f, v)) \in Earlier(f, v)
    BY <1>1, <1>4, LatestIn
  <2> QED
    BY <1>1, <1>4, <2>1
<1> QED
  BY <1>3, <1>5 DEF TaskBefore, TaskIn

(* What a chunk has to bridge changes for this one only, which now ends    *)
(* the run that ctx ends.                                                  *)
LEMMA GapAfter ==
  ASSUME NEW f, NEW w, NEW e, NEW ctx, NEW g, Handles(f, w, e, ctx, g)
  PROVE  /\ \A v \in DOMAIN f \ {w} : Gap(g, v) = Gap(f, v)
         /\ Entry(f, w).present => Gap(g, w) = Gap(f, w)
         /\ ~Entry(f, w).present =>
              /\ Gap(f, w) = 0
              /\ Gap(g, w) = Ran(ctx.cpus[w[1]], e.timestamp)
              /\ Ran(ctx.cpus[w[1]], e.timestamp) # 0 =>
                   Entry(g, w).unknownTask # None /\ Entry(g, w).unknownTask.tid = e.prev_tid
<1>1. ASSUME NEW v \in DOMAIN f \ {w} PROVE Gap(g, v) = Gap(f, v)
  <2>1. Entry(g, v) = Entry(f, v)
    BY AfterIs
  <2>2. CASE Entry(f, v).present
    BY <2>1, <2>2, BeforeAfter DEF Gap
  <2>3. CASE ~Entry(f, v).present
    <3>1. Entry(f, v).unknownTask = None
      BY <2>3 DEF Handles, Sound, NewCpu
    <3> QED
      BY <2>1, <3>1 DEF Gap
  <2> QED
    BY <2>2, <2>3
<1>2. TaskBefore(g, w) = TaskBefore(f, w)
  BY BeforeAfter DEF Handles
<1>3. Entry(f, w).present => Gap(g, w) = Gap(f, w)
  BY <1>2, EntryAfter DEF Gap
<1>4. ASSUME ~Entry(f, w).present
      PROVE  /\ Gap(f, w) = 0
             /\ Gap(g, w) = Ran(ctx.cpus[w[1]], e.timestamp)
             /\ Ran(ctx.cpus[w[1]], e.timestamp) # 0 =>
                  Entry(g, w).unknownTask # None /\ Entry(g, w).unknownTask.tid = e.prev_tid
  <2>1. Entry(f, w).unknownTask = None /\ TaskBefore(f, w) = ctx.cpus[w[1]].currentTask
    BY <1>4, WhatRuns DEF NewCpu
  <2>2. ctx.cpus[w[1]].currentTask # None => e.prev_tid # Idle
    <3>1. ctx.cpus[w[1]] \in Cpu
      BY DEF Handles, Contexts, Chunking
    <3> QED
      BY <3>1, CpuFields, TracedSystemAssumption DEF Handles
  <2>3. CASE ctx.cpus[w[1]].currentTask = None
    BY <1>2, <2>1, <2>3 DEF Gap, Ran
  <2>4. CASE ctx.cpus[w[1]].currentTask # None
    <3>1. /\ Entry(g, w).unknownTask # None
          /\ Entry(g, w).unknownTask.end = e.timestamp
          /\ Entry(g, w).unknownTask.tid = e.prev_tid
      BY <1>4, <2>2, <2>4, EntryAfter
    <3>3. Gap(g, w) = e.timestamp - ctx.cpus[w[1]].currentTask.start
      BY <1>2, <2>1, <2>4, <3>1 DEF Gap
    <3>4. Ran(ctx.cpus[w[1]], e.timestamp) = e.timestamp - ctx.cpus[w[1]].currentTask.start
      BY <2>4 DEF Ran
    <3> QED
      BY <2>1, <3>1, <3>3, <3>4 DEF Gap
  <2> QED
    BY <2>3, <2>4
<1> QED
  BY <1>1, <1>3, <1>4

(* The chunks remain sound.                                                *)
LEMMA SoundAfter ==
  ASSUME NEW f, NEW w, NEW e, NEW ctx, NEW g, Handles(f, w, e, ctx, g)
  PROVE  Sound(g)
<1>1. /\ w \in DOMAIN f /\ w[1] \in Cpus /\ Sound(f) /\ Chunking(f) /\ DOMAIN g = DOMAIN f
      /\ e.prev_tid \in AllTids /\ Sound(f)
  BY AfterIs, SwitchFields DEF Handles, Chunking
<1>2. ASSUME NEW v \in DOMAIN f \ {w}
      PROVE  /\ \A c \in Cpus \ {v[1]} : g[v].cpus[c] = NewCpu
             /\ ~Entry(g, v).present => /\ Entry(g, v) = NewCpu
                                        /\ \A t \in AllTids : ~g[v].tids[t].present
             /\ Entry(g, v).unknownTask # None => g[v].tids[Entry(g, v).unknownTask.tid].present
             /\ Entries(g[v])
             /\ Meets(g, v)
  <2>1. g[v] = f[v] /\ Entry(g, v) = Entry(f, v)
    BY AfterIs
  <2>2. Meets(g, v)
    <3>1. CASE Entry(f, v).present
      <4>1. TaskBefore(g, v) = TaskBefore(f, v)
        BY <3>1, BeforeAfter
      <4>2. Meets(f, v)
        BY <1>1 DEF Sound
      <4> QED
        BY <2>1, <4>1, <4>2 DEF Meets
    <3>2. CASE ~Entry(f, v).present
      BY <2>1, <3>2 DEF Meets
    <3> QED
      BY <3>1, <3>2
  <2> QED
    BY <1>1, <2>1, <2>2 DEF Sound
<1>3. \A c \in Cpus \ {w[1]} : g[w].cpus[c] = NewCpu
  BY <1>1, AfterIs DEF Sound
<1>4. Entry(g, w).present
  BY EntryAfter
<1>5. g[w].tids[e.prev_tid].present
  BY ProcessAfter
<1>6. Entry(g, w).unknownTask # None => g[w].tids[Entry(g, w).unknownTask.tid].present
  <2>1. CASE Entry(f, w).present
    <3>1. Entry(f, w).unknownTask # None =>
            /\ f[w].tids[Entry(f, w).unknownTask.tid].present
            /\ Entry(f, w).unknownTask.tid \in AllTids
      BY <1>1, EntryType, CpuFields DEF Sound, AllTids
    <3>2. Entry(g, w).unknownTask = Entry(f, w).unknownTask
      BY <2>1, EntryAfter
    <3>3. \A t \in AllTids \ {e.prev_tid} : g[w].tids[t] = f[w].tids[t]
      BY AfterIs
    <3> QED
      BY <1>5, <3>1, <3>2, <3>3
  <2>2. CASE ~Entry(f, w).present
    <3>1. e.prev_tid = Idle => Entry(g, w).unknownTask = None
      BY <2>2, EntryAfter
    <3>2. e.prev_tid # Idle => Entry(g, w).unknownTask.tid = e.prev_tid
      BY <2>2, EntryAfter
    <3> QED
      BY <1>5, <3>1, <3>2
  <2> QED
    BY <2>1, <2>2
<1>7. Entries(g[w])
  <2>1. Entries(f[w])
    BY <1>1 DEF Sound
  <2>2. \A t \in AllTids \ {e.prev_tid} : g[w].tids[t] = f[w].tids[t]
    BY AfterIs
  <2>3. g[w].tids[e.prev_tid].tid =
          IF f[w].tids[e.prev_tid].present THEN f[w].tids[e.prev_tid].tid ELSE e.prev_tid
    BY ProcessAfter
  <2> QED
    BY <1>5, <2>1, <2>2, <2>3 DEF Entries
<1>8. Meets(g, w)
  <2>1. TaskBefore(g, w) = TaskBefore(f, w)
    BY <1>1, BeforeAfter
  <2>2. CASE Entry(f, w).present
    <3>1. Meets(f, w) /\ Entry(g, w).unknownTask = Entry(f, w).unknownTask
      BY <1>1, <2>2, EntryAfter DEF Sound
    <3> QED
      BY <2>1, <2>2, <3>1 DEF Meets
  <2>3. CASE ~Entry(f, w).present
    <3>1. TaskBefore(f, w) = ctx.cpus[w[1]].currentTask
      BY <2>3, WhatRuns
    <3>2. ctx.cpus[w[1]].currentTask # None =>
            /\ e.prev_tid # Idle /\ ctx.cpus[w[1]].currentTask.tid = e.prev_tid
            /\ ctx.cpus[w[1]].currentTask.start <= e.timestamp
      <4>1. ctx.cpus[w[1]] \in Cpu
        BY <1>1 DEF Handles, Contexts
      <4> QED
        BY <4>1, CpuFields, TracedSystemAssumption DEF Handles
    <3>3. e.prev_tid # Idle =>
            /\ Entry(g, w).unknownTask # None
            /\ Entry(g, w).unknownTask.end = e.timestamp
            /\ Entry(g, w).unknownTask.tid = e.prev_tid
      BY <2>3, EntryAfter
    <3> QED
      BY <2>1, <3>1, <3>2, <3>3 DEF Meets
  <2> QED
    BY <2>2, <2>3
<1> QED
  BY <1>1, <1>2, <1>3, <1>4, <1>6, <1>7, <1>8 DEF Sound

(* The time of the run is in the part of this chunk, and no other part     *)
(* changes.                                                                *)
LEMMA PartsAfter ==
  ASSUME NEW f, NEW w, NEW e, NEW ctx, NEW g, Handles(f, w, e, ctx, g)
  PROVE  LET ran == Ran(ctx.cpus[w[1]], e.timestamp)
         IN  /\ ran \in Nat
             /\ \A c : \A v \in DOMAIN f \ {w} : CpuPart(g, c)[v] = CpuPart(f, c)[v]
             /\ \A t \in AllTids : \A v \in DOMAIN f \ {w} :
                  TidPart(g, t)[v] = TidPart(f, t)[v]
             /\ CpuPart(g, w[1])[w] = CpuPart(f, w[1])[w] + ran
             /\ \A c \in Cpus \ {w[1]} : CpuPart(g, c)[w] = CpuPart(f, c)[w]
             /\ TidPart(g, e.prev_tid)[w] = TidPart(f, e.prev_tid)[w] + ran
             /\ \A t \in AllTids \ {e.prev_tid} : TidPart(g, t)[w] = TidPart(f, t)[w]
<1> DEFINE ran == Ran(ctx.cpus[w[1]], e.timestamp)
<1>1. /\ w \in DOMAIN f /\ w[1] \in Cpus /\ Sound(f) /\ Chunking(f) /\ DOMAIN g = DOMAIN f
      /\ e.prev_tid \in AllTids /\ ctx.cpus[w[1]] \in Cpu /\ e.timestamp \in Nat
  BY AfterIs, SwitchFields DEF Handles, Chunking, Contexts
<1>2. ran \in Nat
  <2>1. StartedBefore(ctx.cpus[w[1]], e.timestamp)
    BY DEF Handles, StartedBefore
  <2> QED
    BY <1>1, <2>1, RanType
<1>3. \A v \in DOMAIN f \ {w} : g[v] = f[v] /\ Entry(g, v) = Entry(f, v) /\ Gap(g, v) = Gap(f, v)
  BY AfterIs, GapAfter
<1>4. \A c : \A v \in DOMAIN f \ {w} : CpuPart(g, c)[v] = CpuPart(f, c)[v]
  BY <1>1, <1>3 DEF CpuPart
<1>5. \A t \in AllTids : \A v \in DOMAIN f \ {w} : TidPart(g, t)[v] = TidPart(f, t)[v]
  BY <1>1, <1>3 DEF TidPart
<1>6. \A c \in Cpus \ {w[1]} : CpuPart(g, c)[w] = CpuPart(f, c)[w]
  BY <1>1 DEF CpuPart
<1>7. /\ Entry(f, w).cpu_ns \in Nat /\ Gap(f, w) \in Nat
      /\ \A t \in AllTids : f[w].tids[t].cpu_ns \in Nat
  BY <1>1, EntryType, PartType, CpuFields DEF Process
<1>8. /\ \A t \in AllTids \ {e.prev_tid} : g[w].tids[t] = f[w].tids[t]
      /\ g[w].tids[e.prev_tid].cpu_ns =
           f[w].tids[e.prev_tid].cpu_ns + Ran(Entry(f, w), e.timestamp)
      /\ Entry(g, w).cpu_ns = Entry(f, w).cpu_ns + Ran(Entry(f, w), e.timestamp)
  BY AfterIs, ProcessAfter, EntryAfter
<1>9. /\ CpuPart(f, w[1])[w] = Entry(f, w).cpu_ns + Gap(f, w)
      /\ CpuPart(g, w[1])[w] = Entry(g, w).cpu_ns + Gap(g, w)
  BY <1>1 DEF CpuPart
<1> HIDE DEF ran
<1>10. CASE Entry(f, w).present
  <2>1. /\ Ran(Entry(f, w), e.timestamp) = ran /\ Gap(g, w) = Gap(f, w)
        /\ Entry(g, w).unknownTask = Entry(f, w).unknownTask
    BY <1>10, WhatRuns, GapAfter, EntryAfter DEF Ran, ran
  <2>2. CpuPart(g, w[1])[w] = CpuPart(f, w[1])[w] + ran
    BY <1>2, <1>7, <1>8, <1>9, <2>1
  <2>3. \A t \in AllTids \ {e.prev_tid} : TidPart(g, t)[w] = TidPart(f, t)[w]
    BY <1>1, <1>8, <2>1 DEF TidPart
  <2>4. TidPart(g, e.prev_tid)[w] = TidPart(f, e.prev_tid)[w] + ran
    <3> DEFINE own == IF Entry(f, w).unknownTask # None /\ Entry(f, w).unknownTask.tid = e.prev_tid
                      THEN Gap(f, w) ELSE 0
    <3>1. own \in Nat
      BY <1>7
    <3>2. /\ TidPart(f, e.prev_tid)[w] = f[w].tids[e.prev_tid].cpu_ns + own
          /\ TidPart(g, e.prev_tid)[w] = g[w].tids[e.prev_tid].cpu_ns + own
      BY <1>1, <2>1 DEF TidPart
    <3> HIDE DEF own
    <3> QED
      BY <1>1, <1>2, <1>7, <1>8, <2>1, <3>1, <3>2
  <2> QED
    BY <1>2, <1>4, <1>5, <1>6, <2>2, <2>3, <2>4 DEF ran
<1>11. CASE ~Entry(f, w).present
  <2>1. /\ Ran(Entry(f, w), e.timestamp) = 0 /\ Entry(f, w).cpu_ns = 0
        /\ Entry(f, w).unknownTask = None
    BY <1>11, WhatRuns DEF Ran, NewCpu
  <2>2. /\ Gap(f, w) = 0 /\ Gap(g, w) = ran
        /\ ran # 0 => Entry(g, w).unknownTask # None /\ Entry(g, w).unknownTask.tid = e.prev_tid
    BY <1>11, GapAfter DEF ran
  <2>3. Entry(g, w).unknownTask # None => Entry(g, w).unknownTask.tid = e.prev_tid
    BY <1>11, EntryAfter
  <2>4. CpuPart(g, w[1])[w] = CpuPart(f, w[1])[w] + ran
    BY <1>2, <1>7, <1>8, <1>9, <2>1, <2>2
  <2>5. \A t \in AllTids : TidPart(f, t)[w] = f[w].tids[t].cpu_ns
    BY <1>1, <1>7, <2>1 DEF TidPart
  <2>6. \A t \in AllTids \ {e.prev_tid} : TidPart(g, t)[w] = TidPart(f, t)[w]
    BY <1>1, <1>7, <1>8, <2>3, <2>5 DEF TidPart
  <2>7. TidPart(g, e.prev_tid)[w] = g[w].tids[e.prev_tid].cpu_ns + ran
    BY <1>1, <1>2, <2>2 DEF TidPart
  <2>8. TidPart(g, e.prev_tid)[w] = TidPart(f, e.prev_tid)[w] + ran
    BY <1>1, <1>2, <1>7, <1>8, <2>1, <2>5, <2>7
  <2> QED
    BY <1>2, <1>4, <1>5, <1>6, <2>4, <2>6, <2>8 DEF ran
<1> QED
  BY <1>10, <1>11

(* Who has met a thread, and under which name, afterwards.                 *)
LEMMA MetAfter ==
  ASSUME NEW f, NEW w, NEW e, NEW ctx, NEW g, Handles(f, w, e, ctx, g)
  PROVE  /\ Met(g, e.prev_tid) = Met(f, e.prev_tid) \cup {w}
         /\ Pinned(g, e.prev_tid) => NameIn(g, e.prev_tid, Met(g, e.prev_tid)) = e.prev_comm
         /\ \A t \in AllTids \ {e.prev_tid} :
              /\ Met(g, t) = Met(f, t)
              /\ Pinned(g, t) => Pinned(f, t)
              /\ NameIn(g, t, Met(g, t)) = NameIn(f, t, Met(f, t))
<1>1. /\ w \in DOMAIN f /\ w[1] \in Cpus /\ w[2] \in Nat /\ Sound(f)
      /\ Chunking(f) /\ Chunking(g) /\ DOMAIN g = DOMAIN f
      /\ e.prev_tid \in AllTids
      /\ \A v \in DOMAIN f \ {w} : g[v] = f[v]
      /\ \A t \in AllTids \ {e.prev_tid} : g[w].tids[t] = f[w].tids[t]
  BY AfterIs, SwitchFields DEF Handles, Chunking
<1>2. Met(g, e.prev_tid) = Met(f, e.prev_tid) \cup {w}
  <2>1. g[w].tids[e.prev_tid].present
    BY ProcessAfter
  <2> QED
    BY <1>1, <2>1 DEF Met
<1>3. ASSUME Pinned(g, e.prev_tid)
      PROVE  NameIn(g, e.prev_tid, Met(g, e.prev_tid)) = e.prev_comm
  <2>1. \A u \in Met(g, e.prev_tid) : u[1] = w[1] /\ u[2] <= w[2]
    <3> SUFFICES ASSUME NEW u \in Met(g, e.prev_tid)
                 PROVE  u[1] = w[1] /\ u[2] <= w[2]
      OBVIOUS
    <3>1. u[1] = w[1] /\ u \in DOMAIN f
      BY <1>1, <1>2, <1>3 DEF Pinned, Met
    <3>2. CASE u = w
      BY <1>1, <3>2
    <3>3. CASE u # w
      <4>1. f[u].tids[e.prev_tid].present
        BY <1>2, <3>3 DEF Met
      <4>2. Entry(f, u).present
        BY <1>1, <3>1, <4>1 DEF Sound
      <4>3. u \in SeenOf(f, w[1])
        BY <3>1, <4>2 DEF SeenOf
      <4> QED
        BY <3>1, <4>3 DEF Handles
    <3> QED
      BY <3>2, <3>3
  <2>2. Latest(Met(g, e.prev_tid)) = w
    <3>1. Met(g, e.prev_tid) \in SUBSET DOMAIN g /\ w \in Met(g, e.prev_tid)
      BY <1>2 DEF Met
    <3> QED
      BY <1>1, <2>1, <3>1, LatestIs
  <2>3. g[w].tids[e.prev_tid].comm = e.prev_comm
    BY ProcessAfter
  <2> QED
    BY <1>2, <2>2, <2>3 DEF NameIn
<1>4. ASSUME NEW t \in AllTids \ {e.prev_tid}
      PROVE  /\ Met(g, t) = Met(f, t)
             /\ Pinned(g, t) => Pinned(f, t)
             /\ NameIn(g, t, Met(g, t)) = NameIn(f, t, Met(f, t))
  <2>1. \A v \in DOMAIN f : g[v].tids[t] = f[v].tids[t]
    BY <1>1
  <2>2. Met(g, t) = Met(f, t)
    BY <1>1, <2>1 DEF Met
  <2>3. Met(f, t) # {} => Latest(Met(f, t)) \in DOMAIN f
    BY <1>1, LatestIn DEF Met
  <2>4. NameIn(g, t, Met(g, t)) = NameIn(f, t, Met(f, t))
    BY <2>1, <2>2, <2>3 DEF NameIn
  <2> QED
    BY <2>2, <2>4 DEF Pinned
<1> QED
  BY <1>2, <1>3, <1>4

(* The context that handled it too accounts for the chunks as they are.    *)
LEMMA AccountsAfter ==
  ASSUME NEW f, NEW w, NEW e, NEW ctx, NEW g, Handles(f, w, e, ctx, g)
  PROVE  /\ HandleSchedSwitch(ctx, e) \in Contexts
         /\ Accounts(g, DOMAIN g, HandleSchedSwitch(ctx, e))
<1> DEFINE next == HandleSchedSwitch(ctx, e)
           S == DOMAIN f
           ran == Ran(ctx.cpus[w[1]], e.timestamp)
<1>1. /\ w \in DOMAIN f /\ w[1] \in Cpus /\ e.cpu_id = w[1] /\ e \in Events
      /\ Sound(f) /\ Chunking(f) /\ Sound(g) /\ Chunking(g) /\ DOMAIN g = S
      /\ e.prev_tid \in AllTids /\ ctx \in Contexts /\ ctx.cpus[w[1]] \in Cpu
      /\ Accounts(f, S, ctx) /\ IsFiniteSet(S)
  BY AfterIs, SoundAfter, SwitchFields DEF Handles, Chunking, Contexts
<1>2. next \in Contexts
  <2>1. StartedBefore(ctx.cpus[w[1]], e.timestamp)
    BY DEF Handles, StartedBefore
  <2> QED
    BY <1>1, <2>1, HandleType
<1>3. /\ next.cpus[w[1]] = SwitchCpu(ctx.cpus[w[1]], e)
      /\ \A c \in Cpus \ {w[1]} : next.cpus[c] = ctx.cpus[c]
      /\ next.tids[e.prev_tid] = SwitchProcess(ctx.tids[e.prev_tid], e, ran)
      /\ \A t \in AllTids \ {e.prev_tid} : next.tids[t] = ctx.tids[t]
  <2>1. ctx.cpus \in [Cpus -> Cpu] /\ ctx.tids \in [AllTids -> Process]
    BY <1>1 DEF Contexts
  <2>2. /\ next.cpus = [ctx.cpus EXCEPT ![w[1]] = SwitchCpu(ctx.cpus[w[1]], e)]
        /\ next.tids = [ctx.tids EXCEPT ![e.prev_tid] = SwitchProcess(ctx.tids[e.prev_tid], e, ran)]
    BY <1>1 DEF HandleSchedSwitch
  <2> HIDE DEF next
  <2> QED
    BY <1>1, <2>1, <2>2
<1>4. /\ next.cpus[w[1]].present
      /\ next.cpus[w[1]].cpu_ns = ctx.cpus[w[1]].cpu_ns + ran
      /\ next.cpus[w[1]].currentTask = NextTask(ctx.cpus[w[1]], e)
  BY <1>3 DEF SwitchCpu
<1>5. /\ next.tids[e.prev_tid].present
      /\ next.tids[e.prev_tid].cpu_ns = ctx.tids[e.prev_tid].cpu_ns + ran
      /\ next.tids[e.prev_tid].tid =
           IF ctx.tids[e.prev_tid].present THEN ctx.tids[e.prev_tid].tid ELSE e.prev_tid
      /\ next.tids[e.prev_tid].comm = e.prev_comm
  BY <1>3 DEF SwitchProcess
<1>6. /\ ran \in Nat
      /\ \A c : \A v \in S \ {w} : CpuPart(g, c)[v] = CpuPart(f, c)[v]
      /\ \A t \in AllTids : \A v \in S \ {w} : TidPart(g, t)[v] = TidPart(f, t)[v]
      /\ CpuPart(g, w[1])[w] = CpuPart(f, w[1])[w] + ran
      /\ \A c \in Cpus \ {w[1]} : CpuPart(g, c)[w] = CpuPart(f, c)[w]
      /\ TidPart(g, e.prev_tid)[w] = TidPart(f, e.prev_tid)[w] + ran
      /\ \A t \in AllTids \ {e.prev_tid} : TidPart(g, t)[w] = TidPart(f, t)[w]
  BY PartsAfter
<1>7. /\ \A c : \A v \in S : CpuPart(f, c)[v] \in Int /\ CpuPart(g, c)[v] \in Int
      /\ \A t \in AllTids : \A v \in S : TidPart(f, t)[v] \in Int /\ TidPart(g, t)[v] \in Int
  BY <1>1, PartType
<1>8. \A c : SeenIn(g, c, S) = SeenOf(g, c) /\ SeenIn(f, c, S) = SeenOf(f, c)
  BY <1>1 DEF SeenIn, SeenOf
<1>9. \A t : MetIn(g, t, S) = Met(g, t) /\ MetIn(f, t, S) = Met(f, t)
  BY <1>1 DEF MetIn, Met
<1> HIDE DEF ran, next
<1>10. ASSUME NEW c \in Cpus
       PROVE  /\ next.cpus[c].present <=> SeenIn(g, c, S) # {}
              /\ next.cpus[c].currentTask = TaskIn(g, SeenIn(g, c, S))
              /\ next.cpus[c].cpu_ns = SumFunctionOnSet(CpuPart(g, c), S)
  <2>1. CASE c = w[1]
    <3>1. w \in SeenOf(g, c) /\ Latest(SeenOf(g, c)) = w
      BY <2>1, SeenAfter
    <3>2. TaskIn(g, SeenOf(g, c)) = NextTask(ctx.cpus[w[1]], e)
      BY <3>1, EntryAfter DEF TaskIn, NextTask
    <3>3. SumFunctionOnSet(CpuPart(g, c), S) = SumFunctionOnSet(CpuPart(f, c), S) + ran
      <4>1. SumFunctionOnSet(CpuPart(g, c), S) =
              SumFunctionOnSet(CpuPart(f, c), S) + (CpuPart(g, c)[w] - CpuPart(f, c)[w])
        BY <1>1, <1>6, <1>7, SumChange
      <4> QED
        BY <1>1, <1>6, <1>7, <2>1, <4>1
    <3>4. ctx.cpus[c].cpu_ns = SumFunctionOnSet(CpuPart(f, c), S)
      BY <1>1 DEF Accounts
    <3> QED
      BY <1>4, <1>8, <2>1, <3>1, <3>2, <3>3, <3>4
  <2>2. CASE c # w[1]
    <3>1. SeenOf(g, c) = SeenOf(f, c)
      BY <2>2, SeenAfter
    <3>2. TaskIn(g, SeenOf(g, c)) = TaskIn(f, SeenOf(f, c))
      <4>1. SeenOf(f, c) # {} => Latest(SeenOf(f, c)) \in SeenOf(f, c)
        BY <1>1, LatestIn DEF SeenOf
      <4>2. \A v \in SeenOf(f, c) : Entry(g, v) = Entry(f, v)
        BY <2>2, AfterIs DEF SeenOf
      <4> QED
        BY <3>1, <4>1, <4>2 DEF TaskIn
    <3>3. SumFunctionOnSet(CpuPart(g, c), S) = SumFunctionOnSet(CpuPart(f, c), S)
      <4>1. \A v \in S : CpuPart(g, c)[v] = CpuPart(f, c)[v]
        BY <1>6, <2>2
      <4> QED
        BY <1>1, <4>1, SumEqual
    <3>4. /\ ctx.cpus[c].present <=> SeenIn(f, c, S) # {}
          /\ ctx.cpus[c].currentTask = TaskIn(f, SeenIn(f, c, S))
          /\ ctx.cpus[c].cpu_ns = SumFunctionOnSet(CpuPart(f, c), S)
      BY <1>1 DEF Accounts
    <3> QED
      BY <1>3, <1>8, <2>2, <3>1, <3>2, <3>3, <3>4
  <2> QED
    BY <2>1, <2>2
<1>11. ASSUME NEW t \in AllTids
       PROVE  /\ next.tids[t].tid = IF next.tids[t].present THEN t ELSE UnknownTid
              /\ next.tids[t].present <=> MetIn(g, t, S) # {}
              /\ next.tids[t].cpu_ns = SumFunctionOnSet(TidPart(g, t), S)
              /\ Pinned(g, t) => next.tids[t].comm = NameIn(g, t, MetIn(g, t, S))
  <2>1. /\ ctx.tids[t].tid = IF ctx.tids[t].present THEN t ELSE UnknownTid
        /\ ctx.tids[t].present <=> MetIn(f, t, S) # {}
        /\ ctx.tids[t].cpu_ns = SumFunctionOnSet(TidPart(f, t), S)
        /\ Pinned(f, t) => ctx.tids[t].comm = NameIn(f, t, MetIn(f, t, S))
    BY <1>1 DEF Accounts, Entries
  <2>2. CASE t = e.prev_tid
    <3>1. w \in Met(g, t) /\ (Pinned(g, t) => NameIn(g, t, Met(g, t)) = e.prev_comm)
      BY <2>2, MetAfter
    <3>2. SumFunctionOnSet(TidPart(g, t), S) = SumFunctionOnSet(TidPart(f, t), S) + ran
      <4>1. SumFunctionOnSet(TidPart(g, t), S) =
              SumFunctionOnSet(TidPart(f, t), S) + (TidPart(g, t)[w] - TidPart(f, t)[w])
        BY <1>1, <1>6, <1>7, SumChange
      <4> QED
        BY <1>1, <1>6, <1>7, <2>2, <4>1
    <3> QED
      BY <1>5, <1>9, <2>1, <2>2, <3>1, <3>2
  <2>3. CASE t # e.prev_tid
    <3>1. /\ Met(g, t) = Met(f, t) /\ (Pinned(g, t) => Pinned(f, t))
          /\ NameIn(g, t, Met(g, t)) = NameIn(f, t, Met(f, t))
      BY <2>3, MetAfter
    <3>2. SumFunctionOnSet(TidPart(g, t), S) = SumFunctionOnSet(TidPart(f, t), S)
      <4>1. \A v \in S : TidPart(g, t)[v] = TidPart(f, t)[v]
        BY <1>6, <2>3
      <4> QED
        BY <1>1, <4>1, SumEqual
    <3> QED
      BY <1>3, <1>9, <2>1, <2>3, <3>1, <3>2
  <2> QED
    BY <2>2, <2>3
<1>12. Accounts(g, S, next)
  BY <1>10, <1>11 DEF Accounts, Entries
<1> QED
  BY <1>1, <1>2, <1>12 DEF next

-------------------------------------------------------------------------------
(* A fresh context accounts for chunks that have seen nothing.             *)
LEMMA AccountsNothing ==
  ASSUME NEW f, Chunking(f), NEW S \in SUBSET DOMAIN f, NEW s \in Nat, NEW e \in Nat,
         \A v \in S : /\ Entry(f, v) = NewCpu
                      /\ \A t \in AllTids : ~f[v].tids[t].present /\ f[v].tids[t].cpu_ns = 0
  PROVE  NewContext(s, e) \in Contexts /\ Accounts(f, S, NewContext(s, e))
<1> DEFINE ctx == NewContext(s, e)
<1>1. /\ ctx \in Contexts
      /\ \A c \in Cpus : ctx.cpus[c] = NewCpu
      /\ \A t \in AllTids : ctx.tids[t] = NewProcess
  BY NewContextType
<1> HIDE DEF ctx
<1>2. IsFiniteSet(S)
  BY FS_Subset DEF Chunking
<1>3. /\ \A c : SeenIn(f, c, S) = {}
      /\ \A t \in AllTids : MetIn(f, t, S) = {}
  BY DEF SeenIn, SeenOf, MetIn, Met, NewCpu
<1>4. \A v \in S : Gap(f, v) = 0 /\ Entry(f, v).cpu_ns = 0 /\ Entry(f, v).unknownTask = None
  BY DEF Gap, NewCpu
<1>5. ASSUME NEW c PROVE SumFunctionOnSet(CpuPart(f, c), S) = 0
  <2>1. \A v \in S : CpuPart(f, c)[v] = 0
    BY <1>4 DEF CpuPart
  <2> QED
    BY <1>2, <2>1, SumOfZeros
<1>6. ASSUME NEW t \in AllTids PROVE SumFunctionOnSet(TidPart(f, t), S) = 0
  <2>1. \A v \in S : TidPart(f, t)[v] = 0
    BY <1>4 DEF TidPart
  <2> QED
    BY <1>2, <2>1, SumOfZeros
<1>7. \A c \in Cpus : /\ ctx.cpus[c].present <=> SeenIn(f, c, S) # {}
                      /\ ctx.cpus[c].currentTask = TaskIn(f, SeenIn(f, c, S))
                      /\ ctx.cpus[c].cpu_ns = SumFunctionOnSet(CpuPart(f, c), S)
  BY <1>1, <1>3, <1>5 DEF TaskIn, NewCpu
<1>8. \A t \in AllTids :
        /\ ctx.tids[t].tid = IF ctx.tids[t].present THEN t ELSE UnknownTid
        /\ ctx.tids[t].present <=> MetIn(f, t, S) # {}
        /\ ctx.tids[t].cpu_ns = SumFunctionOnSet(TidPart(f, t), S)
        /\ Pinned(f, t) => ctx.tids[t].comm = NameIn(f, t, MetIn(f, t, S))
  BY <1>1, <1>3, <1>6 DEF NameIn, NewProcess
<1>9. Accounts(f, S, ctx)
  BY <1>7, <1>8 DEF Accounts, Entries
<1> QED
  BY <1>1, <1>9 DEF ctx

(* A chunk merged into a context that accounts for the chunks S: those of  *)
(* its CPU among them that know anything are the ones before it.           *)
Merges(f, S, w, T, ctx) ==
  /\ Chunking(f) /\ Sound(f)
  /\ S \in SUBSET DOMAIN f /\ w \in DOMAIN f /\ w \notin S /\ T = S \cup {w}
  /\ ctx \in Contexts /\ Accounts(f, S, ctx)
  /\ Entry(f, w).present => SeenIn(f, w[1], S) = Earlier(f, w)

(* Its runs of other CPUs are not touched; that of its own is completed.   *)
LEMMA MergeBridges ==
  ASSUME NEW f, NEW S, NEW w, NEW T, NEW ctx, Merges(f, S, w, T, ctx)
  PROVE  /\ StopsLater(ctx, f[w])
         /\ TaskTime(ctx, f[w], w[1]) = Gap(f, w)
         /\ \A c \in Cpus \ {w[1]} : TaskTime(ctx, f[w], c) = 0
         /\ \A t \in AllTids :
              CompletedOn(ctx, f[w], t) =
                {c \in {w[1]} : /\ ctx.cpus[w[1]].currentTask # None
                                /\ Entry(f, w).unknownTask # None
                                /\ Entry(f, w).unknownTask.tid = t}
<1>1. /\ w \in DOMAIN f /\ w[1] \in Cpus /\ Sound(f) /\ f[w].cpus[w[1]] = Entry(f, w)
      /\ \A c \in Cpus \ {w[1]} : f[w].cpus[c].unknownTask = None
  <2>1. w \in DOMAIN f /\ w[1] \in Cpus /\ Sound(f)
    BY DEF Merges, Chunking
  <2>2. \A c \in Cpus \ {w[1]} : f[w].cpus[c] = NewCpu
    BY <2>1 DEF Sound
  <2> QED
    BY <2>1, <2>2 DEF Entry, NewCpu
<1>2. Entry(f, w).unknownTask # None =>
        Entry(f, w).present /\ ctx.cpus[w[1]].currentTask = TaskBefore(f, w)
  <2>1. Entry(f, w).unknownTask # None => Entry(f, w).present
    BY <1>1 DEF Sound, NewCpu
  <2>2. ctx.cpus[w[1]].currentTask = TaskIn(f, SeenIn(f, w[1], S))
    BY <1>1 DEF Merges, Accounts
  <2> QED
    BY <2>1, <2>2 DEF Merges, TaskBefore
<1>3. \A c \in Cpus : Continued(ctx, f[w], c) <=>
        c = w[1] /\ ctx.cpus[w[1]].currentTask # None /\ Entry(f, w).unknownTask # None
  BY <1>1 DEF Continued
<1>4. Continued(ctx, f[w], w[1]) =>
        /\ Entry(f, w).unknownTask.tid = ctx.cpus[w[1]].currentTask.tid
        /\ ctx.cpus[w[1]].currentTask.start <= Entry(f, w).unknownTask.end
  BY <1>1, <1>2, <1>3 DEF Sound, Meets
<1>5. StopsLater(ctx, f[w])
  BY <1>1, <1>3, <1>4 DEF StopsLater
<1>6. TaskTime(ctx, f[w], w[1]) = Gap(f, w)
  BY <1>1, <1>2, <1>3 DEF TaskTime, Gap
<1>7. \A c \in Cpus \ {w[1]} : TaskTime(ctx, f[w], c) = 0
  BY <1>3 DEF TaskTime
<1>8. ASSUME NEW t \in AllTids
      PROVE  CompletedOn(ctx, f[w], t) =
               {c \in {w[1]} : /\ ctx.cpus[w[1]].currentTask # None
                               /\ Entry(f, w).unknownTask # None
                               /\ Entry(f, w).unknownTask.tid = t}
  BY <1>1, <1>3, <1>4 DEF CompletedOn, SameTask
<1> QED
  BY <1>5, <1>6, <1>7, <1>8

(* The chunk before none of the others of its CPU that are merged.         *)
LEMMA MergedLast ==
  ASSUME NEW f, NEW S, NEW w, NEW T, NEW ctx, Merges(f, S, w, T, ctx)
  PROVE  /\ Entry(f, w).present =>
              /\ SeenIn(f, w[1], T) = Earlier(f, w) \cup {w}
              /\ TaskIn(f, SeenIn(f, w[1], T)) = Entry(f, w).currentTask
         /\ ~Entry(f, w).present => SeenIn(f, w[1], T) = SeenIn(f, w[1], S)
         /\ \A c \in Cpus \ {w[1]} : SeenIn(f, c, T) = SeenIn(f, c, S)
         /\ \A t \in AllTids : f[w].tids[t].present /\ Pinned(f, t) =>
              NameIn(f, t, MetIn(f, t, T)) = f[w].tids[t].comm
<1>0. T = S \cup {w}
  BY DEF Merges
<1>1. w \in DOMAIN f /\ w[1] \in Cpus /\ w[2] \in Nat /\ Chunking(f) /\ Sound(f)
  BY DEF Merges, Chunking
<1>2. \A v \in Earlier(f, w) : v \in DOMAIN f /\ v[1] = w[1] /\ v[2] < w[2] /\ v[2] \in Nat
  BY <1>1 DEF Earlier, SeenOf, Chunking
<1>3. ASSUME Entry(f, w).present
      PROVE  SeenIn(f, w[1], T) = Earlier(f, w) \cup {w}
  <2>1. w \in SeenOf(f, w[1])
    BY <1>1, <1>3 DEF SeenOf
  <2>2. SeenIn(f, w[1], S) = Earlier(f, w)
    BY <1>3 DEF Merges
  <2> QED
    BY <1>0, <2>1, <2>2 DEF SeenIn
<1>4. ASSUME Entry(f, w).present
      PROVE  TaskIn(f, SeenIn(f, w[1], T)) = Entry(f, w).currentTask
  <2> DEFINE A == Earlier(f, w) \cup {w}
  <2>1. A \in SUBSET DOMAIN f /\ w \in A
    BY <1>1, <1>2
  <2>2. \A u \in A : u[1] = w[1] /\ u[2] <= w[2]
    BY <1>1, <1>2
  <2> HIDE DEF A
  <2>3. Latest(A) = w
    BY <1>1, <2>1, <2>2, LatestIs
  <2>4. SeenIn(f, w[1], T) = A
    BY <1>3, <1>4 DEF A
  <2> QED
    BY <2>1, <2>3, <2>4 DEF TaskIn
<1>5. ASSUME NEW t \in AllTids, f[w].tids[t].present, Pinned(f, t)
      PROVE  NameIn(f, t, MetIn(f, t, T)) = f[w].tids[t].comm
  <2> DEFINE M == MetIn(f, t, T)
  <2>1. w \in M /\ M \in SUBSET DOMAIN f
    BY <1>0, <1>1, <1>5 DEF Met, MetIn, Merges
  <2>2. \A u \in M : u[1] = w[1] /\ u[2] <= w[2]
    <3> SUFFICES ASSUME NEW u \in M
                 PROVE  u[1] = w[1] /\ u[2] <= w[2]
      OBVIOUS
    <3>1. u[1] = w[1] /\ u \in DOMAIN f
      BY <1>5, <2>1 DEF Pinned, Met, MetIn
    <3>2. Entry(f, u).present /\ Entry(f, w).present
      BY <1>1, <1>5, <3>1 DEF Sound, Met, MetIn
    <3>3. u \in SeenIn(f, w[1], T)
      BY <3>1, <3>2 DEF SeenIn, SeenOf, MetIn
    <3> QED
      BY <1>1, <1>2, <1>3, <3>2, <3>3
  <2> HIDE DEF M
  <2>3. Latest(M) = w
    BY <1>1, <2>1, <2>2, LatestIs
  <2> QED
    BY <2>1, <2>3 DEF NameIn, M
<1>6. /\ ~Entry(f, w).present => SeenIn(f, w[1], T) = SeenIn(f, w[1], S)
      /\ \A c \in Cpus \ {w[1]} : SeenIn(f, c, T) = SeenIn(f, c, S)
  BY <1>0 DEF SeenIn, SeenOf
<1> QED
  BY <1>3, <1>4, <1>5, <1>6

(* The merged context accounts for the chunk too.                          *)
LEMMA AccountsMerged ==
  ASSUME NEW f, NEW S, NEW w, NEW T, NEW ctx, Merges(f, S, w, T, ctx)
  PROVE  Merge(ctx, f[w]) \in Contexts /\ Accounts(f, T, Merge(ctx, f[w]))
<1> DEFINE next == Merge(ctx, f[w])
<1>1. /\ w \in DOMAIN f /\ w[1] \in Cpus /\ Sound(f) /\ Chunking(f)
      /\ f[w].cpus[w[1]] = Entry(f, w) /\ f[w] \in Contexts /\ ctx \in Contexts
      /\ Accounts(f, S, ctx)
  BY DEF Merges, Chunking, Entry
<1>2. \A c \in Cpus \ {w[1]} : f[w].cpus[c] = NewCpu
  BY <1>1 DEF Sound
<1>3. /\ next \in Contexts
      /\ \A c \in Cpus : next.cpus[c] = MergeCpu(ctx, f[w], c)
      /\ \A t \in AllTids : next.tids[t] = MergeProcess(ctx, f[w], t)
  BY <1>1, MergeBridges, MergeType
<1>4. T \in SUBSET DOMAIN f /\ IsFiniteSet(T) /\ w \in T /\ T \ {w} = S
  BY <1>1, FS_Subset DEF Merges, Chunking
<1>5. ASSUME NEW c
      PROVE  SumFunctionOnSet(CpuPart(f, c), T) = CpuPart(f, c)[w] + SumFunctionOnSet(CpuPart(f, c), S)
  <2>1. \A v \in T : CpuPart(f, c)[v] \in Int
    BY <1>1, <1>4, PartType
  <2> QED
    BY <1>4, <2>1, SumRemove
<1>6. ASSUME NEW t \in AllTids
      PROVE  SumFunctionOnSet(TidPart(f, t), T) = TidPart(f, t)[w] + SumFunctionOnSet(TidPart(f, t), S)
  <2>1. \A v \in T : TidPart(f, t)[v] \in Int
    BY <1>1, <1>4, PartType
  <2> QED
    BY <1>4, <2>1, SumRemove
<1>7. Gap(f, w) \in Nat /\ Entry(f, w).cpu_ns \in Nat /\ \A t \in AllTids : f[w].tids[t].cpu_ns \in Nat
  BY <1>1, PartType, EntryType, CpuFields DEF Process
<1>8. /\ \A c \in Cpus : ctx.cpus[c].cpu_ns \in Nat
      /\ \A t \in AllTids : ctx.tids[t].cpu_ns \in Nat
  BY <1>1 DEF Contexts, Cpu, Process
<1>12. /\ Entry(f, w).present =>
            /\ SeenIn(f, w[1], T) = Earlier(f, w) \cup {w}
            /\ TaskIn(f, SeenIn(f, w[1], T)) = Entry(f, w).currentTask
       /\ ~Entry(f, w).present => SeenIn(f, w[1], T) = SeenIn(f, w[1], S)
       /\ \A c \in Cpus \ {w[1]} : SeenIn(f, c, T) = SeenIn(f, c, S)
       /\ \A t \in AllTids : f[w].tids[t].present /\ Pinned(f, t) =>
            NameIn(f, t, MetIn(f, t, T)) = f[w].tids[t].comm
  BY MergedLast
<1> HIDE DEF next
<1>9. ASSUME NEW c \in Cpus
      PROVE  /\ next.cpus[c].present <=> SeenIn(f, c, T) # {}
             /\ next.cpus[c].currentTask = TaskIn(f, SeenIn(f, c, T))
             /\ next.cpus[c].cpu_ns = SumFunctionOnSet(CpuPart(f, c), T)
  <2>1. /\ ctx.cpus[c].present <=> SeenIn(f, c, S) # {}
        /\ ctx.cpus[c].currentTask = TaskIn(f, SeenIn(f, c, S))
        /\ ctx.cpus[c].cpu_ns = SumFunctionOnSet(CpuPart(f, c), S)
    BY <1>1 DEF Accounts
  <2>2. /\ next.cpus[c].present <=> (ctx.cpus[c].present \/ f[w].cpus[c].present)
        /\ next.cpus[c].cpu_ns =
             ctx.cpus[c].cpu_ns + f[w].cpus[c].cpu_ns + TaskTime(ctx, f[w], c)
        /\ next.cpus[c].currentTask =
             IF ctx.cpus[c].currentTask # None /\ f[w].cpus[c].unknownTask = None
             THEN ctx.cpus[c].currentTask ELSE f[w].cpus[c].currentTask
    <3> DEFINE new == MergeCpu(ctx, f[w], c)
    <3>1. new.present = (ctx.cpus[c].present \/ f[w].cpus[c].present)
      BY DEF MergeCpu
    <3>2. new.cpu_ns = ctx.cpus[c].cpu_ns + f[w].cpus[c].cpu_ns + TaskTime(ctx, f[w], c)
      BY DEF MergeCpu
    <3>3. new.currentTask =
            IF ctx.cpus[c].currentTask # None /\ f[w].cpus[c].unknownTask = None
            THEN ctx.cpus[c].currentTask ELSE f[w].cpus[c].currentTask
      BY DEF MergeCpu, KeepsTask
    <3>4. next.cpus[c] = new
      BY <1>3
    <3> HIDE DEF new
    <3> QED
      BY <3>1, <3>2, <3>3, <3>4
  <2>3. CASE c # w[1]
    <3>1. SeenIn(f, c, T) = SeenIn(f, c, S)
      BY <1>12, <2>3
    <3>2. /\ ~f[w].cpus[c].present /\ f[w].cpus[c].cpu_ns = 0
          /\ f[w].cpus[c].unknownTask = None /\ f[w].cpus[c].currentTask = None
      BY <1>2, <2>3 DEF NewCpu
    <3>3. TaskTime(ctx, f[w], c) = 0
      BY <2>3, MergeBridges
    <3>4. CpuPart(f, c)[w] = 0
      BY <1>1, <2>3 DEF CpuPart
    <3>5. next.cpus[c].cpu_ns = SumFunctionOnSet(CpuPart(f, c), T)
      BY <1>5, <1>8, <2>1, <2>2, <3>2, <3>3, <3>4
    <3> QED
      BY <2>1, <2>2, <3>1, <3>2, <3>5
  <2>4. CASE c = w[1]
    <3>1. next.cpus[c].cpu_ns = SumFunctionOnSet(CpuPart(f, c), T)
      <4>1. TaskTime(ctx, f[w], c) = Gap(f, w)
        BY <2>4, MergeBridges
      <4>2. CpuPart(f, c)[w] = Entry(f, w).cpu_ns + Gap(f, w)
        BY <1>1, <2>4 DEF CpuPart
      <4>3. f[w].cpus[c].cpu_ns = Entry(f, w).cpu_ns
        BY <1>1, <2>4
      <4> QED
        BY <1>5, <1>7, <1>8, <2>1, <2>2, <4>1, <4>2, <4>3
    <3>2. CASE Entry(f, w).present
      <4>1. /\ SeenIn(f, c, T) = Earlier(f, w) \cup {w}
            /\ TaskIn(f, SeenIn(f, c, T)) = Entry(f, w).currentTask
        BY <1>12, <2>4, <3>2
      <4>2. ctx.cpus[c].currentTask = TaskBefore(f, w)
        BY <2>1, <2>4, <3>2 DEF Merges, TaskBefore
      <4>3. TaskBefore(f, w) # None => Entry(f, w).unknownTask # None
        BY <1>1, <3>2 DEF Sound, Meets
      <4> QED
        BY <1>1, <2>2, <2>4, <3>1, <3>2, <4>1, <4>2, <4>3
    <3>3. CASE ~Entry(f, w).present
      <4>1. SeenIn(f, c, T) = SeenIn(f, c, S)
        BY <1>12, <2>4, <3>3
      <4>2. /\ ~f[w].cpus[c].present
            /\ f[w].cpus[c].unknownTask = None /\ f[w].cpus[c].currentTask = None
        BY <1>1, <2>4, <3>3 DEF Sound, NewCpu
      <4> QED
        BY <2>1, <2>2, <3>1, <4>1, <4>2
    <3> QED
      BY <3>2, <3>3
  <2> QED
    BY <2>3, <2>4
<1>10. ASSUME NEW t \in AllTids
       PROVE  /\ next.tids[t].tid = IF next.tids[t].present THEN t ELSE UnknownTid
              /\ next.tids[t].present <=> MetIn(f, t, T) # {}
              /\ next.tids[t].cpu_ns = SumFunctionOnSet(TidPart(f, t), T)
              /\ Pinned(f, t) => next.tids[t].comm = NameIn(f, t, MetIn(f, t, T))
  <2> DEFINE on == CompletedOn(ctx, f[w], t)
             times == [c \in Cpus |-> TaskTime(ctx, f[w], c)]
             charged == IF Entry(f, w).unknownTask # None /\ Entry(f, w).unknownTask.tid = t
                        THEN Gap(f, w) ELSE 0
  <2>1. /\ ctx.tids[t].tid = IF ctx.tids[t].present THEN t ELSE UnknownTid
        /\ ctx.tids[t].present <=> MetIn(f, t, S) # {}
        /\ ctx.tids[t].cpu_ns = SumFunctionOnSet(TidPart(f, t), S)
        /\ Pinned(f, t) => ctx.tids[t].comm = NameIn(f, t, MetIn(f, t, S))
    BY <1>1 DEF Accounts, Entries
  <2>2. /\ next.tids[t].present <=> (ctx.tids[t].present \/ f[w].tids[t].present \/ on # {})
        /\ next.tids[t].cpu_ns =
             ctx.tids[t].cpu_ns + f[w].tids[t].cpu_ns + SumFunctionOnSet(times, on)
        /\ next.tids[t].tid =
             IF ctx.tids[t].present THEN ctx.tids[t].tid ELSE f[w].tids[t].tid
        /\ next.tids[t].comm =
             IF f[w].tids[t].present THEN f[w].tids[t].comm ELSE ctx.tids[t].comm
    <3> DEFINE new == MergeProcess(ctx, f[w], t)
    <3>1. new.present = (ctx.tids[t].present \/ f[w].tids[t].present \/ on # {})
      BY DEF MergeProcess
    <3>2. new.cpu_ns = ctx.tids[t].cpu_ns + f[w].tids[t].cpu_ns + SumFunctionOnSet(times, on)
      BY DEF MergeProcess
    <3>3. /\ new.tid = IF ctx.tids[t].present THEN ctx.tids[t].tid ELSE f[w].tids[t].tid
          /\ new.comm =
               IF f[w].tids[t].present THEN f[w].tids[t].comm ELSE ctx.tids[t].comm
      BY DEF MergeProcess, MergedName
    <3>4. next.tids[t] = new
      BY <1>3
    <3> HIDE DEF new, times, on
    <3> QED
      BY <3>1, <3>2, <3>3, <3>4
  <2>3. on = {c \in {w[1]} : /\ ctx.cpus[w[1]].currentTask # None
                             /\ Entry(f, w).unknownTask # None
                             /\ Entry(f, w).unknownTask.tid = t}
    BY MergeBridges
  <2> HIDE DEF on, times
  <2>4. on # {} => f[w].tids[t].present
    BY <1>1, <2>3 DEF Sound
  <2>5. SumFunctionOnSet(times, on) = charged
    <3>1. times[w[1]] = Gap(f, w)
      BY <1>1, MergeBridges DEF times
    <3>2. CASE on = {}
      <4>1. charged = 0
        <5>1. Entry(f, w).unknownTask # None /\ ctx.cpus[w[1]].currentTask = None => Gap(f, w) = 0
          <6>1. TaskTime(ctx, f[w], w[1]) = Gap(f, w)
            BY MergeBridges
          <6> QED
            BY <6>1 DEF TaskTime, Continued
        <5> QED
          BY <2>3, <3>2, <5>1
      <4> QED
        BY <3>2, <4>1, SumOfNone
    <3>3. CASE on # {}
      <4>1. on = {w[1]} /\ charged = Gap(f, w)
        BY <2>3, <3>3
      <4>2. times[w[1]] \in Int
        BY <1>7, <3>1
      <4>3. SumFunctionOnSet(times, {w[1]}) = times[w[1]]
        BY <4>2, SumOfOne
      <4> QED
        BY <3>1, <4>1, <4>3
    <3> QED
      BY <3>2, <3>3
  <2>6. charged \in Nat /\ TidPart(f, t)[w] = f[w].tids[t].cpu_ns + charged
    BY <1>1, <1>7 DEF TidPart
  <2> HIDE DEF charged
  <2>7. next.tids[t].cpu_ns = SumFunctionOnSet(TidPart(f, t), T)
    BY <1>6, <1>7, <1>8, <2>1, <2>2, <2>5, <2>6
  <2>8. f[w].tids[t].tid = IF f[w].tids[t].present THEN t ELSE UnknownTid
    BY <1>1 DEF Sound, Entries
  <2>9. next.tids[t].present <=> ctx.tids[t].present \/ f[w].tids[t].present
    BY <2>2, <2>4
  <2>10. MetIn(f, t, T) = IF f[w].tids[t].present THEN (MetIn(f, t, S)) \cup {w} ELSE MetIn(f, t, S)
    BY <1>1 DEF Met, MetIn, Merges
  <2>11. next.tids[t].present <=> MetIn(f, t, T) # {}
    BY <2>1, <2>9, <2>10
  <2>12. ASSUME Pinned(f, t)
         PROVE  next.tids[t].comm = NameIn(f, t, MetIn(f, t, T))
    <3>1. CASE f[w].tids[t].present
      BY <1>12, <2>2, <2>12, <3>1
    <3>2. CASE ~f[w].tids[t].present
      BY <2>1, <2>2, <2>10, <2>12, <3>2
    <3> QED
      BY <3>1, <3>2
  <2> QED
    BY <2>1, <2>2, <2>7, <2>8, <2>9, <2>11, <2>12
<1>11. Accounts(f, T, next)
  BY <1>9, <1>10 DEF Accounts, Entries
<1> QED
  BY <1>3, <1>11 DEF next

-------------------------------------------------------------------------------
(* Two contexts that account for the same chunks and end at the same time  *)
(* report the same.                                                        *)
LEMMA EndAgrees ==
  ASSUME NEW f, NEW S, NEW a \in Contexts, NEW b \in Contexts,
         Accounts(f, S, a), Accounts(f, S, b), a.end = b.end
  PROVE  LET p == PatchEndTasks(a)
             q == PatchEndTasks(b)
         IN  /\ \A c \in Cpus : /\ p.cpus[c].present = q.cpus[c].present
                                /\ p.cpus[c].cpu_ns = q.cpus[c].cpu_ns
             /\ \A t \in AllTids : /\ p.tids[t].present = q.tids[t].present
                                   /\ p.tids[t].cpu_ns = q.tids[t].cpu_ns
                                   /\ p.tids[t].tid = q.tids[t].tid
                                   /\ Pinned(f, t) => p.tids[t].comm = q.tids[t].comm
<1> DEFINE p == PatchEndTasks(a)
           q == PatchEndTasks(b)
<1>1. /\ \A c \in Cpus : a.cpus[c].present \in BOOLEAN /\ b.cpus[c].present \in BOOLEAN
      /\ \A t \in AllTids : a.tids[t].present \in BOOLEAN /\ b.tids[t].present \in BOOLEAN
  BY DEF Contexts, Cpu, Process
<1>2. \A c \in Cpus : /\ a.cpus[c].present = b.cpus[c].present
                      /\ a.cpus[c].currentTask = b.cpus[c].currentTask
                      /\ a.cpus[c].cpu_ns = b.cpus[c].cpu_ns
  BY <1>1 DEF Accounts
<1>3. \A t \in AllTids : /\ a.tids[t].present = b.tids[t].present
                         /\ a.tids[t].cpu_ns = b.tids[t].cpu_ns
                         /\ a.tids[t].tid = b.tids[t].tid
                         /\ Pinned(f, t) => a.tids[t].comm = b.tids[t].comm
  BY <1>1 DEF Accounts, Entries
<1>4. /\ \A c \in Cpus : p.cpus[c] = EndCpu(a.cpus[c], a.end) /\ q.cpus[c] = EndCpu(b.cpus[c], a.end)
      /\ \A t \in AllTids : p.tids[t] = EndProcess(a, t) /\ q.tids[t] = EndProcess(b, t)
  BY DEF PatchEndTasks
<1> HIDE DEF p, q
<1>5. \A c \in Cpus : Ran(a.cpus[c], a.end) = Ran(b.cpus[c], a.end)
  BY <1>2 DEF Ran
<1>6. ASSUME NEW c \in Cpus
      PROVE  p.cpus[c].present = q.cpus[c].present /\ p.cpus[c].cpu_ns = q.cpus[c].cpu_ns
  <2> DEFINE x == EndCpu(a.cpus[c], a.end)
             y == EndCpu(b.cpus[c], a.end)
  <2>1. x.present = a.cpus[c].present /\ y.present = b.cpus[c].present
    BY DEF EndCpu
  <2>2. /\ x.cpu_ns = a.cpus[c].cpu_ns + Ran(a.cpus[c], a.end)
        /\ y.cpu_ns = b.cpus[c].cpu_ns + Ran(b.cpus[c], a.end)
    BY DEF EndCpu
  <2>3. p.cpus[c] = x /\ q.cpus[c] = y
    BY <1>4
  <2> HIDE DEF x, y
  <2> QED
    BY <1>2, <1>5, <2>1, <2>2, <2>3
<1>7. ASSUME NEW t \in AllTids
      PROVE  /\ p.tids[t].present = q.tids[t].present
             /\ p.tids[t].cpu_ns = q.tids[t].cpu_ns
             /\ p.tids[t].tid = q.tids[t].tid
             /\ Pinned(f, t) => p.tids[t].comm = q.tids[t].comm
  <2> DEFINE on == StillRunning(a, t)
             lastA == [c \in Cpus |-> Ran(a.cpus[c], a.end)]
             lastB == [c \in Cpus |-> Ran(b.cpus[c], b.end)]
  <2>1. on = StillRunning(b, t)
    BY <1>2 DEF StillRunning
  <2>2. lastA = lastB
    BY <1>5
  <2> DEFINE x == EndProcess(a, t)
             y == EndProcess(b, t)
  <2>3. /\ x.present = (a.tids[t].present \/ StillRunning(a, t) # {})
        /\ y.present = (b.tids[t].present \/ StillRunning(b, t) # {})
    BY DEF EndProcess
  <2>4. /\ x.cpu_ns = a.tids[t].cpu_ns + SumFunctionOnSet(lastA, StillRunning(a, t))
        /\ y.cpu_ns = b.tids[t].cpu_ns + SumFunctionOnSet(lastB, StillRunning(b, t))
    BY DEF EndProcess
  <2>5. /\ x.tid = a.tids[t].tid /\ y.tid = b.tids[t].tid
        /\ x.comm = a.tids[t].comm /\ y.comm = b.tids[t].comm
    BY DEF EndProcess
  <2>6. p.tids[t] = x /\ q.tids[t] = y
    BY <1>4
  <2> HIDE DEF on, lastA, lastB, x, y
  <2>7. x.present = y.present
    BY <1>3, <2>1, <2>3 DEF on
  <2>8. x.cpu_ns = y.cpu_ns
    BY <1>3, <2>1, <2>2, <2>4 DEF on
  <2> QED
    BY <1>3, <2>5, <2>6, <2>7, <2>8
<1> QED
  BY <1>6, <1>7 DEF p, q

-------------------------------------------------------------------------------
(* The invariant.                                                          *)

(* Where a chunk begins and ends.                                          *)
ChunkBegin(c, i) == IF i = 1 THEN span[c][1] ELSE cuts[c][i - 1] + 1
ChunkEnd(c, i)   == IF i = Len(cuts[c]) + 1 THEN span[c][2] ELSE cuts[c][i]

(* Streams lie in the trace, one begins and one ends with it, and they are *)
(* cut at ascending positions.                                             *)
Cutting ==
  /\ \A c \in Cpus : span[c][1] \in Times /\ span[c][2] \in Times
  /\ \E c \in Cpus : span[c][1] = TraceBegin
  /\ \E c \in Cpus : span[c][2] = TraceEnd
  /\ \A c \in Cpus :
       /\ Len(cuts[c]) \in 0 .. MaxCuts
       /\ \A i \in 1 .. Len(cuts[c]) : cuts[c][i] \in Times
       /\ \A i, j \in 1 .. Len(cuts[c]) : i < j => cuts[c][i] <= cuts[c][j]

(* Every chunk keeps its bounds.                                           *)
Working ==
  /\ work = [c \in Cpus |-> work[c]]
  /\ \A c \in Cpus :
       /\ work[c] = [i \in Chunks(c) |-> work[c][i]]
       /\ \A i \in Chunks(c) : /\ work[c][i] \in Contexts
                               /\ work[c][i].start = ChunkBegin(c, i)
                               /\ work[c][i].end = ChunkEnd(c, i)

(* A chunk that has seen its CPU has begun.                                *)
Timely ==
  \A v \in AllChunks : Entry(Chunked, v).present =>
    Chunked[v].start <= now /\ Chunked[v].start <= Chunked[v].end

(* The serial analysis knows the task a CPU runs, or that it is idle.      *)
Knows ==
  \A c \in Cpus :
    /\ data.cpus[c].currentTask # None =>
         /\ data.cpus[c].currentTask.tid = running[c]
         /\ data.cpus[c].currentTask.start <= now
    /\ data.cpus[c].present /\ data.cpus[c].currentTask = None => running[c] = Idle

Merged == AllChunks \ left

(* No chunk that knows something is left behind by a later one.            *)
InOrder ==
  \A v \in Merged, u \in AllChunks :
    u[1] = v[1] /\ u[2] < v[2] /\ Entry(Chunked, u).present => u \in Merged

(* The final context spans what is merged.                                 *)
SpansMerged ==
  /\ Merged = {} => final.start = 0 /\ final.end = 0
  /\ Merged # {} =>
       /\ \E v \in Merged : final.start = Chunked[v].start
       /\ \E v \in Merged : final.end = Chunked[v].end
       /\ \A v \in Merged : final.start <= Chunked[v].start /\ Chunked[v].end <= final.end

(* Until the end both contexts account for their chunks.                   *)
Accounting ==
  /\ data \in Contexts /\ Accounts(Chunked, AllChunks, data)
  /\ final \in Contexts /\ Accounts(Chunked, Merged, final)
  /\ Merged = {} => final = EmptyContext
  /\ data.start = TraceBegin /\ data.end = TraceEnd

Types ==
  /\ now \in Times
  /\ running \in [Cpus -> AllTids]
  /\ left \in SUBSET AllChunks
  /\ ended \in BOOLEAN

(* The inductive invariant.  What the reports say of each other is part of *)
(* it because the contexts account for the chunks only until doEnd.        *)
Inv ==
  /\ Types /\ Cutting /\ Working
  /\ Sound(Chunked) /\ Timely
  /\ ended => left = {}
  /\ ~ended => Accounting /\ Knows /\ InOrder /\ SpansMerged
  /\ SameTimes /\ SameSpan /\ PinnedSameNames

-------------------------------------------------------------------------------
(* The chunks of a CPU lie in the trace, follow each other, and together   *)
(* have a place for every time of the stream.                              *)
LEMMA ChunkBounds ==
  ASSUME Cutting, NEW c \in Cpus
  PROVE  /\ \A i \in Chunks(c) :
              /\ i \in Nat /\ 1 <= i /\ i <= MaxCuts + 1
              /\ ChunkBegin(c, i) \in Nat /\ TraceBegin <= ChunkBegin(c, i)
              /\ ChunkEnd(c, i) \in Nat /\ ChunkEnd(c, i) <= TraceEnd
              /\ BeginPos(c, i) = IF i = 1 THEN None ELSE ChunkBegin(c, i)
              /\ i # 1 => BeginPos(c, i) # None
              /\ NewWork(c, i) = NewContext(ChunkBegin(c, i), ChunkEnd(c, i))
         /\ \A i, j \in Chunks(c) : i < j => ChunkEnd(c, i) < ChunkBegin(c, j)
         /\ 1 \in Chunks(c) /\ ChunkBegin(c, 1) = span[c][1]
         /\ \E i \in Chunks(c) : ChunkEnd(c, i) = span[c][2]
<1> DEFINE n == Len(cuts[c])
<1>1. /\ n \in Nat /\ n <= MaxCuts /\ MaxCuts \in Nat
      /\ \A i \in 1 .. n : cuts[c][i] \in Times
      /\ \A i, j \in 1 .. n : i < j => cuts[c][i] <= cuts[c][j]
      /\ span[c][1] \in Times /\ span[c][2] \in Times
  BY CpuBalancedAssumption DEF Cutting
<1>2. \A p \in Times : p \in Nat /\ TraceBegin <= p /\ p <= TraceEnd
  BY TracedSystemAssumption DEF Times
<1>3. \A p \in Nat : p # None
  BY CpuContextAssumption
<1>4. \A i \in Chunks(c) : i \in Nat /\ 1 <= i /\ i <= n + 1
  BY <1>1 DEF Chunks
<1>5. ChunkEnd(c, n + 1) = span[c][2] /\ 1 \in Chunks(c) /\ n + 1 \in Chunks(c)
      /\ ChunkBegin(c, 1) = span[c][1]
  BY <1>1 DEF ChunkEnd, Chunks, ChunkBegin
<1>6. ASSUME NEW i \in Chunks(c)
      PROVE  /\ i # 1 => ChunkBegin(c, i) = cuts[c][i - 1] + 1 /\ cuts[c][i - 1] \in Times
             /\ i # n + 1 => ChunkEnd(c, i) = cuts[c][i] /\ cuts[c][i] \in Times
             /\ i = 1 => ChunkBegin(c, i) = span[c][1]
             /\ i = n + 1 => ChunkEnd(c, i) = span[c][2]
  <2>1. i # 1 => i - 1 \in 1 .. n
    BY <1>1, <1>4
  <2>2. i # n + 1 => i \in 1 .. n
    BY <1>1, <1>4
  <2> QED
    BY <1>1, <2>1, <2>2 DEF ChunkBegin, ChunkEnd
<1> HIDE DEF n
<1>7. ASSUME NEW i \in Chunks(c)
      PROVE  /\ ChunkBegin(c, i) \in Nat /\ TraceBegin <= ChunkBegin(c, i)
             /\ ChunkEnd(c, i) \in Nat /\ ChunkEnd(c, i) <= TraceEnd
  <2>1. TraceBegin \in Nat
    BY TracedSystemAssumption
  <2>2. i = 1 \/ i # 1
    OBVIOUS
  <2> QED
    BY <1>1, <1>2, <1>6, <2>1, <2>2
<1>8. ASSUME NEW i \in Chunks(c)
      PROVE  /\ BeginPos(c, i) = IF i = 1 THEN None ELSE ChunkBegin(c, i)
             /\ i # 1 => BeginPos(c, i) # None
             /\ NewWork(c, i) = NewContext(ChunkBegin(c, i), ChunkEnd(c, i))
  <2>1. /\ BeginPos(c, i) = IF i = 1 THEN None ELSE ChunkBegin(c, i)
        /\ EndPos(c, i) = IF i = n + 1 THEN None ELSE ChunkEnd(c, i)
    BY DEF BeginPos, EndPos, ChunkBegin, ChunkEnd, n
  <2>2. /\ i # 1 => BeginPos(c, i) # None
        /\ i # n + 1 => EndPos(c, i) # None
    BY <1>3, <1>7, <2>1
  <2>3. /\ (IF BeginPos(c, i) = None THEN span[c][1] ELSE BeginPos(c, i)) = ChunkBegin(c, i)
        /\ (IF EndPos(c, i) = None THEN span[c][2] ELSE EndPos(c, i)) = ChunkEnd(c, i)
    BY <1>6, <2>1, <2>2
  <2> QED
    BY <2>1, <2>2, <2>3 DEF NewWork
<1>9. ASSUME NEW i \in Chunks(c), NEW j \in Chunks(c), i < j
      PROVE  ChunkEnd(c, i) < ChunkBegin(c, j)
  <2>1. /\ i # n + 1 /\ j # 1 /\ i \in 1 .. n /\ j - 1 \in 1 .. n
        /\ (i = j - 1 \/ i < j - 1)
    BY <1>1, <1>4, <1>9
  <2>2. cuts[c][i] \in Nat /\ cuts[c][j - 1] \in Nat
    BY <1>1, <1>2, <2>1
  <2>3. cuts[c][i] <= cuts[c][j - 1]
    BY <1>1, <2>1, <2>2 DEF n
  <2> QED
    BY <1>6, <2>1, <2>2, <2>3
<1> QED
  BY <1>1, <1>4, <1>5, <1>7, <1>8, <1>9

(* Every time a stream spans lies in one of its chunks.                    *)
LEMMA Covered ==
  ASSUME Cutting, NEW c \in Cpus, NEW ts \in span[c][1] .. span[c][2]
  PROVE  \E i \in Chunks(c) : ts \in ChunkBegin(c, i) .. ChunkEnd(c, i)
<1> DEFINE late == {i \in Chunks(c) : ts <= ChunkEnd(c, i)}
<1>1. span[c][1] \in Nat /\ span[c][2] \in Nat /\ ts \in Nat /\ span[c][1] <= ts /\ ts <= span[c][2]
  BY TracedSystemAssumption DEF Cutting, Times
<1>2. \A i \in Chunks(c) : /\ i \in Nat /\ 1 <= i
                           /\ ChunkBegin(c, i) \in Nat /\ ChunkEnd(c, i) \in Nat
  BY ChunkBounds
<1>3. late \in SUBSET Nat /\ late # {}
  BY <1>1, <1>2, ChunkBounds
<1> HIDE DEF late
<1>4. PICK i \in late : \A j \in late : i <= j
  BY <1>3, SmallestNat
<1>5. i \in Chunks(c) /\ ts <= ChunkEnd(c, i)
  BY <1>4 DEF late
<1>6. ChunkBegin(c, i) <= ts
  <2>1. CASE i = 1
    BY <1>1, <2>1 DEF ChunkBegin
  <2>2. CASE i # 1
    <3>1. /\ Len(cuts[c]) \in Nat /\ i - 1 \in Chunks(c) /\ i - 1 # Len(cuts[c]) + 1
          /\ i \in Nat /\ i - 1 \notin late
      BY <1>2, <1>4, <1>5, <2>2 DEF Chunks, Cutting
    <3>2. ~(ts <= ChunkEnd(c, i - 1))
      BY <3>1 DEF late
    <3>3. ChunkBegin(c, i) = ChunkEnd(c, i - 1) + 1
      BY <2>2, <3>1 DEF ChunkBegin, ChunkEnd
    <3> QED
      BY <1>1, <1>2, <3>1, <3>2, <3>3
  <2> QED
    BY <2>1, <2>2
<1> QED
  BY <1>1, <1>2, <1>5, <1>6

(* The contexts by CPU and number are those of the workers.                *)
LEMMA ChunkedIs ==
  ASSUME Cutting, Working
  PROVE  /\ Chunking(Chunked) /\ DOMAIN Chunked = AllChunks
         /\ \A c \in Cpus : \A i \in Chunks(c) :
              <<c, i>> \in AllChunks /\ Chunked[<<c, i>>] = work[c][i]
         /\ \A v \in AllChunks :
              /\ v = <<v[1], v[2]>> /\ v[1] \in Cpus /\ v[2] \in Chunks(v[1])
              /\ Chunked[v] = work[v[1]][v[2]]
              /\ Chunked[v].start = ChunkBegin(v[1], v[2])
              /\ Chunked[v].end = ChunkEnd(v[1], v[2])
<1>1. \A c \in Cpus : \A i \in Chunks(c) : i \in Nat /\ 1 <= i /\ i <= MaxCuts + 1
  BY ChunkBounds
<1>2. DOMAIN Chunked = AllChunks /\ \A v \in AllChunks : Chunked[v] = work[v[1]][v[2]]
  BY DEF Chunked
<1>3. \A v \in AllChunks : v = <<v[1], v[2]>> /\ v[1] \in Cpus /\ v[2] \in Chunks(v[1])
  BY DEF AllChunks
<1>4. \A c \in Cpus : \A i \in Chunks(c) : <<c, i>> \in AllChunks
  BY <1>1, CpuBalancedAssumption DEF AllChunks
<1>5. IsFiniteSet(AllChunks)
  <2>1. IsFiniteSet(1 .. MaxCuts + 1)
    BY CpuBalancedAssumption, FS_Interval
  <2>2. IsFiniteSet(Cpus \X (1 .. MaxCuts + 1))
    BY <2>1, FiniteSystem, FS_Product
  <2>3. AllChunks \in SUBSET (Cpus \X (1 .. MaxCuts + 1))
    BY DEF AllChunks
  <2> QED
    BY <2>2, <2>3, FS_Subset
<1>6. \A v \in AllChunks : /\ Chunked[v] \in Contexts
                           /\ Chunked[v].start = ChunkBegin(v[1], v[2])
                           /\ Chunked[v].end = ChunkEnd(v[1], v[2])
  BY <1>2, <1>3 DEF Working
<1>7. Chunking(Chunked)
  BY <1>1, <1>2, <1>3, <1>5, <1>6 DEF Chunking
<1> QED
  BY <1>2, <1>3, <1>4, <1>6, <1>7

(* The event of a CPU belongs to one of its chunks.                        *)
LEMMA ChunkAtIs ==
  ASSUME Cutting, Working, NEW c \in Cpus, NEW ts \in span[c][1] .. span[c][2]
  PROVE  /\ ChunkAt(c, ts) \in Chunks(c)
         /\ ts \in ChunkBegin(c, ChunkAt(c, ts)) .. ChunkEnd(c, ChunkAt(c, ts))
<1>1. \A i \in Chunks(c) : work[c][i].start = ChunkBegin(c, i) /\ work[c][i].end = ChunkEnd(c, i)
  BY DEF Working
<1>2. \E i \in Chunks(c) : ts \in work[c][i].start .. work[c][i].end
  BY <1>1, Covered
<1>3. /\ ChunkAt(c, ts) \in Chunks(c)
      /\ ts \in work[c][ChunkAt(c, ts)].start .. work[c][ChunkAt(c, ts)].end
  BY <1>2 DEF ChunkAt
<1> QED
  BY <1>1, <1>3

-------------------------------------------------------------------------------
(* At first nobody has seen anything.                                      *)
LEMMA InitCutting == Init => Cutting /\ Working
<1> SUFFICES ASSUME Init PROVE Cutting /\ Working
  OBVIOUS
<1>1. /\ \A c \in Cpus : span[c][1] \in Times /\ span[c][2] \in Times
      /\ \E c \in Cpus : span[c][1] = TraceBegin
      /\ \E c \in Cpus : span[c][2] = TraceEnd
  BY DEF Init, Spans
<1>2. ASSUME NEW c \in Cpus
      PROVE  /\ Len(cuts[c]) \in 0 .. MaxCuts
             /\ \A i \in 1 .. Len(cuts[c]) : cuts[c][i] \in Times
             /\ \A i, j \in 1 .. Len(cuts[c]) : i < j => cuts[c][i] <= cuts[c][j]
  <2>1. cuts[c] \in CutLists
    BY DEF Init
  <2>2. PICK n \in 0 .. MaxCuts : cuts[c] \in [1 .. n -> Times]
    BY <2>1 DEF CutLists
  <2>3. \A i, j \in 1 .. Len(cuts[c]) : i < j => cuts[c][i] <= cuts[c][j]
    BY <2>1 DEF CutLists, IsSorted
  <2>4. Len(cuts[c]) = n
    BY <2>2, CpuBalancedAssumption
  <2> QED
    BY <2>2, <2>3, <2>4
<1>3. Cutting
  BY <1>1, <1>2 DEF Cutting
<1>4. work = [c \in Cpus |-> [i \in Chunks(c) |-> NewWork(c, i)]]
  BY DEF Init
<1>5. ASSUME NEW c \in Cpus, NEW i \in Chunks(c)
      PROVE  /\ work[c][i] \in Contexts
             /\ work[c][i].start = ChunkBegin(c, i)
             /\ work[c][i].end = ChunkEnd(c, i)
  <2>1. work[c][i] = NewWork(c, i)
    BY <1>4
  <2>2. /\ ChunkBegin(c, i) \in Nat /\ ChunkEnd(c, i) \in Nat
        /\ NewWork(c, i) = NewContext(ChunkBegin(c, i), ChunkEnd(c, i))
    BY <1>3, ChunkBounds
  <2> QED
    BY <2>1, <2>2, NewContextType
<1>6. \A c \in Cpus : work[c] = [i \in Chunks(c) |-> work[c][i]]
  BY <1>4
<1>7. work = [c \in Cpus |-> work[c]]
  BY <1>4
<1> QED
  BY <1>3, <1>5, <1>6, <1>7 DEF Working

(* At first no chunk has seen anything.                                    *)
LEMMA InitNew ==
  ASSUME Init, NEW v \in AllChunks
  PROVE  /\ \A c \in Cpus : Chunked[v].cpus[c] = NewCpu
         /\ \A t \in AllTids : Chunked[v].tids[t] = NewProcess
<1>1. Cutting /\ Working
  BY InitCutting
<1>2. v[1] \in Cpus /\ v[2] \in Chunks(v[1]) /\ Chunked[v] = work[v[1]][v[2]]
  BY <1>1, ChunkedIs
<1>3. work[v[1]][v[2]] = NewWork(v[1], v[2])
  BY <1>2 DEF Init
<1>4. /\ ChunkBegin(v[1], v[2]) \in Nat /\ ChunkEnd(v[1], v[2]) \in Nat
      /\ NewWork(v[1], v[2]) = NewContext(ChunkBegin(v[1], v[2]), ChunkEnd(v[1], v[2]))
  BY <1>1, <1>2, ChunkBounds
<1> QED
  BY <1>2, <1>3, <1>4, NewContextType

(* The serial analysis is written with the same handlers.                  *)
LEMMA SerialInitIs ==
  Serial!Init => TraceInit /\ data = NewContext(TraceBegin, TraceEnd) /\ ended = FALSE
BY DEF Serial!Init, Serial!NewContext, Serial!NewCpu, Serial!NewProcess, Serial!AllTids,
       NewContext, NewCpu, NewProcess, AllTids, TraceInit, Serial!TraceInit,
       RunsElsewhere, Serial!RunsElsewhere

(* The invariant holds in the beginning,                                   *)
LEMMA InitInv == Init => Inv
<1> SUFFICES ASSUME Init PROVE Inv
  OBVIOUS
<1>1. Cutting /\ Working
  BY InitCutting
<1>2. Chunking(Chunked) /\ DOMAIN Chunked = AllChunks
  BY <1>1, ChunkedIs
<1>3. \A v \in AllChunks :
        /\ v[1] \in Cpus
        /\ \A c \in Cpus : Chunked[v].cpus[c] = NewCpu
        /\ \A t \in AllTids : Chunked[v].tids[t] = NewProcess
  BY <1>1, ChunkedIs, InitNew
<1>4. \A v \in AllChunks :
        /\ Entry(Chunked, v) = NewCpu
        /\ \A t \in AllTids : /\ ~Chunked[v].tids[t].present
                              /\ Chunked[v].tids[t].cpu_ns = 0
                              /\ Chunked[v].tids[t].tid = UnknownTid
  BY <1>3 DEF Entry, NewProcess
<1>5. NewCpu.present = FALSE /\ NewCpu.unknownTask = None /\ NewCpu.currentTask = None
  BY DEF NewCpu
<1>6. Sound(Chunked)
  BY <1>2, <1>3, <1>4, <1>5 DEF Sound, Entries, Meets
<1>7. Timely
  BY <1>4, <1>5 DEF Timely
<1>8. /\ TraceInit /\ data = NewContext(TraceBegin, TraceEnd) /\ ended = FALSE
      /\ left = AllChunks /\ final = NewContext(0, 0)
      /\ TraceBegin \in Nat /\ TraceEnd \in Nat /\ TraceBegin <= TraceEnd
  BY SerialInitIs, TracedSystemAssumption DEF Init, EmptyContext
<1>9. Types
  <2>1. now = TraceBegin /\ running \in [Cpus -> AllTids]
    BY <1>8 DEF TraceInit
  <2>2. ended \in BOOLEAN
    BY <1>8, Zenon
  <2> QED
    BY <1>8, <2>1, <2>2 DEF Types, Times
<1>10. Merged = {}
  BY <1>8 DEF Merged
<1>11. Accounting
  <2>1. data \in Contexts /\ Accounts(Chunked, AllChunks, data)
    <3>1. AllChunks \in SUBSET DOMAIN Chunked
      BY <1>2
    <3> QED
      BY <1>2, <1>4, <1>8, <3>1, AccountsNothing
  <2>2. final \in Contexts /\ Accounts(Chunked, Merged, final)
    BY <1>2, <1>8, <1>10, AccountsNothing
  <2>3. data.start = TraceBegin /\ data.end = TraceEnd
    BY <1>8, NewContextType
  <2> QED
    BY <1>8, <2>1, <2>2, <2>3 DEF Accounting, EmptyContext
<1>12. Knows
  <2>1. \A c \in Cpus : data.cpus[c] = NewCpu
    BY <1>8, NewContextType
  <2> QED
    BY <1>5, <2>1 DEF Knows
<1>13. InOrder
  BY <1>10 DEF InOrder
<1>14. SpansMerged
  BY <1>8, <1>10, NewContextType DEF SpansMerged
<1>15. ~ended
  BY <1>8, Zenon
<1> QED
  BY <1>1, <1>6, <1>7, <1>9, <1>11, <1>12, <1>13, <1>14, <1>15
     DEF Inv, SameTimes, SameSpan, PinnedSameNames

-------------------------------------------------------------------------------
(* A switch.                                                               *)
LEMMA SerialEventIs ==
  ASSUME NEW c \in Cpus, NEW next \in AllTids, NEW comm \in Comms, NEW ts,
         Serial!Event(c, next, comm, ts)
  PROVE  /\ ~ended /\ ended' = ended /\ Switch(c, next, ts)
         /\ data' = HandleSchedSwitch(data, SwitchEvent(c, next, comm, ts))
<1>1. Serial!SwitchEvent(c, next, comm, ts) = SwitchEvent(c, next, comm, ts)
  BY DEF SwitchEvent, Serial!SwitchEvent
<1>2. ASSUME NEW e
      PROVE  Serial!HandleSchedSwitch(data, e) = HandleSchedSwitch(data, e)
  BY DEF HandleSchedSwitch, SwitchCpu, SwitchProcess, NextTask, Ran, Serial!HandleSchedSwitch,
         Serial!SwitchCpu, Serial!SwitchProcess, Serial!NextTask, Serial!Ran
<1> QED
  BY <1>1, <1>2 DEF Serial!Event, Serial!Switch, Serial!RunsElsewhere, Serial!AllTids,
                    Switch, RunsElsewhere, AllTids

(* It is handled by the chunk it belongs to.                               *)
LEMMA EventHandled ==
  ASSUME Inv, NEW c \in Cpus, NEW next \in AllTids, NEW comm \in Comms,
         NEW ts \in now .. TraceEnd, Event(c, next, comm, ts)
  PROVE  LET w == <<c, ChunkAt(c, ts)>>
             e == SwitchEvent(c, next, comm, ts)
         IN  /\ w \in AllChunks
             /\ Handles(Chunked, w, e, data, Chunked')
             /\ Working' /\ AllChunks' = AllChunks
             /\ Chunked[w].start <= ts /\ ts <= Chunked[w].end
             /\ now <= ts /\ ts \in Times
<1> DEFINE i == ChunkAt(c, ts)
           w == <<c, i>>
           e == SwitchEvent(c, next, comm, ts)
<1>1. /\ Cutting /\ Working /\ Sound(Chunked) /\ Timely /\ now \in Times
      /\ running \in [Cpus -> AllTids]
  BY DEF Inv, Types
<1>2. /\ ~ended /\ Switch(c, next, ts) /\ data' = HandleSchedSwitch(data, e)
      /\ work' = [work EXCEPT ![c][i] = HandleSchedSwitch(work[c][i], e)]
      /\ span' = span /\ cuts' = cuts /\ ts \in span[c][1] .. span[c][2]
  BY SerialEventIs DEF Event
<1>3. Accounting /\ Knows
  BY <1>2 DEF Inv
<1>4. /\ now \in Nat /\ TraceBegin \in Nat /\ TraceEnd \in Nat /\ ts \in Nat
      /\ TraceBegin <= now /\ now <= ts /\ ts <= TraceEnd /\ ts \in Times
  BY <1>1, TracedSystemAssumption DEF Times
<1>5. /\ Chunking(Chunked) /\ DOMAIN Chunked = AllChunks
      /\ i \in Chunks(c) /\ w \in AllChunks /\ Chunked[w] = work[c][i]
      /\ Chunked[w].start <= ts /\ ts <= Chunked[w].end
      /\ ChunkEnd(c, i) \in Nat /\ i \in Nat /\ ts <= ChunkEnd(c, i)
  <2>1. i \in Chunks(c) /\ ts \in ChunkBegin(c, i) .. ChunkEnd(c, i)
    BY <1>1, <1>2, ChunkAtIs
  <2>2. w \in AllChunks /\ Chunked[w] = work[c][i]
    BY <1>1, <2>1, ChunkedIs
  <2>3. Chunked[w].start = ChunkBegin(c, i) /\ Chunked[w].end = ChunkEnd(c, i)
    BY <1>1, <2>1, <2>2 DEF Working
  <2>4. ChunkBegin(c, i) \in Nat /\ ChunkEnd(c, i) \in Nat /\ i \in Nat
    BY <1>1, <2>1, ChunkBounds
  <2>5. ChunkBegin(c, i) <= ts /\ ts <= ChunkEnd(c, i)
    BY <1>4, <2>1, <2>4
  <2>6. Chunking(Chunked) /\ DOMAIN Chunked = AllChunks
    BY <1>1, ChunkedIs
  <2> QED
    BY <2>1, <2>2, <2>3, <2>4, <2>5, <2>6
<1>6. /\ e \in Events /\ e.cpu_id = c /\ e.timestamp = ts
      /\ e.prev_tid = running[c]
  BY <1>1, <1>4 DEF SwitchEvent, Events
<1> HIDE DEF i, e
<1>7. AllChunks' = AllChunks
  BY <1>2 DEF AllChunks, Chunks
<1>8. /\ work'[c] = [work[c] EXCEPT ![i] = HandleSchedSwitch(work[c][i], e)]
      /\ \A d \in Cpus \ {c} : work'[d] = work[d]
      /\ work' = [d \in Cpus |-> work'[d]]
  BY <1>1, <1>2 DEF Working
<1>9. /\ work'[c][i] = HandleSchedSwitch(work[c][i], e)
      /\ \A j \in Chunks(c) \ {i} : work'[c][j] = work[c][j]
      /\ work'[c] = [j \in Chunks(c) |-> work'[c][j]]
  BY <1>1, <1>5, <1>8 DEF Working
<1>10. Chunked' = After(Chunked, w, e)
  <2>1. Chunked' = [v \in AllChunks |-> work'[v[1]][v[2]]]
    BY <1>7 DEF Chunked
  <2>2. ASSUME NEW v \in AllChunks
        PROVE  work'[v[1]][v[2]] = IF v = w THEN HandleSchedSwitch(Chunked[w], e) ELSE Chunked[v]
    <3>1. /\ v = <<v[1], v[2]>> /\ v[1] \in Cpus /\ v[2] \in Chunks(v[1])
          /\ Chunked[v] = work[v[1]][v[2]]
      BY <1>1, ChunkedIs
    <3>2. CASE v[1] # c
      BY <1>8, <3>1, <3>2
    <3>3. CASE v[1] = c /\ v[2] # i
      BY <1>9, <3>1, <3>3
    <3>4. CASE v[1] = c /\ v[2] = i
      BY <1>5, <1>9, <3>1, <3>4
    <3> QED
      BY <3>2, <3>3, <3>4
  <2>3. After(Chunked, w, e) =
          [v \in AllChunks |-> IF v = w THEN HandleSchedSwitch(Chunked[w], e) ELSE Chunked[v]]
    BY <1>5 DEF After
  <2> QED
    BY <2>1, <2>2, <2>3
<1>11. \A u \in SeenOf(Chunked, c) : u[2] <= i
  <2> SUFFICES ASSUME NEW u \in SeenOf(Chunked, c)
               PROVE  u[2] <= i
    OBVIOUS
  <2>1. u \in AllChunks /\ u[1] = c /\ Entry(Chunked, u).present
    BY <1>5 DEF SeenOf
  <2>2. u[2] \in Chunks(c) /\ Chunked[u].start = ChunkBegin(c, u[2])
    BY <1>1, <2>1, ChunkedIs
  <2>3. ChunkBegin(c, u[2]) <= now /\ ChunkBegin(c, u[2]) \in Nat /\ u[2] \in Nat
    BY <1>1, <2>1, <2>2, ChunkBounds DEF Timely
  <2>4. i < u[2] => ChunkEnd(c, i) < ChunkBegin(c, u[2])
    BY <1>1, <1>5, <2>2, ChunkBounds
  <2> QED
    BY <1>4, <1>5, <2>3, <2>4
<1>12. Handles(Chunked, w, e, data, Chunked')
  <2>1. /\ data \in Contexts /\ Accounts(Chunked, DOMAIN Chunked, data)
    BY <1>3, <1>5 DEF Accounting
  <2>2. /\ data.cpus[c].currentTask # None =>
             /\ data.cpus[c].currentTask.tid = e.prev_tid
             /\ data.cpus[c].currentTask.start <= e.timestamp
        /\ data.cpus[c].present /\ data.cpus[c].currentTask = None => e.prev_tid = Idle
    <3>1. data.cpus[c] \in Cpu
      BY <1>3 DEF Accounting, Contexts
    <3>2. data.cpus[c].currentTask # None => data.cpus[c].currentTask.start \in Nat
      BY <3>1, CpuFields
    <3> QED
      BY <1>3, <1>4, <1>6, <3>2 DEF Knows
  <2>3. w[1] = c /\ w[2] = i
    OBVIOUS
  <2> HIDE DEF w
  <2> QED
    BY <1>1, <1>5, <1>6, <1>10, <1>11, <2>1, <2>2, <2>3 DEF Handles
<1>13. Working'
  <2>1. \A d \in Cpus : Chunks(d)' = Chunks(d)
    BY <1>2 DEF Chunks
  <2>2. \A d \in Cpus : \A j \in Chunks(d) :
          ChunkBegin(d, j)' = ChunkBegin(d, j) /\ ChunkEnd(d, j)' = ChunkEnd(d, j)
    BY <1>2 DEF ChunkBegin, ChunkEnd
  <2>3. /\ HandleSchedSwitch(work[c][i], e).start = work[c][i].start
        /\ HandleSchedSwitch(work[c][i], e).end = work[c][i].end
    BY DEF HandleSchedSwitch
  <2>4. HandleSchedSwitch(work[c][i], e) \in Contexts
    <3>1. Chunking(Chunked') /\ DOMAIN Chunked' = AllChunks
      BY <1>5, <1>12, AfterIs
    <3>2. Chunked'[w] \in Contexts
      BY <1>5, <3>1 DEF Chunking
    <3>3. Chunked'[w] = HandleSchedSwitch(Chunked[w], e)
      BY <1>5, <1>10 DEF After
    <3> QED
      BY <1>5, <3>2, <3>3
  <2>5. ASSUME NEW d \in Cpus, NEW j \in Chunks(d)
        PROVE  /\ work'[d][j] \in Contexts
               /\ work'[d][j].start = ChunkBegin(d, j)
               /\ work'[d][j].end = ChunkEnd(d, j)
    <3>1. /\ work[d][j] \in Contexts
          /\ work[d][j].start = ChunkBegin(d, j) /\ work[d][j].end = ChunkEnd(d, j)
      BY <1>1 DEF Working
    <3>2. CASE d = c /\ j = i
      BY <1>9, <2>3, <2>4, <3>1, <3>2
    <3>3. CASE ~(d = c /\ j = i)
      BY <1>8, <1>9, <3>1, <3>3
    <3> QED
      BY <3>2, <3>3
  <2>6. \A d \in Cpus : work'[d] = [j \in Chunks(d) |-> work'[d][j]]
    BY <1>1, <1>8, <1>9 DEF Working
  <2> QED
    BY <1>8, <2>1, <2>2, <2>5, <2>6 DEF Working
<1> QED
  BY <1>4, <1>5, <1>7, <1>12, <1>13 DEF i, e

(* An event changes the context of one chunk and that of the serial        *)
(* analysis.                                                               *)
LEMMA EventInv ==
  ASSUME Inv, NEW c \in Cpus, NEW next \in AllTids, NEW comm \in Comms,
         NEW ts \in now .. TraceEnd, Event(c, next, comm, ts)
  PROVE  Inv'
<1> DEFINE w == <<c, ChunkAt(c, ts)>>
           e == SwitchEvent(c, next, comm, ts)
           f == Chunked
           g == Chunked'
<1>1. /\ w \in AllChunks /\ Handles(f, w, e, data, g) /\ Working' /\ AllChunks' = AllChunks
      /\ Chunked[w].start <= ts /\ ts <= Chunked[w].end /\ now <= ts /\ ts \in Times
  BY EventHandled
<1>2. /\ ~ended /\ ended' = ended /\ now' = ts /\ running' = [running EXCEPT ![c] = next]
      /\ data' = HandleSchedSwitch(data, e)
      /\ span' = span /\ cuts' = cuts /\ left' = left /\ final' = final /\ left = AllChunks
      /\ next # running[c]
  BY SerialEventIs DEF Event, Switch
<1>3. /\ Cutting /\ Working /\ Sound(f) /\ Timely /\ Types
      /\ Accounting /\ Knows /\ InOrder /\ SpansMerged
  BY <1>2 DEF Inv
<1>4. w[1] = c /\ e.cpu_id = c /\ e.timestamp = ts /\ e.next_tid = next /\ e \in Events
  BY <1>1 DEF SwitchEvent, Handles
<1> HIDE DEF w, e
<1>5. Chunking(f) /\ DOMAIN f = AllChunks
  BY <1>3, ChunkedIs
<1>6. Cutting'
  BY <1>2, <1>3 DEF Cutting
<1>7. Chunking(g) /\ DOMAIN g = AllChunks
  BY <1>1, <1>5, AfterIs
<1>8. Sound(g)
  BY <1>1, SoundAfter
<1>9. \A v \in AllChunks : g[v].start = f[v].start /\ g[v].end = f[v].end
  <2>1. g[w] = HandleSchedSwitch(f[w], e) /\ \A v \in AllChunks \ {w} : g[v] = f[v]
    BY <1>1, <1>5 DEF Handles, After
  <2>2. g[w].start = f[w].start /\ g[w].end = f[w].end
    BY <2>1 DEF HandleSchedSwitch
  <2> QED
    BY <2>1, <2>2
<1>10. Timely'
  <2>1. \A v \in AllChunks \ {w} : Entry(g, v) = Entry(f, v)
    BY <1>1, <1>5, AfterIs
  <2>2. \A v \in AllChunks : f[v].start \in Nat /\ f[v].end \in Nat
    BY <1>5 DEF Chunking, Contexts
  <2>3. ts \in Nat /\ now \in Nat
    BY <1>1, <1>3, TracedSystemAssumption DEF Types, Times
  <2>4. ASSUME NEW v \in AllChunks, Entry(g, v).present
        PROVE  g[v].start <= ts /\ g[v].start <= g[v].end
    <3>1. CASE v = w
      BY <1>1, <1>9, <2>2, <2>3, <3>1
    <3>2. CASE v # w
      <4>1. Entry(f, v).present
        BY <2>1, <2>4, <3>2
      <4>2. f[v].start <= now /\ f[v].start <= f[v].end
        BY <1>3, <4>1 DEF Timely
      <4> QED
        BY <1>1, <1>9, <2>2, <2>3, <4>2
    <3> QED
      BY <3>1, <3>2
  <2> QED
    BY <1>1, <1>2, <2>4 DEF Timely
<1>11. Types'
  <2>1. running' \in [Cpus -> AllTids]
    BY <1>2, <1>3 DEF Types
  <2>2. ended' \in BOOLEAN
    BY <1>2, <1>3, Zenon DEF Types
  <2>3. Times' = Times
    BY DEF Times
  <2> QED
    BY <1>1, <1>2, <1>3, <2>1, <2>2, <2>3 DEF Types
<1>12. /\ data' \in Contexts /\ Accounts(g, AllChunks, data')
  BY <1>1, <1>2, <1>7, AccountsAfter
<1>13. Merged = {} /\ Merged' = {}
  BY <1>1, <1>2 DEF Merged
<1>14. Accounting'
  <2>1. final' = NewContext(0, 0)
    BY <1>2, <1>3, <1>13 DEF Accounting, EmptyContext
  <2>2. final' \in Contexts /\ Accounts(g, {}, final')
    BY <1>7, <2>1, AccountsNothing
  <2>3. data'.start = data.start /\ data'.end = data.end
    BY <1>2 DEF HandleSchedSwitch
  <2>4. EmptyContext' = NewContext(0, 0)
    BY DEF EmptyContext
  <2>5. Accounts(Chunked, AllChunks, data)' = Accounts(g, AllChunks, data')
    BY <1>1
  <2>6. Accounts(Chunked, Merged, final)' = Accounts(g, {}, final')
    BY <1>13
  <2> QED
    BY <1>3, <1>12, <2>1, <2>2, <2>3, <2>4, <2>5, <2>6 DEF Accounting
<1>15. Knows'
  <2>1. /\ data'.cpus[c].present
        /\ data'.cpus[c].currentTask = NextTask(data.cpus[c], e)
        /\ \A d \in Cpus \ {c} : data'.cpus[d] = data.cpus[d]
    <3>1. data.cpus \in [Cpus -> Cpu]
      BY <1>3 DEF Accounting, Contexts
    <3>2. data'.cpus = [data.cpus EXCEPT ![c] = SwitchCpu(data.cpus[c], e)]
      BY <1>2, <1>4 DEF HandleSchedSwitch
    <3>3. data'.cpus[c] = SwitchCpu(data.cpus[c], e)
      BY <3>1, <3>2
    <3> QED
      BY <3>1, <3>2, <3>3 DEF SwitchCpu
  <2>2. ts \in Nat /\ now \in Nat
    BY <1>1, <1>3, TracedSystemAssumption DEF Types, Times
  <2>3. ASSUME NEW d \in Cpus
        PROVE  /\ data'.cpus[d].currentTask # None =>
                    /\ data'.cpus[d].currentTask.tid = running'[d]
                    /\ data'.cpus[d].currentTask.start <= ts
               /\ data'.cpus[d].present /\ data'.cpus[d].currentTask = None =>
                    running'[d] = Idle
    <3>1. CASE d = c
      <4>1. running'[c] = next
        BY <1>2, <1>3 DEF Types
      <4>2. /\ next # Idle => /\ NextTask(data.cpus[c], e).tid = next
                              /\ NextTask(data.cpus[c], e).start = ts
            /\ next = Idle => NextTask(data.cpus[c], e) = None
        BY <1>4 DEF NextTask
      <4>3. next # Idle => NextTask(data.cpus[c], e) # None
        <5>1. next # Idle => [start |-> ts, tid |-> next] \in Task
          BY <2>2 DEF Task, AllTids
        <5> QED
          BY <1>4, <5>1, CpuContextAssumption DEF NextTask
      <4>4. next # Idle => NextTask(data.cpus[c], e).start <= ts
        BY <2>2, <4>2
      <4> QED
        BY <2>1, <3>1, <4>1, <4>2, <4>3, <4>4
    <3>2. CASE d # c
      <4>1. data'.cpus[d] = data.cpus[d] /\ running'[d] = running[d]
        BY <1>2, <1>3, <2>1, <3>2 DEF Types
      <4>2. data.cpus[d].currentTask # None => data.cpus[d].currentTask.start \in Nat
        <5>1. data.cpus[d] \in Cpu
          BY <1>3 DEF Accounting, Contexts
        <5> QED
          BY <5>1, CpuFields
      <4> QED
        BY <1>1, <1>3, <2>2, <4>1, <4>2 DEF Knows
    <3> QED
      BY <3>1, <3>2
  <2> QED
    BY <1>2, <2>3 DEF Knows
<1>16. InOrder' /\ SpansMerged'
  <2>1. final'.start = 0 /\ final'.end = 0
    BY <1>2, <1>3, <1>13 DEF SpansMerged
  <2> QED
    BY <1>13, <2>1 DEF InOrder, SpansMerged
<1>17. ended' = FALSE
  BY <1>2, <1>3, Zenon DEF Types
<1> QED
  BY <1>1, <1>6, <1>8, <1>10, <1>11, <1>14, <1>15, <1>16, <1>17
     DEF Inv, SameTimes, SameSpan, PinnedSameNames

-------------------------------------------------------------------------------
(* The sort merges the chunks of one CPU in their order, as far as they    *)
(* have seen it: chunks that begin at the same time are empty but one.     *)
LEMMA ReducedInOrder ==
  ASSUME Inv, ~ended, NEW w \in left, \A v \in left : ~Before(v, w)
  PROVE  /\ w \in AllChunks /\ w \notin Merged
         /\ \A u \in Earlier(Chunked, w) : u \in Merged
         /\ Entry(Chunked, w).present => SeenIn(Chunked, w[1], Merged) = Earlier(Chunked, w)
<1>1. /\ Cutting /\ Working /\ Timely /\ InOrder /\ left \in SUBSET AllChunks /\ w \in AllChunks
  BY DEF Inv, Types
<1>2. /\ DOMAIN Chunked = AllChunks
      /\ \A v \in AllChunks :
           /\ v = <<v[1], v[2]>> /\ v[1] \in Cpus /\ v[2] \in Chunks(v[1])
           /\ Chunked[v].start = ChunkBegin(v[1], v[2])
           /\ Chunked[v].end = ChunkEnd(v[1], v[2])
  BY <1>1, ChunkedIs
<1>3. \A v \in AllChunks :
        /\ v[2] \in Nat /\ 1 <= v[2]
        /\ ChunkBegin(v[1], v[2]) \in Nat /\ ChunkEnd(v[1], v[2]) \in Nat
        /\ BeginPos(v[1], v[2]) = IF v[2] = 1 THEN None ELSE ChunkBegin(v[1], v[2])
        /\ v[2] # 1 => BeginPos(v[1], v[2]) # None
  BY <1>1, <1>2, ChunkBounds
<1>4. ASSUME NEW u \in Earlier(Chunked, w)
      PROVE  u \in Merged
  <2>1. u \in AllChunks /\ u[1] = w[1] /\ u[2] < w[2] /\ Entry(Chunked, u).present
    BY <1>2 DEF Earlier, SeenOf
  <2>2. ChunkEnd(u[1], u[2]) < ChunkBegin(w[1], w[2])
    BY <1>1, <1>2, <2>1, ChunkBounds
  <2>3. ChunkBegin(u[1], u[2]) <= ChunkEnd(u[1], u[2])
    BY <1>1, <1>2, <2>1 DEF Timely
  <2>4. ChunkBegin(u[1], u[2]) < ChunkBegin(w[1], w[2])
    BY <1>1, <1>3, <2>1, <2>2, <2>3
  <2>5. w[2] # 1
    BY <1>1, <1>3, <2>1
  <2>6. /\ BeginPos(w[1], w[2]) = ChunkBegin(w[1], w[2]) /\ BeginPos(w[1], w[2]) # None
        /\ BeginPos(u[1], u[2]) # None => BeginPos(u[1], u[2]) = ChunkBegin(u[1], u[2])
    BY <1>1, <1>3, <2>1, <2>5
  <2>7. Before(u, w)
    BY <2>4, <2>6 DEF Before
  <2> QED
    BY <2>1, <2>7 DEF Merged
<1>5. ASSUME Entry(Chunked, w).present
      PROVE  SeenIn(Chunked, w[1], Merged) = Earlier(Chunked, w)
  <2>1. ASSUME NEW u \in SeenIn(Chunked, w[1], Merged)
        PROVE  u \in Earlier(Chunked, w)
    <3>1. u \in SeenOf(Chunked, w[1]) /\ u \in Merged /\ u \in AllChunks /\ u[1] = w[1]
      BY <1>2 DEF SeenIn, SeenOf, Merged
    <3>2. u[2] # w[2]
      BY <1>1, <1>2, <3>1 DEF Merged
    <3>3. ~(w[2] < u[2])
      BY <1>1, <1>5, <3>1 DEF InOrder, Merged
    <3>4. u[2] < w[2]
      BY <1>1, <1>3, <3>1, <3>2, <3>3
    <3> QED
      BY <3>1, <3>4 DEF Earlier
  <2>2. ASSUME NEW u \in Earlier(Chunked, w)
        PROVE  u \in SeenIn(Chunked, w[1], Merged)
    BY <1>4 DEF SeenIn, Earlier
  <2> QED
    BY <2>1, <2>2
<1> QED
  BY <1>1, <1>4, <1>5 DEF Merged

(* Merging the next chunk.                                                 *)
LEMMA ReduceInv == ASSUME Inv, Reduce PROVE Inv'
<1>1. PICK w \in left :
        /\ \A v \in left : ~Before(v, w)
        /\ left' = left \ {w} /\ final' = Merge(final, work[w[1]][w[2]])
        /\ UNCHANGED <<running, now, span, cuts, work, data, ended>>
  BY DEF Reduce
<1>2. ~ended
  BY <1>1 DEF Inv
<1>3. /\ Cutting /\ Working /\ Sound(Chunked) /\ Timely /\ Types
      /\ Accounting /\ Knows /\ InOrder /\ SpansMerged
  BY <1>2 DEF Inv
<1>4. /\ w \in AllChunks /\ w \notin Merged
      /\ \A u \in Earlier(Chunked, w) : u \in Merged
      /\ Entry(Chunked, w).present => SeenIn(Chunked, w[1], Merged) = Earlier(Chunked, w)
  BY <1>1, <1>2, ReducedInOrder
<1>5. /\ Chunking(Chunked) /\ DOMAIN Chunked = AllChunks
      /\ \A v \in AllChunks : /\ v[1] \in Cpus /\ v[2] \in Chunks(v[1])
                              /\ Chunked[v] = work[v[1]][v[2]]
                              /\ Chunked[v].start = ChunkBegin(v[1], v[2])
  BY <1>3, ChunkedIs
<1>6. /\ AllChunks' = AllChunks /\ Chunked' = Chunked
      /\ Merged' = Merged \cup {w}
  <2>1. AllChunks' = AllChunks
    BY <1>1 DEF AllChunks, Chunks
  <2>2. Chunked' = Chunked
    BY <1>1, <2>1 DEF Chunked
  <2>3. Merged' = Merged \cup {w}
    BY <1>1, <1>4, <2>1 DEF Merged
  <2> QED
    BY <2>1, <2>2, <2>3
<1>7. Types' /\ Cutting'
  <2>1. Times' = Times
    BY DEF Times
  <2>2. ended' \in BOOLEAN
    BY <1>1, <1>3, Zenon DEF Types
  <2> QED
    BY <1>1, <1>3, <1>6, <2>1, <2>2 DEF Types, Cutting
<1>8. Working'
  <2>1. /\ \A c \in Cpus : Chunks(c)' = Chunks(c)
        /\ \A c \in Cpus : \A i \in Chunks(c) :
             ChunkBegin(c, i)' = ChunkBegin(c, i) /\ ChunkEnd(c, i)' = ChunkEnd(c, i)
    BY <1>1 DEF Chunks, ChunkBegin, ChunkEnd
  <2> QED
    BY <1>1, <1>3, <2>1 DEF Working
<1>9. Sound(Chunked)' /\ Timely'
  BY <1>1, <1>3, <1>6 DEF Timely
<1>10. Merges(Chunked, Merged, w, Merged', final)
  BY <1>3, <1>4, <1>5, <1>6 DEF Merges, Accounting, Merged
<1>11. /\ final' = Merge(final, Chunked[w]) /\ final' \in Contexts
       /\ Accounts(Chunked, Merged', final')
  BY <1>1, <1>4, <1>5, <1>10, AccountsMerged
<1>12. Accounting'
  <2>1. Merged' # {}
    BY <1>6
  <2>2. Accounts(Chunked, Merged, final)' = Accounts(Chunked, Merged', final')
    BY <1>6
  <2>3. Accounts(Chunked, AllChunks, data)' = Accounts(Chunked, AllChunks, data)
    BY <1>1, <1>6
  <2> QED
    BY <1>1, <1>3, <1>11, <2>1, <2>2, <2>3 DEF Accounting
<1>13. Knows'
  BY <1>1, <1>3 DEF Knows
<1>14. InOrder'
  <2>1. ASSUME NEW v \in Merged \cup {w}, NEW u \in AllChunks,
               u[1] = v[1], u[2] < v[2], Entry(Chunked, u).present
        PROVE  u \in Merged \cup {w}
    <3>1. CASE v \in Merged
      BY <1>3, <2>1, <3>1 DEF InOrder
    <3>2. CASE v = w
      <4>1. u \in Earlier(Chunked, w)
        BY <1>5, <2>1, <3>2 DEF Earlier, SeenOf
      <4> QED
        BY <1>4, <4>1
    <3> QED
      BY <3>1, <3>2
  <2> QED
    BY <1>6, <2>1 DEF InOrder
<1>15. SpansMerged'
  <2>1. /\ final.start \in Nat /\ final.end \in Nat
        /\ \A v \in AllChunks : Chunked[v].start \in Nat /\ Chunked[v].end \in Nat
    BY <1>3, <1>5 DEF Accounting, Chunking, Contexts
  <2>2. \A v \in AllChunks : Chunked[v].start # 0
    <3>1. \A v \in AllChunks : TraceBegin <= ChunkBegin(v[1], v[2])
      BY <1>3, <1>5, ChunkBounds
    <3> QED
      BY <1>5, <2>1, <3>1, TracedSystemAssumption
  <2>3. /\ final'.start = IF Chunked[w].start < final.start \/ final.start = 0
                          THEN Chunked[w].start ELSE final.start
        /\ final'.end = IF Chunked[w].end > final.end THEN Chunked[w].end ELSE final.end
    BY <1>11 DEF Merge, MergedStart
  <2>4. Merged \in SUBSET AllChunks
    BY DEF Merged
  <2>5. CASE Merged = {}
    <3>1. final'.start = Chunked[w].start /\ final'.end = Chunked[w].end
      BY <1>3, <1>4, <2>1, <2>3, <2>5 DEF SpansMerged
    <3>2. Merged' = {w}
      BY <1>6, <2>5
    <3> QED
      BY <1>4, <1>6, <2>1, <3>1, <3>2 DEF SpansMerged
  <2>6. CASE Merged # {}
    <3>1. /\ \E v \in Merged : final.start = Chunked[v].start
          /\ \E v \in Merged : final.end = Chunked[v].end
          /\ \A v \in Merged : final.start <= Chunked[v].start /\ Chunked[v].end <= final.end
      BY <1>3, <2>6 DEF SpansMerged
    <3>2. final.start # 0
      BY <2>2, <2>4, <3>1
    <3>3. /\ \E v \in Merged \cup {w} : final'.start = Chunked[v].start
          /\ \E v \in Merged \cup {w} : final'.end = Chunked[v].end
      BY <2>3, <3>1
    <3>4. \A v \in Merged \cup {w} : final'.start <= Chunked[v].start /\ Chunked[v].end <= final'.end
      <4> SUFFICES ASSUME NEW v \in Merged \cup {w}
                   PROVE  final'.start <= Chunked[v].start /\ Chunked[v].end <= final'.end
        OBVIOUS
      <4>1. v \in AllChunks
        BY <1>4, <2>4
      <4>2. CASE v \in Merged
        <5>1. /\ final'.start <= final.start /\ final.end <= final'.end
              /\ final'.start \in Nat /\ final'.end \in Nat
          BY <1>4, <2>1, <2>3, <3>2
        <5>2. final.start <= Chunked[v].start /\ Chunked[v].end <= final.end
          BY <3>1, <4>2
        <5>3. Chunked[v].start \in Nat /\ Chunked[v].end \in Nat
          BY <2>1, <4>1
        <5> QED
          BY <2>1, <5>1, <5>2, <5>3
      <4>3. CASE v = w
        BY <1>4, <2>1, <2>3, <3>2, <4>1, <4>3
      <4> QED
        BY <4>2, <4>3
    <3> QED
      BY <1>6, <3>3, <3>4 DEF SpansMerged
  <2> QED
    BY <2>5, <2>6
<1>16. ended' = FALSE
  BY <1>1, <1>2, <1>3, Zenon DEF Types
<1> QED
  BY <1>7, <1>8, <1>9, <1>12, <1>13, <1>14, <1>15, <1>16
     DEF Inv, SameTimes, SameSpan, PinnedSameNames

-------------------------------------------------------------------------------
(* The end.                                                                *)
LEMMA SerialEndIs ==
  ASSUME Serial!End
  PROVE  /\ ~ended /\ ended' = TRUE /\ running' = running /\ now' = now
         /\ data' = PatchEndTasks(data)
<1>1. ASSUME NEW f, NEW S
      PROVE  Serial!SumFunctionOnSet(f, S) = SumFunctionOnSet(f, S)
  BY DEF Serial!SumFunctionOnSet, SumFunctionOnSet, Serial!FoldFunctionOnSet, FoldFunctionOnSet,
         Serial!MapThenFoldSet, MapThenFoldSet
<1>2. Serial!PatchEndTasks(data) = PatchEndTasks(data)
  <2>1. \A c \in Cpus : Serial!EndCpu(data.cpus[c], data.end) = EndCpu(data.cpus[c], data.end)
    BY DEF EndCpu, Serial!EndCpu, Ran, Serial!Ran
  <2>2. [c \in Cpus |-> Serial!Ran(data.cpus[c], data.end)] =
          [c \in Cpus |-> Ran(data.cpus[c], data.end)]
    BY DEF Ran, Serial!Ran
  <2>3. \A t \in AllTids : Serial!EndProcess(data, t) = EndProcess(data, t)
    <3> TAKE t \in AllTids
    <3>1. Serial!StillRunning(data, t) = StillRunning(data, t)
      BY DEF StillRunning, Serial!StillRunning
    <3> QED
      BY <1>1, <2>2, <3>1 DEF EndProcess, Serial!EndProcess
  <2>4. Serial!AllTids = AllTids
    BY DEF AllTids, Serial!AllTids
  <2> QED
    BY <2>1, <2>3, <2>4 DEF PatchEndTasks, Serial!PatchEndTasks
<1> QED
  BY <1>2 DEF Serial!End

(* What is merged in the end spans the trace.                              *)
LEMMA SpansTrace ==
  ASSUME Inv, ~ended, left = {}
  PROVE  final.start = TraceBegin /\ final.end = TraceEnd
<1>1. /\ Cutting /\ Working /\ SpansMerged /\ Accounting
      /\ TraceBegin \in Nat /\ TraceEnd \in Nat
  BY TracedSystemAssumption DEF Inv
<1>2. \A c \in Cpus : \A i \in Chunks(c) :
        /\ <<c, i>> \in AllChunks
        /\ Chunked[<<c, i>>].start = ChunkBegin(c, i) /\ Chunked[<<c, i>>].end = ChunkEnd(c, i)
  BY <1>1, ChunkedIs DEF Working
<1>3. \A v \in AllChunks :
        /\ Chunked[v].start \in Nat /\ TraceBegin <= Chunked[v].start
        /\ Chunked[v].end \in Nat /\ Chunked[v].end <= TraceEnd
  <2> TAKE v \in AllChunks
  <2>1. /\ v[1] \in Cpus /\ v[2] \in Chunks(v[1])
        /\ Chunked[v].start = ChunkBegin(v[1], v[2]) /\ Chunked[v].end = ChunkEnd(v[1], v[2])
    BY <1>1, ChunkedIs
  <2> QED
    BY <1>1, <2>1, ChunkBounds
<1>4. PICK v \in AllChunks : Chunked[v].start = TraceBegin
  <2>1. PICK c \in Cpus : span[c][1] = TraceBegin
    BY <1>1 DEF Cutting
  <2>2. 1 \in Chunks(c) /\ ChunkBegin(c, 1) = TraceBegin
    BY <1>1, <2>1, ChunkBounds
  <2> QED
    BY <1>2, <2>2
<1>5. PICK v2 \in AllChunks : Chunked[v2].end = TraceEnd
  <2>1. PICK c \in Cpus : span[c][2] = TraceEnd
    BY <1>1 DEF Cutting
  <2>2. \E i \in Chunks(c) : ChunkEnd(c, i) = TraceEnd
    BY <1>1, <2>1, ChunkBounds
  <2> QED
    BY <1>2, <2>2
<1>6. Merged = AllChunks
  BY DEF Merged
<1>7. final.start \in Nat /\ final.end \in Nat
  BY <1>1 DEF Accounting, Contexts
<1>8. final.start = TraceBegin
  BY <1>1, <1>3, <1>4, <1>6, <1>7 DEF SpansMerged
<1>9. final.end = TraceEnd
  BY <1>1, <1>3, <1>5, <1>6, <1>7 DEF SpansMerged
<1> QED
  BY <1>8, <1>9

(* A thread seen by the chunks of one CPU only is pinned.                  *)
LEMMA SeenOnOne ==
  ASSUME Cutting, Working, NEW t \in AllTids, Cardinality(SeenOn(t)) <= 1
  PROVE  Pinned(Chunked, t)
<1>1. IsFiniteSet(SeenOn(t))
  BY FiniteSystem, FS_Subset DEF SeenOn
<1>2. \A u \in Met(Chunked, t) : u[1] \in SeenOn(t)
  <2> TAKE u \in Met(Chunked, t)
  <2>1. u \in AllChunks /\ Chunked[u].tids[t].present
    BY ChunkedIs DEF Met
  <2> QED
    BY <2>1, ChunkedIs DEF SeenOn
<1>3. ASSUME NEW a \in SeenOn(t), NEW b \in SeenOn(t), a # b
      PROVE  FALSE
  <2>1. IsFiniteSet({a}) /\ Cardinality({a}) = 1
    BY FS_Singleton
  <2>2. Cardinality({a} \cup {b}) = 2 /\ IsFiniteSet({a} \cup {b})
    BY <1>3, <2>1, FS_AddElement
  <2>3. {a} \cup {b} \in SUBSET SeenOn(t)
    BY <1>3
  <2>4. Cardinality({a} \cup {b}) <= Cardinality(SeenOn(t))
    BY <1>1, <2>3, FS_Subset
  <2>5. Cardinality(SeenOn(t)) \in Nat
    BY <1>1, FS_CardinalityType
  <2> QED
    BY <2>2, <2>4, <2>5
<1> QED
  BY <1>2, <1>3 DEF Pinned

(* At the end both analyses charge the tasks that still run.               *)
LEMMA EndInv == ASSUME Inv, End PROVE Inv'
<1>1. /\ left = {} /\ ~ended /\ ended' = TRUE
      /\ running' = running /\ now' = now /\ data' = PatchEndTasks(data)
      /\ final' = PatchEndTasks(final)
      /\ span' = span /\ cuts' = cuts /\ work' = work /\ left' = left
  BY SerialEndIs DEF End
<1>2. /\ Cutting /\ Working /\ Sound(Chunked) /\ Timely /\ Types /\ Accounting
  BY <1>1 DEF Inv
<1>3. AllChunks' = AllChunks /\ Chunked' = Chunked /\ Merged = AllChunks
  BY <1>1 DEF AllChunks, Chunks, Chunked, Merged
<1>4. Types' /\ Cutting'
  <2>1. Times' = Times
    BY DEF Times
  <2>2. ended' \in BOOLEAN
    BY <1>1, Zenon
  <2> QED
    BY <1>1, <1>2, <1>3, <2>1, <2>2 DEF Types, Cutting
<1>5. Working'
  <2>1. /\ \A c \in Cpus : Chunks(c)' = Chunks(c)
        /\ \A c \in Cpus : \A i \in Chunks(c) :
             ChunkBegin(c, i)' = ChunkBegin(c, i) /\ ChunkEnd(c, i)' = ChunkEnd(c, i)
    BY <1>1 DEF Chunks, ChunkBegin, ChunkEnd
  <2> QED
    BY <1>1, <1>2, <2>1 DEF Working
<1>6. Sound(Chunked)' /\ Timely'
  BY <1>1, <1>2, <1>3 DEF Timely
<1>7. /\ final.start = TraceBegin /\ final.end = TraceEnd
      /\ data.start = TraceBegin /\ data.end = TraceEnd
  BY <1>1, <1>2, SpansTrace DEF Accounting
<1>8. SameSpan'
  BY <1>1, <1>7 DEF SameSpan, PatchEndTasks
<1>9. /\ final \in Contexts /\ data \in Contexts
      /\ Accounts(Chunked, AllChunks, final) /\ Accounts(Chunked, AllChunks, data)
  BY <1>2, <1>3 DEF Accounting
<1>10. /\ \A c \in Cpus : /\ final'.cpus[c].present = data'.cpus[c].present
                          /\ final'.cpus[c].cpu_ns = data'.cpus[c].cpu_ns
       /\ \A t \in AllTids : /\ final'.tids[t].present = data'.tids[t].present
                             /\ final'.tids[t].cpu_ns = data'.tids[t].cpu_ns
                             /\ final'.tids[t].tid = data'.tids[t].tid
                             /\ Pinned(Chunked, t) => final'.tids[t].comm = data'.tids[t].comm
  BY <1>1, <1>7, <1>9, EndAgrees
<1>11. SameTimes'
  BY <1>10 DEF SameTimes
<1>12. \A t \in AllTids : SeenOn(t)' = SeenOn(t)
  BY <1>1 DEF SeenOn, Chunks
<1>13. PinnedSameNames'
  <2>1. \A t \in AllTids : Cardinality(SeenOn(t)') <= 1 => final'.tids[t].comm = data'.tids[t].comm
    BY <1>2, <1>10, <1>12, SeenOnOne
  <2> QED
    BY <2>1 DEF PinnedSameNames
<1> QED
  BY <1>1, <1>4, <1>5, <1>6, <1>8, <1>11, <1>13 DEF Inv

(* Nothing happens.                                                        *)
LEMMA StutterInv == ASSUME Inv, UNCHANGED vars PROVE Inv'
<1>1. /\ running' = running /\ now' = now /\ span' = span /\ cuts' = cuts /\ work' = work
      /\ left' = left /\ final' = final /\ data' = data /\ ended' = ended
  BY DEF vars
<1>2. AllChunks' = AllChunks /\ Chunked' = Chunked /\ Merged' = Merged /\ Times' = Times
  BY <1>1 DEF AllChunks, Chunks, Chunked, Merged, Times
<1>3. Types' /\ Cutting'
  BY <1>1, <1>2 DEF Inv, Types, Cutting
<1>4. Working'
  <2>1. /\ \A c \in Cpus : Chunks(c)' = Chunks(c)
        /\ \A c \in Cpus : \A i \in Chunks(c) :
             ChunkBegin(c, i)' = ChunkBegin(c, i) /\ ChunkEnd(c, i)' = ChunkEnd(c, i)
    BY <1>1 DEF Chunks, ChunkBegin, ChunkEnd
  <2> QED
    BY <1>1, <2>1 DEF Inv, Working
<1>5. Sound(Chunked)' /\ Timely'
  BY <1>1, <1>2 DEF Inv, Timely
<1>6. ~ended => Accounting' /\ Knows' /\ InOrder' /\ SpansMerged'
  BY <1>1, <1>2 DEF Inv, Accounting, Knows, InOrder, SpansMerged
<1>7. SameTimes' /\ SameSpan'
  BY <1>1 DEF Inv, SameTimes, SameSpan
<1>8. PinnedSameNames'
  <2>1. \A t \in AllTids : SeenOn(t)' = SeenOn(t)
    BY <1>1 DEF SeenOn, Chunks
  <2> QED
    BY <1>1, <2>1 DEF Inv, PinnedSameNames
<1> QED
  BY <1>1, <1>3, <1>4, <1>5, <1>6, <1>7, <1>8 DEF Inv

(* The invariant is kept by every step,                                    *)
LEMMA NextInv == ASSUME Inv, [Next]_vars PROVE Inv'
<1>1. ASSUME NEW c \in Cpus, NEW next \in AllTids, NEW ts \in now .. TraceEnd,
             NEW comm \in Names(c), Event(c, next, comm, ts)
      PROVE  Inv'
  <2>1. comm \in Comms
    BY TracedSystemAssumption DEF Names
  <2> QED
    BY <1>1, <2>1, EventInv
<1>2. ASSUME Reduce PROVE Inv'
  BY <1>2, ReduceInv
<1>3. ASSUME End PROVE Inv'
  BY <1>3, EndInv
<1>4. ASSUME Finished PROVE Inv'
  BY <1>4, StutterInv DEF Finished
<1>5. ASSUME UNCHANGED vars PROVE Inv'
  BY <1>5, StutterInv
<1> QED
  BY <1>1, <1>2, <1>3, <1>4, <1>5 DEF Next

(* and so holds for ever.                                                  *)
LEMMA Invariance == Spec => []Inv
BY InitInv, NextInv, PTL DEF Spec

(* However the streams are cut and whatever order equals are merged in,    *)
(* the balanced analysis reports the CPUs, the threads and the times of    *)
(* the serial one (traceanalysis.h:285, cpucontext.cpp:131-173).           *)
THEOREM BalancedSameTimes == Spec => []SameTimes
<1>1. Inv => SameTimes
  BY DEF Inv
<1> QED
  BY <1>1, Invariance, PTL

(* Its percentages are relative to the whole trace, which no stream need   *)
(* span (cpucontext.cpp:102-108).                                          *)
THEOREM BalancedSameSpan == Spec => []SameSpan
<1>1. Inv => SameSpan
  BY DEF Inv
<1> QED
  BY <1>1, Invariance, PTL

(* A thread that is switched out on one CPU only has its latest name,      *)
(* since the chunks of one CPU are merged in their order                   *)
(* (cpucontext.cpp:125).                                                   *)
THEOREM BalancedPinnedNames == Spec => []PinnedSameNames
<1>1. Inv => PinnedSameNames
  BY DEF Inv
<1> QED
  BY <1>1, Invariance, PTL
===============================================================================
