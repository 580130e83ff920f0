------------------------------ MODULE StreamSetup ------------------------------
(***************************************************************************)
(* How the balanced analysis sets up a directory and a trace set for every *)
(* stream of the trace: the first half of doExecuteParallelBalanced, up to *)
(* f.waitForFinished(), and the removal at its end.                        *)
(*                                                                         *)
(* The pool threads of QtConcurrent::map each run the lambda on one stream *)
(* at a time; here every stream has a thread of its own, which includes    *)
(* every interleaving of fewer.  A directory is its path; the QDir objects *)
(* tmpDir and thisTmpDir hold one.  mkdir and QFile::link may fail, and    *)
(* the code ignores what they return; cd fails if there is no such         *)
(* directory, and then leaves the QDir as it was.                          *)
(***************************************************************************)
EXTENDS Integers, SequencesExt

CONSTANTS
  Streams,      (* The files of the trace directory other than metadata.   *)
  Free,         (* mapMutex when no thread holds it.                       *)
  MaxFaults,    (* A bound on the operations that fail.                    *)
  RootMayFail   (* Whether one of them may be the first mkdir.             *)

ASSUME StreamSetupAssumption ==
  /\ Free \notin Streams
  /\ MaxFaults \in Nat
  /\ RootMayFail \in BOOLEAN

Temp == <<"tmp">>                    (* QDir::tempPath()                   *)
PerStream == <<"tmp", "per_stream">> (* perStreamDirPath in it             *)

VARIABLES
  dirs,         (* The directories that exist.                             *)
  links,        (* The symbolic links, <<directory, kind, stream>>.        *)
  tmpDir,       (* Where tmpDir points.                                    *)
  thisTmpDir,   (* Where the thisTmpDir of each thread points.             *)
  step,         (* What each thread does next.                             *)
  mapMutex,     (* The thread that holds mapMutex, or Free.                *)
  table,        (* traceSets as the thread that inserts in it found it.    *)
  traceSets,    (* The streams that have an entry in traceSets.            *)
  opened,       (* The streams the trace set of each stream reads.         *)
  failed,       (* Streams an operation failed for.                        *)
  faults,       (* The number of operations that failed.                   *)
  phase         (* Where the calling thread is.                            *)

fsVars == <<dirs, links>>
mapVars == <<mapMutex, table, traceSets>>
setupVars == <<fsVars, tmpDir, thisTmpDir, step, mapVars, opened, failed, faults, phase>>

SetupInit ==
  /\ dirs = {Temp}
  /\ links = {}
  /\ tmpDir = Temp
  /\ thisTmpDir = [s \in Streams |-> Temp]
  /\ step = [s \in Streams |-> "mkdir"]
  /\ mapMutex = Free
  /\ table = {}
  /\ traceSets = {}
  /\ opened = [s \in Streams |-> {}]
  /\ failed = {}
  /\ faults = 0
  /\ phase = "start"

(* One more operation fails, if `ok` is not TRUE.                          *)
Fails(ok) ==
  /\ ok \/ faults < MaxFaults
  /\ faults' = IF ok THEN faults ELSE faults + 1

FailsFor(s, ok) ==
  /\ Fails(ok)
  /\ failed' = IF ok THEN failed ELSE failed \cup {s}

(* mkdir(name), then cd(name): where a QDir that was at `dir` points now.  *)
MakeDir(path, ok) == dirs' = IF ok THEN dirs \cup {path} ELSE dirs

Entered(dir, name) == IF Append(dir, name) \in dirs' THEN Append(dir, name) ELSE dir

MakeTmpDir ==
  /\ phase = "start"
  /\ \E ok \in {TRUE, ~RootMayFail} :
       /\ Fails(ok)
       /\ MakeDir(PerStream, ok)
  /\ tmpDir' = Entered(Temp, "per_stream")
  /\ phase' = "setup"
  /\ UNCHANGED <<links, thisTmpDir, step, mapVars, opened, failed>>

-------------------------------------------------------------------------------
(* The lambda, one operation after the other.                              *)
At(s, this, next) ==
  /\ phase = "setup"
  /\ step[s] = this
  /\ step' = [step EXCEPT ![s] = next]
  /\ UNCHANGED <<tmpDir, phase>>

MakeStreamDir(s) ==
  /\ At(s, "mkdir", "link")
  /\ \E ok \in BOOLEAN : FailsFor(s, ok) /\ MakeDir(Append(tmpDir, s), ok)
  /\ thisTmpDir' = [thisTmpDir EXCEPT ![s] = Entered(tmpDir, s)]
  /\ UNCHANGED <<links, mapVars, opened>>

Link(s, dir, kind) ==
  /\ \E ok \in BOOLEAN :
       /\ FailsFor(s, ok)
       /\ links' = IF ok THEN links \cup {<<dir, kind, s>>} ELSE links
  /\ UNCHANGED <<dirs, mapVars, opened>>

(* Wrong on purpose: the stream is linked in the directory of all.         *)
StreamDirShared(s) == tmpDir

StreamDir(s) == thisTmpDir[s]

LinkStream(s) ==
  /\ At(s, "link", "metadata")
  /\ Link(s, StreamDir(s), "stream")
  /\ UNCHANGED thisTmpDir

LinkMetadata(s) ==
  /\ At(s, "metadata", "index")
  /\ Link(s, StreamDir(s), "metadata")
  /\ UNCHANGED thisTmpDir

MakeIndexDir(s) ==
  /\ At(s, "index", "idx")
  /\ \E ok \in BOOLEAN : FailsFor(s, ok) /\ MakeDir(Append(thisTmpDir[s], "index"), ok)
  /\ thisTmpDir' = [thisTmpDir EXCEPT ![s] = Entered(@, "index")]
  /\ UNCHANGED <<links, mapVars, opened>>

(* The index is linked in tmpDir; cdUp then leaves the index directory, or *)
(* the directory of the stream if there is none.                           *)
LinkIndex(s) ==
  /\ At(s, "idx", "lock")
  /\ Link(s, tmpDir, "idx")
  /\ thisTmpDir' = [thisTmpDir EXCEPT ![s] = Front(@)]

(* Wrong on purpose: without the lock_guard.                               *)
CanLockAlways == TRUE

CanLock == mapMutex = Free

(* emplace reads and writes the table in several steps.                    *)
Lock(s) ==
  /\ At(s, "lock", "emplace")
  /\ CanLock
  /\ mapMutex' = s
  /\ table' = traceSets
  /\ UNCHANGED <<fsVars, thisTmpDir, traceSets, opened, failed, faults>>

Emplace(s) ==
  /\ At(s, "emplace", "addTrace")
  /\ traceSets' = table \cup {s}
  /\ mapMutex' = Free
  /\ table' = {}
  /\ UNCHANGED <<fsVars, thisTmpDir, opened, failed, faults>>

(* What TraceSet::addTrace opens: the streams in a directory that has the  *)
(* metadata.                                                               *)
Contents(dir) ==
  IF \E s \in Streams : <<dir, "metadata", s>> \in links
  THEN {s \in Streams : <<dir, "stream", s>> \in links}
  ELSE {}

AddTrace(s) ==
  /\ At(s, "addTrace", "done")
  /\ opened' = [opened EXCEPT ![s] = Contents(thisTmpDir[s])]
  /\ UNCHANGED <<fsVars, thisTmpDir, mapVars, failed, faults>>

SetUp(s) ==
  \/ MakeStreamDir(s)
  \/ LinkStream(s)
  \/ LinkMetadata(s)
  \/ MakeIndexDir(s)
  \/ LinkIndex(s)
  \/ Lock(s)
  \/ Emplace(s)
  \/ AddTrace(s)

AllSetUp == phase = "setup" /\ \A s \in Streams : step[s] = "done"

(* Wrong on purpose: rmdir instead of removeRecursively.                   *)
BelowOnlyItself(dir) == {dir}

Below(dir) == {d \in dirs : IsPrefix(dir, d)}

RemoveTmpDir ==
  /\ dirs' = dirs \ Below(tmpDir)
  /\ links' = {l \in links : l[1] \notin Below(tmpDir)}

-------------------------------------------------------------------------------
(* A stream for which every operation succeeded is read through its own    *)
(* trace set and through no other one, whatever failed for other streams:  *)
(* their links then land in tmpDir, which is nobody's directory, and their *)
(* cdUp goes one level too far (traceanalysis.h:176-212).                  *)
HealthyStreamsIsolated ==
  (\A s \in Streams : step[s] = "done") =>
    \A s \in Streams \ failed : \A r \in Streams : s \in opened[r] <=> r = s

(* The program never removes the directory for temporary files of the      *)
(* whole system ("Remove the temporary directory", traceanalysis.h:304,    *)
(* that is the "temp dir for split streams" of line 163).                  *)
SystemTempKept == Temp \in dirs
===============================================================================
