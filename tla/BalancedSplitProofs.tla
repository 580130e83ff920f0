-------------------------- MODULE BalancedSplitProofs --------------------------
(***************************************************************************)
(* The balanced chunking, for any number of streams, packets, failing      *)
(* operations and orders of the pool threads.                              *)
(***************************************************************************)
EXTENDS BalancedSplit, SumFacts, SequenceTheorems

Names == Streams \cup {"tmp", "per_stream", "index"}

Home(s) == Append(tmpDir, s)

-------------------------------------------------------------------------------
(* Where a thread is: before its mkdir, in the directory of its stream, in *)
(* the index directory, or back from it.                                   *)
InHome  == {"link", "metadata", "index"}
InIndex == {"idx"}
Back    == {"lock", "emplace", "addTrace", "done"}
Steps   == {"mkdir"} \cup InHome \cup InIndex \cup Back

SetupTypes ==
  /\ tmpDir \in {Temp, PerStream}
  /\ step \in [Streams -> Steps]
  /\ thisTmpDir \in [Streams -> Seq(Names)]
  /\ opened \in [Streams -> SUBSET Streams]
  /\ dirs \subseteq Seq(Names)
  /\ links \subseteq Seq(Names) \X {"stream", "metadata", "idx"} \X Streams
  /\ failed \subseteq Streams
  /\ faults \in Nat
  /\ phase \in {"start", "setup", "index", "sorted", "done", "crashed"}

(* The threads begin together and end together.                            *)
Phases ==
  /\ phase = "start" =>
       /\ tmpDir = Temp /\ dirs = {Temp} /\ links = {} /\ failed = {}
       /\ \A s \in Streams : step[s] = "mkdir"
  /\ phase \notin {"start", "setup"} => \A s \in Streams : step[s] = "done"

(* A thread whose operations fail is one directory too far up, but never   *)
(* in that of another stream.                                              *)
Where ==
  \A s \in Streams :
    /\ step[s] \in InHome =>
         thisTmpDir[s] \in {Home(s), tmpDir} /\ (s \notin failed => thisTmpDir[s] = Home(s))
    /\ step[s] \in InIndex =>
         /\ thisTmpDir[s] \in {Home(s), tmpDir, Append(Home(s), "index"), Append(tmpDir, "index")}
         /\ s \notin failed => thisTmpDir[s] = Append(Home(s), "index")
    /\ step[s] \in Back =>
         /\ thisTmpDir[s] \in {Home(s), tmpDir, Front(tmpDir)}
         /\ s \notin failed => thisTmpDir[s] = Home(s)

(* A stream nothing failed for is linked in its own directory alone.       *)
Linked ==
  \A s \in Streams \ failed :
    /\ \A d : <<d, "stream", s>> \in links => d = Home(s)
    /\ phase = "setup" /\ step[s] \notin {"mkdir", "link"} =>
         <<Home(s), "stream", s>> \in links
    /\ phase = "setup" /\ step[s] \notin {"mkdir", "link", "metadata"} =>
         <<Home(s), "metadata", s>> \in links

Opened ==
  \A s \in Streams \ failed : \A r \in Streams :
    step[r] = "done" => (s \in opened[r] <=> r = s)

(* The lock is held from the reading of the table to its writing.          *)
Inserted ==
  /\ mapMutex = Free => \A s \in Streams : step[s] # "emplace"
  /\ \A s \in Streams : step[s] = "emplace" => mapMutex = s /\ table = traceSets
  /\ traceSets = {s \in Streams : step[s] \in {"addTrace", "done"}}

Faulty == failed # {} => faults > 0

(* Everything but the temporary directory of the system is below tmpDir.   *)
Contained ==
  phase # "done" =>
    /\ Temp \in dirs /\ tmpDir \in dirs
    /\ \A d \in dirs : d = Temp \/ IsPrefix(tmpDir, d)
    /\ \A l \in links : l[1] \in dirs /\ IsPrefix(tmpDir, l[1])
    /\ \A s \in Streams : step[s] \in InHome => thisTmpDir[s] \in dirs

Removed == phase = "done" => links = {} /\ dirs \subseteq {Temp}

SetupInv ==
  /\ SetupTypes
  /\ Phases
  /\ Where
  /\ Linked
  /\ Opened
  /\ Inserted
  /\ Faulty
  /\ Contained
  /\ Removed

-------------------------------------------------------------------------------
(* Directories.                                                            *)

LEMMA Child ==
  ASSUME NEW d \in Seq(Names), NEW x \in Names
  PROVE  /\ Append(d, x) \in Seq(Names) /\ Append(d, x) # d
         /\ Front(Append(d, x)) = d
         /\ IsPrefix(d, d) /\ IsPrefix(d, Append(d, x))
<1>1. /\ Append(d, x) \in Seq(Names) /\ Len(Append(d, x)) = Len(d) + 1 /\ Len(d) \in Nat
      /\ \A i \in 1 .. Len(d) : Append(d, x)[i] = d[i]
  BY AppendProperties
<1>2. SubSeq(d, 1, Len(d)) = d
  BY SubSeqFull
<1>3. SubSeq(Append(d, x), 1, Len(d)) = d
  <2> DEFINE q == SubSeq(Append(d, x), 1, Len(d))
  <2>1. q \in Seq(Names) /\ Len(q) = Len(d) /\ \A i \in 1 .. Len(d) : q[i] = d[i]
    BY <1>1, SubSeqProperties
  <2> QED
    BY <2>1, SeqEqual
<1>4. Append(d, x) # d
  BY <1>1
<1>5. Front(Append(d, x)) = d
  <2>1. Len(Append(d, x)) - 1 = Len(d)
    BY <1>1
  <2> QED
    BY <1>3, <2>1 DEF Front
<1>6. IsPrefix(d, d) /\ IsPrefix(d, Append(d, x))
  BY <1>1, <1>2, <1>3 DEF IsPrefix
<1> QED
  BY <1>1, <1>4, <1>5, <1>6

(* ... and below what is below it.                                         *)
LEMMA Grandchild ==
  ASSUME NEW d \in Seq(Names), NEW x \in Names, NEW y \in Names
  PROVE  IsPrefix(d, Append(Append(d, x), y))
<1>1. /\ Append(d, x) \in Seq(Names) /\ Append(Append(d, x), y) \in Seq(Names)
      /\ Len(Append(Append(d, x), y)) = Len(d) + 2 /\ Len(d) \in Nat
      /\ \A i \in 1 .. Len(d) : Append(Append(d, x), y)[i] = d[i]
  BY AppendProperties
<1> DEFINE q == SubSeq(Append(Append(d, x), y), 1, Len(d))
<1>2. q \in Seq(Names) /\ Len(q) = Len(d) /\ \A i \in 1 .. Len(d) : q[i] = d[i]
  BY <1>1, SubSeqProperties
<1>3. q = d
  BY <1>2, SeqEqual
<1> QED
  BY <1>1, <1>3, SubSeqFull DEF IsPrefix

(* The directories of two streams differ, and neither is one that a thread *)
(* may have climbed to.                                                    *)
LEMMA Homes ==
  ASSUME SetupTypes
  PROVE  /\ tmpDir \in Seq(Names) /\ Front(tmpDir) \in Seq(Names)
         /\ \A s \in Streams : Home(s) \in Seq(Names) /\ s \in Names
         /\ \A s, r \in Streams : Home(s) = Home(r) => s = r
         /\ \A s \in Streams : Home(s) # tmpDir /\ Home(s) # Front(tmpDir)
         /\ \A s \in Streams : Front(Home(s)) = tmpDir
         /\ IsPrefix(tmpDir, tmpDir)
         /\ \A s \in Streams : IsPrefix(tmpDir, Home(s))
<1>1. /\ Temp \in Seq(Names) /\ PerStream \in Seq(Names)
      /\ Len(Temp) = 1 /\ Len(PerStream) = 2
  BY DEF Temp, PerStream, Names
<1>2. tmpDir \in Seq(Names) /\ Len(tmpDir) \in 1 .. 2
  BY <1>1 DEF SetupTypes
<1>3. Front(tmpDir) \in Seq(Names) /\ Len(Front(tmpDir)) = Len(tmpDir) - 1
  BY <1>2, SubSeqProperties, SMTT(30) DEF Front
<1>4. \A s \in Streams : s \in Names /\ Len(Home(s)) = Len(tmpDir) + 1
  BY <1>2, AppendProperties DEF Names, Home
<1>5. \A s, r \in Streams : Home(s) = Home(r) => s = r
  BY <1>2, <1>4, AppendInjective DEF Home
<1>6. \A s \in Streams : Home(s) \in Seq(Names) /\ Front(Home(s)) = tmpDir
  BY <1>2, <1>4, Child DEF Home
<1>7. IsPrefix(tmpDir, tmpDir) /\ \A s \in Streams : IsPrefix(tmpDir, Home(s))
  <2>1. \A s \in Streams : IsPrefix(tmpDir, Home(s))
    BY <1>2, <1>4, Child DEF Home
  <2>2. "tmp" \in Names
    BY DEF Names
  <2> QED
    BY <1>2, <2>1, <2>2, Child
<1>8. \A s \in Streams : Home(s) # tmpDir /\ Home(s) # Front(tmpDir)
  BY <1>2, <1>3, <1>4
<1> QED
  BY <1>2, <1>3, <1>4, <1>5, <1>6, <1>7, <1>8

-------------------------------------------------------------------------------
(* The setup of the streams.                                               *)

LEMMA SetupInitInv == SetupInit => SetupInv
<1> SUFFICES ASSUME SetupInit PROVE SetupInv
  OBVIOUS
<1>1. Temp \in Seq(Names)
  BY DEF Temp, Names
<1>2. SetupTypes
  BY <1>1 DEF SetupInit, SetupTypes, Steps
<1>3. Contained /\ Removed
  BY <1>1 DEF SetupInit, Contained, Removed, InHome
<1> QED
  BY <1>2, <1>3 DEF SetupInit, SetupInv, Phases, Where, Linked, Opened, Inserted, Faulty,
     InHome, InIndex, Back

(* The directory of the streams is in the system's temporary one.          *)
LEMMA PerStreamIs ==
  /\ Temp \in Seq(Names) /\ PerStream \in Seq(Names)
  /\ Append(Temp, "per_stream") = PerStream
<1>1. Temp \in Seq(Names) /\ PerStream \in Seq(Names)
  BY DEF Temp, PerStream, Names
<1>2. /\ Len(Temp) = 1 /\ Temp[1] = "tmp" /\ "per_stream" \in Names
      /\ Len(PerStream) = 2 /\ PerStream[1] = "tmp" /\ PerStream[2] = "per_stream"
  BY DEF Temp, PerStream, Names
<1> DEFINE a == Append(Temp, "per_stream")
<1>3. /\ a \in Seq(Names) /\ Len(a) = 2 /\ a[1] = "tmp" /\ a[2] = "per_stream"
  <2>1. /\ a \in Seq(Names) /\ Len(a) = Len(Temp) + 1 /\ a[Len(Temp) + 1] = "per_stream"
        /\ \A i \in 1 .. Len(Temp) : a[i] = Temp[i]
    <3>1. \A d \in Seq(Names) : \A x \in Names :
            /\ Append(d, x) \in Seq(Names) /\ Len(Append(d, x)) = Len(d) + 1
            /\ Append(d, x)[Len(d) + 1] = x
            /\ \A i \in 1 .. Len(d) : Append(d, x)[i] = d[i]
      BY AppendProperties
    <3> QED
      BY <1>1, <1>2, <3>1
  <2> HIDE DEF a
  <2> QED
    BY <1>2, <2>1
<1>4. Append(Temp, "per_stream") = PerStream
  <2> HIDE DEF a
  <2>1. \A i \in 1 .. Len(a) : a[i] = PerStream[i]
    BY <1>2, <1>3
  <2>2. a = PerStream
    BY <1>1, <1>2, <1>3, <2>1, SeqEqual
  <2> QED
    BY <2>2 DEF a
<1> QED
  BY <1>1, <1>4

(* The main thread's first two calls leave tmpDir at a directory that      *)
(* exists.                                                                 *)
LEMMA MakeTmpDirInv ==
  ASSUME SetupInv, MakeTmpDir
  PROVE  SetupInv'
<1>1. PICK ok \in {TRUE, ~RootMayFail} : Fails(ok) /\ MakeDir(PerStream, ok)
  BY DEF MakeTmpDir
<1>2. /\ phase = "start" /\ phase' = "setup" /\ tmpDir = Temp /\ dirs = {Temp} /\ links = {}
      /\ \A s \in Streams : step[s] = "mkdir"
      /\ tmpDir' = Entered(Temp, "per_stream")
      /\ UNCHANGED <<links, thisTmpDir, step, mapVars, opened, failed>>
      /\ failed = {}
  BY DEF MakeTmpDir, SetupInv, Phases
<1>3. faults' \in Nat
  BY <1>1 DEF Fails, SetupInv, SetupTypes
<1>4. Temp \in Seq(Names) /\ PerStream \in Seq(Names) /\ Append(Temp, "per_stream") = PerStream
  BY PerStreamIs
<1>5. dirs' = {Temp} \/ dirs' = {Temp, PerStream}
  BY <1>1, <1>2 DEF MakeDir
<1>6. tmpDir' = IF PerStream \in dirs' THEN PerStream ELSE Temp
  BY <1>2, <1>4 DEF Entered
<1>7. SetupTypes'
  BY <1>2, <1>3, <1>4, <1>5, <1>6 DEF SetupInv, SetupTypes
<1>8. Contained' /\ Removed'
  <2>1. IsPrefix(PerStream, PerStream)
    BY <1>4, Child DEF Names
  <2> QED
    BY <1>2, <1>5, <1>6, <2>1 DEF Contained, Removed, InHome
<1>9. Where' /\ Linked' /\ Opened' /\ Phases' /\ Faulty'
  BY <1>2 DEF Where, Linked, Opened, Phases, Faulty, InHome, InIndex, Back
<1>10. Inserted'
  BY <1>2 DEF Inserted, mapVars, SetupInv
<1> QED
  BY <1>7, <1>8, <1>9, <1>10 DEF SetupInv

(* What every operation of a thread has in common.                         *)
LEMMA StepOf ==
  ASSUME SetupInv, NEW s \in Streams, NEW this, NEW next \in Steps, At(s, this, next)
  PROVE  /\ phase = "setup" /\ phase' = "setup" /\ tmpDir' = tmpDir
         /\ step[s] = this
         /\ step' \in [Streams -> Steps]
         /\ \A r \in Streams : step'[r] = IF r = s THEN next ELSE step[r]
         /\ \A r : Home(r)' = Home(r)
         /\ Phases'
BY DEF At, SetupInv, SetupTypes, Home, Phases

(* What fails is recorded.                                                 *)
LEMMA FailsOf ==
  ASSUME SetupInv, NEW s \in Streams, NEW ok \in BOOLEAN, FailsFor(s, ok)
  PROVE  /\ failed' \subseteq Streams /\ failed \subseteq failed'
         /\ failed' \subseteq failed \cup {s}
         /\ faults' \in Nat /\ faults' >= faults /\ Faulty'
         /\ failed' = IF ok THEN failed ELSE failed \cup {s}
BY DEF FailsFor, Fails, SetupInv, SetupTypes, Faulty

(* What a call that creates a directory or a link does when a stream makes *)
(* it: only that stream's record of failures may change.                   *)
LEMMA MkdirOf ==
  ASSUME SetupInv, NEW s \in Streams, NEW path,
         \E ok \in BOOLEAN : FailsFor(s, ok) /\ MakeDir(path, ok)
  PROVE  /\ failed' \subseteq Streams /\ failed \subseteq failed'
         /\ failed' \subseteq failed \cup {s}
         /\ faults' \in Nat /\ Faulty'
         /\ dirs \subseteq dirs' /\ dirs' \subseteq dirs \cup {path}
         /\ path \in dirs' \/ s \in failed'
<1>1. PICK ok \in BOOLEAN : FailsFor(s, ok) /\ MakeDir(path, ok)
  OBVIOUS
<1>2. /\ failed' \subseteq Streams /\ failed \subseteq failed' /\ failed' \subseteq failed \cup {s}
      /\ faults' \in Nat /\ Faulty'
      /\ failed' = IF ok THEN failed ELSE failed \cup {s}
  BY <1>1, FailsOf
<1>3. dirs' = IF ok THEN dirs \cup {path} ELSE dirs
  BY <1>1 DEF MakeDir
<1> QED
  BY <1>2, <1>3

(* Each call of the lambda keeps the invariant: the stream's directory,    *)
(* ...                                                                     *)
LEMMA MakeStreamDirInv ==
  ASSUME SetupInv, NEW s \in Streams, MakeStreamDir(s)
  PROVE  SetupInv'
<1>1. \E ok \in BOOLEAN : FailsFor(s, ok) /\ MakeDir(Home(s), ok)
  BY DEF MakeStreamDir, Home
<1>2. /\ At(s, "mkdir", "link")
      /\ thisTmpDir' = [thisTmpDir EXCEPT ![s] = Entered(tmpDir, s)]
      /\ UNCHANGED <<links, mapMutex, table, traceSets, opened>>
  BY DEF MakeStreamDir, mapVars
<1>3. /\ phase = "setup" /\ phase' = "setup" /\ tmpDir' = tmpDir /\ step[s] = "mkdir"
      /\ step' \in [Streams -> Steps] /\ Phases'
      /\ \A r \in Streams : step'[r] = IF r = s THEN "link" ELSE step[r]
      /\ \A r : Home(r)' = Home(r)
  BY <1>2, StepOf DEF Steps, InHome
<1>4. /\ failed' \subseteq Streams /\ failed \subseteq failed' /\ failed' \subseteq failed \cup {s}
      /\ faults' \in Nat /\ Faulty'
      /\ dirs \subseteq dirs' /\ dirs' \subseteq dirs \cup {Home(s)}
      /\ Home(s) \in dirs' \/ s \in failed'
  BY <1>1, MkdirOf
<1>5. Home(s) \in Seq(Names) /\ tmpDir \in Seq(Names) /\ tmpDir \in dirs
  <2>1. Home(s) \in Seq(Names) /\ tmpDir \in Seq(Names)
    BY Homes DEF SetupInv
  <2> QED
    BY <1>3, <2>1 DEF SetupInv, Contained
<1>7. /\ Entered(tmpDir, s) \in {Home(s), tmpDir} /\ Entered(tmpDir, s) \in dirs'
      /\ s \notin failed' => Entered(tmpDir, s) = Home(s)
      /\ Entered(tmpDir, s) \in Seq(Names)
  <2>1. Entered(tmpDir, s) = IF Home(s) \in dirs' THEN Home(s) ELSE tmpDir
    BY DEF Entered, Home
  <2> QED
    BY <1>4, <1>5, <2>1
<1>8. \A r \in Streams : thisTmpDir'[r] = IF r = s THEN Entered(tmpDir, s) ELSE thisTmpDir[r]
  BY <1>2 DEF SetupInv, SetupTypes
<1>9. SetupTypes'
  <2>1. thisTmpDir' \in [Streams -> Seq(Names)]
    BY <1>2, <1>7 DEF SetupInv, SetupTypes
  <2>2. dirs' \subseteq Seq(Names)
    BY <1>4, <1>5 DEF SetupInv, SetupTypes
  <2> QED
    BY <1>2, <1>3, <1>4, <2>1, <2>2 DEF SetupInv, SetupTypes
<1>10. Where'
  BY <1>3, <1>4, <1>7, <1>8 DEF SetupInv, Where, InHome, InIndex, Back
<1>11. Linked' /\ Opened'
  BY <1>2, <1>3, <1>4 DEF SetupInv, Linked, Opened
<1>12. Inserted'
  BY <1>2, <1>3 DEF SetupInv, Inserted
<1>13. Contained' /\ Removed'
  <2>1. IsPrefix(tmpDir, Home(s))
    BY Homes DEF SetupInv
  <2> QED
    BY <1>2, <1>3, <1>4, <1>7, <1>8, <2>1 DEF SetupInv, Contained, Removed, InHome
<1> QED
  BY <1>3, <1>4, <1>9, <1>10, <1>11, <1>12, <1>13 DEF SetupInv

(* A link lands where the thread is.                                       *)
LEMMA LinkOf ==
  ASSUME SetupInv, phase = "setup", NEW s \in Streams, NEW dir \in Seq(Names), dir \in dirs,
         NEW kind \in {"stream", "metadata", "idx"}, Link(s, dir, kind)
  PROVE  /\ links' \subseteq links \cup {<<dir, kind, s>>} /\ links \subseteq links'
         /\ s \notin failed' => <<dir, kind, s>> \in links'
         /\ failed' \subseteq Streams /\ failed \subseteq failed' /\ failed' \subseteq failed \cup {s}
         /\ faults' \in Nat /\ Faulty'
         /\ UNCHANGED <<dirs, mapMutex, table, traceSets, opened>>
         /\ links' \subseteq Seq(Names) \X {"stream", "metadata", "idx"} \X Streams
<1>1. PICK ok \in BOOLEAN :
        /\ FailsFor(s, ok)
        /\ links' = IF ok THEN links \cup {<<dir, kind, s>>} ELSE links
  BY DEF Link
<1>2. /\ failed' \subseteq Streams /\ failed \subseteq failed' /\ failed' \subseteq failed \cup {s}
      /\ faults' \in Nat /\ Faulty'
      /\ failed' = IF ok THEN failed ELSE failed \cup {s}
  BY <1>1, FailsOf
<1>3. UNCHANGED <<dirs, mapMutex, table, traceSets, opened>>
  BY DEF Link, mapVars
<1> QED
  BY <1>1, <1>2, <1>3 DEF SetupInv, SetupTypes

(* It stays below tmpDir, and a stream is linked at home.                  *)
LEMMA LinkKeeps ==
  ASSUME SetupInv, phase = "setup", NEW s \in Streams, NEW dir \in Seq(Names), dir \in dirs,
         NEW kind \in {"stream", "metadata", "idx"}, Link(s, dir, kind),
         IsPrefix(tmpDir, dir), kind = "stream" /\ s \notin failed => dir = Home(s)
  PROVE  /\ \A l \in links' : l[1] \in dirs /\ IsPrefix(tmpDir, l[1])
         /\ \A r \in Streams \ failed' : \A d : <<d, "stream", r>> \in links' => d = Home(r)
<1>1. /\ links' \subseteq links \cup {<<dir, kind, s>>} /\ failed \subseteq failed'
  BY LinkOf, ZenonT(30)
<1>2. \A l \in links' : l[1] \in dirs /\ IsPrefix(tmpDir, l[1])
  <2> SUFFICES ASSUME NEW l \in links' PROVE l[1] \in dirs /\ IsPrefix(tmpDir, l[1])
    OBVIOUS
  <2>1. CASE l \in links
    BY <2>1 DEF SetupInv, Contained
  <2>2. CASE l = <<dir, kind, s>>
    BY <2>2
  <2> QED
    BY <1>1, <2>1, <2>2
<1>3. ASSUME NEW r \in Streams, r \notin failed', NEW d, <<d, "stream", r>> \in links'
      PROVE  d = Home(r)
  <2>1. r \notin failed
    BY <1>1, <1>3
  <2>2. CASE <<d, "stream", r>> \in links
    BY <2>1, <2>2 DEF SetupInv, Linked
  <2>3. CASE <<d, "stream", r>> = <<dir, kind, s>>
    <3>1. d = dir /\ kind = "stream" /\ r = s
      BY <2>3
    <3> QED
      BY <2>1, <3>1
  <2> QED
    BY <1>1, <1>3, <2>2, <2>3
<1> QED
  BY <1>2, <1>3

(* ... the link to its data, ...                                           *)
LEMMA LinkStreamInv ==
  ASSUME SetupInv, NEW s \in Streams, LinkStream(s)
  PROVE  SetupInv'
<1> DEFINE dir == thisTmpDir[s]
<1>1. /\ At(s, "link", "metadata") /\ Link(s, dir, "stream") /\ UNCHANGED thisTmpDir
  BY DEF LinkStream, StreamDir
<1>2. /\ phase = "setup" /\ phase' = "setup" /\ tmpDir' = tmpDir /\ step[s] = "link"
      /\ step' \in [Streams -> Steps] /\ Phases'
      /\ \A r \in Streams : step'[r] = IF r = s THEN "metadata" ELSE step[r]
      /\ \A r : Home(r)' = Home(r)
  BY <1>1, StepOf DEF Steps, InHome
<1>3. /\ dir \in Seq(Names) /\ dir \in dirs /\ dir \in {Home(s), tmpDir}
      /\ s \notin failed => dir = Home(s)
  BY <1>2 DEF SetupInv, SetupTypes, Where, Contained, InHome
<1>4. IsPrefix(tmpDir, dir)
  BY <1>3, Homes DEF SetupInv
<1>5. /\ links' \subseteq links \cup {<<dir, "stream", s>>} /\ links \subseteq links'
      /\ s \notin failed' => <<dir, "stream", s>> \in links'
      /\ failed' \subseteq Streams /\ failed \subseteq failed' /\ failed' \subseteq failed \cup {s}
      /\ faults' \in Nat /\ Faulty'
      /\ UNCHANGED <<dirs, mapMutex, table, traceSets, opened>>
      /\ links' \subseteq Seq(Names) \X {"stream", "metadata", "idx"} \X Streams
  BY <1>1, <1>2, <1>3, LinkOf
<1>6. /\ \A l \in links' : l[1] \in dirs /\ IsPrefix(tmpDir, l[1])
      /\ \A r \in Streams \ failed' : \A d : <<d, "stream", r>> \in links' => d = Home(r)
  BY <1>1, <1>2, <1>3, <1>4, LinkKeeps
<1>7. SetupTypes'
  BY <1>1, <1>2, <1>5 DEF SetupInv, SetupTypes
<1>8. Where'
  BY <1>1, <1>2, <1>3, <1>5 DEF SetupInv, Where, InHome, InIndex, Back
<1>9. Linked'
  BY <1>2, <1>3, <1>5, <1>6 DEF SetupInv, Linked
<1>10. Opened' /\ Inserted'
  BY <1>2, <1>5 DEF SetupInv, Opened, Inserted
<1>11. Contained' /\ Removed'
  BY <1>1, <1>2, <1>5, <1>6 DEF SetupInv, Contained, Removed, InHome
<1> QED
  BY <1>2, <1>5, <1>7, <1>8, <1>9, <1>10, <1>11 DEF SetupInv

(* ... the link to the metadata, ...                                       *)
LEMMA LinkMetadataInv ==
  ASSUME SetupInv, NEW s \in Streams, LinkMetadata(s)
  PROVE  SetupInv'
<1> DEFINE dir == thisTmpDir[s]
<1>1. /\ At(s, "metadata", "index") /\ Link(s, dir, "metadata") /\ UNCHANGED thisTmpDir
  BY DEF LinkMetadata, StreamDir
<1>2. /\ phase = "setup" /\ phase' = "setup" /\ tmpDir' = tmpDir /\ step[s] = "metadata"
      /\ step' \in [Streams -> Steps] /\ Phases'
      /\ \A r \in Streams : step'[r] = IF r = s THEN "index" ELSE step[r]
      /\ \A r : Home(r)' = Home(r)
  BY <1>1, StepOf DEF Steps, InHome
<1>3. /\ dir \in Seq(Names) /\ dir \in dirs /\ dir \in {Home(s), tmpDir}
      /\ s \notin failed => dir = Home(s)
  BY <1>2 DEF SetupInv, SetupTypes, Where, Contained, InHome
<1>4. IsPrefix(tmpDir, dir)
  BY <1>3, Homes DEF SetupInv
<1>5. /\ links' \subseteq links \cup {<<dir, "metadata", s>>} /\ links \subseteq links'
      /\ s \notin failed' => <<dir, "metadata", s>> \in links'
      /\ failed' \subseteq Streams /\ failed \subseteq failed' /\ failed' \subseteq failed \cup {s}
      /\ faults' \in Nat /\ Faulty'
      /\ UNCHANGED <<dirs, mapMutex, table, traceSets, opened>>
      /\ links' \subseteq Seq(Names) \X {"stream", "metadata", "idx"} \X Streams
  BY <1>1, <1>2, <1>3, LinkOf
<1>6. /\ \A l \in links' : l[1] \in dirs /\ IsPrefix(tmpDir, l[1])
      /\ \A r \in Streams \ failed' : \A d : <<d, "stream", r>> \in links' => d = Home(r)
  BY <1>1, <1>2, <1>3, <1>4, LinkKeeps
<1>7. SetupTypes'
  BY <1>1, <1>2, <1>5 DEF SetupInv, SetupTypes
<1>8. Where'
  BY <1>1, <1>2, <1>3, <1>5 DEF SetupInv, Where, InHome, InIndex, Back
<1>9. Linked'
  BY <1>2, <1>3, <1>5, <1>6 DEF SetupInv, Linked
<1>10. Opened' /\ Inserted'
  BY <1>2, <1>5 DEF SetupInv, Opened, Inserted
<1>11. Contained' /\ Removed'
  BY <1>1, <1>2, <1>5, <1>6 DEF SetupInv, Contained, Removed, InHome
<1> QED
  BY <1>2, <1>5, <1>7, <1>8, <1>9, <1>10, <1>11 DEF SetupInv

(* ... the directory of its index, ...                                     *)
LEMMA MakeIndexDirInv ==
  ASSUME SetupInv, NEW s \in Streams, MakeIndexDir(s)
  PROVE  SetupInv'
<1> DEFINE dir  == thisTmpDir[s]
           path == Append(dir, "index")
<1>1. \E ok \in BOOLEAN : FailsFor(s, ok) /\ MakeDir(path, ok)
  BY DEF MakeIndexDir
<1>2. /\ At(s, "index", "idx")
      /\ thisTmpDir' = [thisTmpDir EXCEPT ![s] = Entered(dir, "index")]
      /\ UNCHANGED <<links, mapMutex, table, traceSets, opened>>
  BY DEF MakeIndexDir, mapVars
<1>3. /\ phase = "setup" /\ phase' = "setup" /\ tmpDir' = tmpDir /\ step[s] = "index"
      /\ step' \in [Streams -> Steps] /\ Phases'
      /\ \A r \in Streams : step'[r] = IF r = s THEN "idx" ELSE step[r]
      /\ \A r : Home(r)' = Home(r)
  BY <1>2, StepOf DEF Steps, InIndex
<1>4. /\ failed' \subseteq Streams /\ failed \subseteq failed' /\ failed' \subseteq failed \cup {s}
      /\ faults' \in Nat /\ Faulty'
      /\ dirs \subseteq dirs' /\ dirs' \subseteq dirs \cup {path}
      /\ path \in dirs' \/ s \in failed'
  BY <1>1, MkdirOf
<1>5. /\ dir \in Seq(Names) /\ dir \in dirs /\ dir \in {Home(s), tmpDir}
      /\ s \notin failed => dir = Home(s)
  BY <1>3 DEF SetupInv, SetupTypes, Where, Contained, InHome
<1>6. path \in Seq(Names) /\ IsPrefix(tmpDir, path)
  <2>1. tmpDir \in Seq(Names) /\ s \in Names /\ "index" \in Names
    BY Homes DEF SetupInv, Names
  <2>2. CASE dir = Home(s)
    BY <1>5, <2>1, <2>2, Child, Grandchild DEF Home
  <2>3. CASE dir = tmpDir
    BY <1>5, <2>1, <2>3, Child
  <2> QED
    BY <1>5, <2>2, <2>3
<1>7. /\ Entered(dir, "index") \in {Home(s), tmpDir, Append(Home(s), "index"), Append(tmpDir, "index")}
      /\ s \notin failed' => Entered(dir, "index") = Append(Home(s), "index")
      /\ Entered(dir, "index") \in Seq(Names)
  <2>1. Entered(dir, "index") = IF path \in dirs' THEN path ELSE dir
    BY DEF Entered
  <2> QED
    BY <1>4, <1>5, <1>6, <2>1
<1>8. \A r \in Streams : thisTmpDir'[r] = IF r = s THEN Entered(dir, "index") ELSE thisTmpDir[r]
  BY <1>2 DEF SetupInv, SetupTypes
<1>9. SetupTypes'
  <2>1. thisTmpDir' \in [Streams -> Seq(Names)]
    BY <1>2, <1>7 DEF SetupInv, SetupTypes
  <2>2. dirs' \subseteq Seq(Names)
    BY <1>4, <1>6 DEF SetupInv, SetupTypes
  <2> QED
    BY <1>2, <1>3, <1>4, <2>1, <2>2 DEF SetupInv, SetupTypes
<1>10. Where'
  BY <1>3, <1>4, <1>7, <1>8 DEF SetupInv, Where, InHome, InIndex, Back
<1>11. Linked' /\ Opened'
  BY <1>2, <1>3, <1>4 DEF SetupInv, Linked, Opened
<1>12. Inserted'
  BY <1>2, <1>3 DEF SetupInv, Inserted
<1>13. Contained' /\ Removed'
  BY <1>2, <1>3, <1>4, <1>6, <1>8 DEF SetupInv, Contained, Removed, InHome
<1> QED
  BY <1>3, <1>4, <1>9, <1>10, <1>11, <1>12, <1>13 DEF SetupInv

(* ... the link to its index, ...                                          *)
LEMMA LinkIndexInv ==
  ASSUME SetupInv, NEW s \in Streams, LinkIndex(s)
  PROVE  SetupInv'
<1> DEFINE up == Front(thisTmpDir[s])
<1>1. /\ At(s, "idx", "lock") /\ Link(s, tmpDir, "idx")
      /\ thisTmpDir' = [thisTmpDir EXCEPT ![s] = up]
  BY DEF LinkIndex
<1>2. /\ phase = "setup" /\ phase' = "setup" /\ tmpDir' = tmpDir /\ step[s] = "idx"
      /\ step' \in [Streams -> Steps] /\ Phases'
      /\ \A r \in Streams : step'[r] = IF r = s THEN "lock" ELSE step[r]
      /\ \A r : Home(r)' = Home(r)
  BY <1>1, StepOf DEF Steps, Back
<1>3. /\ thisTmpDir[s] \in {Home(s), tmpDir, Append(Home(s), "index"), Append(tmpDir, "index")}
      /\ s \notin failed => thisTmpDir[s] = Append(Home(s), "index")
  BY <1>2 DEF SetupInv, Where, InIndex
<1>4. /\ tmpDir \in Seq(Names) /\ Home(s) \in Seq(Names) /\ "index" \in Names /\ tmpDir \in dirs
      /\ Front(Home(s)) = tmpDir /\ IsPrefix(tmpDir, tmpDir) /\ Front(tmpDir) \in Seq(Names)
  BY <1>2, Homes DEF SetupInv, Names, Contained
<1>5. Front(Append(Home(s), "index")) = Home(s) /\ Front(Append(tmpDir, "index")) = tmpDir
  BY <1>4, Child
<1>6. /\ up \in {Home(s), tmpDir, Front(tmpDir)} /\ up \in Seq(Names)
      /\ s \notin failed => up = Home(s)
  BY <1>3, <1>4, <1>5
<1>7. /\ links \subseteq links'
      /\ failed' \subseteq Streams /\ failed \subseteq failed' /\ failed' \subseteq failed \cup {s}
      /\ faults' \in Nat /\ Faulty'
      /\ UNCHANGED <<dirs, mapMutex, table, traceSets, opened>>
      /\ links' \subseteq Seq(Names) \X {"stream", "metadata", "idx"} \X Streams
  BY <1>1, <1>2, <1>4, LinkOf
<1>8. /\ \A l \in links' : l[1] \in dirs /\ IsPrefix(tmpDir, l[1])
      /\ \A r \in Streams \ failed' : \A d : <<d, "stream", r>> \in links' => d = Home(r)
  BY <1>1, <1>2, <1>4, LinkKeeps
<1>9. \A r \in Streams : thisTmpDir'[r] = IF r = s THEN up ELSE thisTmpDir[r]
  BY <1>1 DEF SetupInv, SetupTypes
<1>10. SetupTypes'
  <2>1. thisTmpDir' \in [Streams -> Seq(Names)]
    BY <1>1, <1>6 DEF SetupInv, SetupTypes
  <2> QED
    BY <1>2, <1>7, <2>1 DEF SetupInv, SetupTypes
<1>11. Where'
  BY <1>2, <1>6, <1>7, <1>9 DEF SetupInv, Where, InHome, InIndex, Back
<1>12. Linked'
  BY <1>2, <1>7, <1>8 DEF SetupInv, Linked
<1>13. Opened' /\ Inserted'
  BY <1>2, <1>7 DEF SetupInv, Opened, Inserted
<1>14. Contained' /\ Removed'
  BY <1>2, <1>7, <1>8, <1>9 DEF SetupInv, Contained, Removed, InHome
<1> QED
  BY <1>2, <1>7, <1>10, <1>11, <1>12, <1>13, <1>14 DEF SetupInv

(* ... the lock, under which the table is read, ...                        *)
LEMMA LockInv ==
  ASSUME SetupInv, NEW s \in Streams, Lock(s)
  PROVE  SetupInv'
<1>1. /\ At(s, "lock", "emplace") /\ mapMutex = Free /\ mapMutex' = s /\ table' = traceSets
      /\ UNCHANGED <<dirs, links, thisTmpDir, traceSets, opened, failed, faults>>
  BY DEF Lock, CanLock, fsVars
<1>2. /\ phase = "setup" /\ phase' = "setup" /\ tmpDir' = tmpDir /\ step[s] = "lock"
      /\ step' \in [Streams -> Steps] /\ Phases'
      /\ \A r \in Streams : step'[r] = IF r = s THEN "emplace" ELSE step[r]
      /\ \A r : Home(r)' = Home(r)
  BY <1>1, StepOf DEF Steps, Back
<1>3. SetupTypes' /\ Where' /\ Faulty'
  BY <1>1, <1>2 DEF SetupInv, SetupTypes, Where, Faulty, InHome, InIndex, Back
<1>4. Linked' /\ Opened' /\ Contained' /\ Removed'
  BY <1>1, <1>2 DEF SetupInv, Linked, Opened, Contained, Removed, InHome
<1>5. Inserted'
  BY <1>1, <1>2, StreamSetupAssumption DEF SetupInv, Inserted
<1> QED
  BY <1>2, <1>3, <1>4, <1>5 DEF SetupInv

(* ... and the insertion, which writes the table as it was read.           *)
LEMMA EmplaceInv ==
  ASSUME SetupInv, NEW s \in Streams, Emplace(s)
  PROVE  SetupInv'
<1>1. /\ At(s, "emplace", "addTrace") /\ traceSets' = table \cup {s} /\ mapMutex' = Free
      /\ UNCHANGED <<dirs, links, thisTmpDir, opened, failed, faults>>
  BY DEF Emplace, fsVars
<1>2. /\ phase = "setup" /\ phase' = "setup" /\ tmpDir' = tmpDir /\ step[s] = "emplace"
      /\ step' \in [Streams -> Steps] /\ Phases'
      /\ \A r \in Streams : step'[r] = IF r = s THEN "addTrace" ELSE step[r]
      /\ \A r : Home(r)' = Home(r)
  BY <1>1, StepOf DEF Steps, Back
<1>3. SetupTypes' /\ Where' /\ Faulty'
  BY <1>1, <1>2 DEF SetupInv, SetupTypes, Where, Faulty, InHome, InIndex, Back
<1>4. Linked' /\ Opened' /\ Contained' /\ Removed'
  BY <1>1, <1>2 DEF SetupInv, Linked, Opened, Contained, Removed, InHome
<1>5. Inserted'
  <2>1. table = traceSets /\ \A r \in Streams : step[r] = "emplace" => r = s
    BY <1>2 DEF SetupInv, Inserted
  <2>2. traceSets' = {r \in Streams : step'[r] \in {"addTrace", "done"}}
    BY <1>1, <1>2, <2>1 DEF SetupInv, Inserted
  <2> QED
    BY <1>1, <1>2, <2>1, <2>2 DEF Inserted
<1> QED
  BY <1>2, <1>3, <1>4, <1>5 DEF SetupInv

(* A trace set finds its stream alone: those that fail are linked in the   *)
(* directory of all, which is nobody's.                                    *)
LEMMA AddTraceInv ==
  ASSUME SetupInv, NEW s \in Streams, AddTrace(s)
  PROVE  SetupInv'
<1> DEFINE here == Contents(thisTmpDir[s])
<1>1. /\ At(s, "addTrace", "done") /\ opened' = [opened EXCEPT ![s] = here]
      /\ UNCHANGED <<dirs, links, thisTmpDir, mapMutex, table, traceSets, failed, faults>>
  BY DEF AddTrace, fsVars, mapVars
<1>2. /\ phase = "setup" /\ phase' = "setup" /\ tmpDir' = tmpDir /\ step[s] = "addTrace"
      /\ step' \in [Streams -> Steps] /\ Phases'
      /\ \A r \in Streams : step'[r] = IF r = s THEN "done" ELSE step[r]
      /\ \A r : Home(r)' = Home(r)
  BY <1>1, StepOf DEF Steps, Back
<1>3. here \subseteq Streams
  BY DEF Contents
<1>4. \A r \in Streams : opened'[r] = IF r = s THEN here ELSE opened[r]
  BY <1>1 DEF SetupInv, SetupTypes
<1>5. SetupTypes'
  <2>1. opened' \in [Streams -> SUBSET Streams]
    BY <1>1, <1>3 DEF SetupInv, SetupTypes
  <2> QED
    BY <1>1, <1>2, <2>1 DEF SetupInv, SetupTypes
<1>6. Where' /\ Faulty'
  BY <1>1, <1>2 DEF SetupInv, Where, Faulty, InHome, InIndex, Back
<1>7. Linked' /\ Contained' /\ Removed'
  BY <1>1, <1>2 DEF SetupInv, Linked, Contained, Removed, InHome
<1>8. Opened'
  <2>1. ASSUME NEW r \in Streams, r \notin failed PROVE r \in here <=> r = s
    <3>1. \A d : <<d, "stream", r>> \in links => d = Home(r)
      BY <2>1 DEF SetupInv, Linked
    <3>2. thisTmpDir[s] \in {Home(s), tmpDir, Front(tmpDir)}
      BY <1>2 DEF SetupInv, Where, Back
    <3>3. thisTmpDir[s] = Home(r) => r = s
      BY <3>2, Homes DEF SetupInv
    <3>4. CASE r = s
      <4>1. thisTmpDir[s] = Home(s)
        BY <1>2, <2>1, <3>4 DEF SetupInv, Where, Back
      <4>2. <<Home(s), "stream", s>> \in links /\ <<Home(s), "metadata", s>> \in links
        BY <1>2, <2>1, <3>4 DEF SetupInv, Linked
      <4> QED
        BY <3>4, <4>1, <4>2 DEF Contents
    <3>5. CASE r # s
      <4>1. <<thisTmpDir[s], "stream", r>> \notin links
        BY <3>1, <3>3, <3>5
      <4> QED
        BY <3>5, <4>1 DEF Contents
    <3> QED
      BY <3>4, <3>5
  <2> QED
    BY <1>1, <1>2, <1>4, <2>1 DEF SetupInv, Opened
<1>9. Inserted'
  BY <1>1, <1>2 DEF SetupInv, Inserted
<1> QED
  BY <1>2, <1>5, <1>6, <1>7, <1>8, <1>9 DEF SetupInv

(* Every step of a pool thread keeps the set-up's invariant.               *)
LEMMA SetUpInv ==
  ASSUME SetupInv, NEW s \in Streams, SetUp(s)
  PROVE  SetupInv'
BY MakeStreamDirInv, LinkStreamInv, LinkMetadataInv, MakeIndexDirInv, LinkIndexInv, LockInv,
   EmplaceInv, AddTraceInv DEF SetUp
-------------------------------------------------------------------------------
(* The calling thread.                                                     *)

(* After the setup nothing moves until the end, though more may fail.      *)
LEMMA QuietInv ==
  ASSUME SetupInv, phase # "done", \A s \in Streams : step[s] = "done",
         phase' \in {"index", "sorted", "crashed"},
         UNCHANGED <<dirs, links, tmpDir, thisTmpDir, step, mapMutex, table, traceSets, opened>>,
         failed \subseteq failed', failed' \subseteq Streams, faults' \in Nat, Faulty'
  PROVE  SetupInv'
<1>1. SetupTypes' /\ Phases' /\ Removed' /\ Inserted'
  BY DEF SetupInv, SetupTypes, Phases, Removed, Inserted
<1>2. Where' /\ Opened' /\ Linked'
  BY DEF SetupInv, Where, Opened, Linked, Home, InHome, InIndex, Back
<1>3. Contained'
  BY DEF SetupInv, Contained, InHome
<1> QED
  BY <1>1, <1>2, <1>3 DEF SetupInv

(* Removing what is below tmpDir leaves at most the temporary directory.   *)
LEMMA ReportInv ==
  ASSUME SetupInv, Report
  PROVE  SetupInv'
<1>1. /\ phase = "sorted" /\ phase' = "done" /\ RemoveTmpDir
      /\ UNCHANGED <<tmpDir, thisTmpDir, step, mapMutex, table, traceSets, opened, failed, faults>>
  BY DEF Report, mapVars
<1>2. /\ dirs' = dirs \ {d \in dirs : IsPrefix(tmpDir, d)}
      /\ links' = {l \in links : l[1] \notin {d \in dirs : IsPrefix(tmpDir, d)}}
  BY <1>1 DEF RemoveTmpDir, Below
<1>3. links' = {} /\ dirs' \subseteq {Temp}
  BY <1>1, <1>2 DEF SetupInv, Contained
<1>4. \A s \in Streams : step[s] = "done"
  BY <1>1 DEF SetupInv, Phases
<1>5. SetupTypes' /\ Phases' /\ Removed' /\ Inserted' /\ Contained' /\ Faulty'
  BY <1>1, <1>2, <1>3, <1>4 DEF SetupInv, SetupTypes, Phases, Removed, Inserted, Contained, Faulty
<1>6. Where' /\ Opened' /\ Linked'
  BY <1>1, <1>3, <1>4 DEF SetupInv, Where, Opened, Linked, Home, InHome, InIndex, Back
<1> QED
  BY <1>5, <1>6 DEF SetupInv

(* An index file that has a trace set belongs to a stream.                 *)
LEMMA AllInserted ==
  ASSUME SetupInv, phase \notin {"start", "setup"}
  PROVE  traceSets = Streams
BY DEF SetupInv, Phases, Inserted

(* What reading an index does outside of the reader.                       *)
LEMMA ReadingInv ==
  ASSUME SetupInv, NEW f \in Streams \cup {Stranger},
         \/ NoTraceSet(f)
         \/ CannotOpenIndex(f)
         \/ NoTrace(f)
         \/ RefuseIndex(f)
         \/ ReadIndex(f)
  PROVE  /\ SetupInv'
         /\ UNCHANGED <<dirs, links, tmpDir, thisTmpDir, step, mapMutex, table, traceSets, opened>>
<1>1. /\ phase = "index" /\ phase' \in {"index", "crashed"}
      /\ UNCHANGED <<dirs, links, tmpDir, thisTmpDir, step, mapMutex, table, traceSets, opened>>
  BY DEF NoTraceSet, CannotOpenIndex, NoTrace, RefuseIndex, ReadIndex, Read, Crash, Reading,
     fsVars, mapVars
<1>2. traceSets = Streams /\ \A s \in Streams : step[s] = "done"
  BY <1>1, AllInserted DEF SetupInv, Phases
<1>3. failed \subseteq failed' /\ failed' \subseteq Streams /\ faults' \in Nat /\ Faulty'
  <2>1. CASE UNCHANGED <<failed, faults>>
    BY <2>1 DEF SetupInv, SetupTypes, Faulty
  <2>2. CASE f \in traceSets /\ FailsFor(f, FALSE)
    <3>1. f \in Streams
      BY <1>2, <2>2
    <3> QED
      BY <2>2, <3>1, FailsOf
  <2> QED
    BY <2>1, <2>2 DEF NoTraceSet, CannotOpenIndex, NoTrace, RefuseIndex, ReadIndex
<1> QED
  BY <1>1, <1>2, <1>3, QuietInv

Listed == listing \subseteq Streams \cup {Stranger}

(* Somebody is to blame for a crash.                                       *)
Blamed ==
  phase = "crashed" => faults > 0 \/ Stranger \in listing \/ (name # NULL /\ indices = <<>>)

Inv == SetupInv /\ Listed /\ Blamed

(* The invariant of the set-up, the list and the causes of a crash holds   *)
(* at first, ...                                                           *)
LEMMA InitInv == Init => Inv
BY SetupInitInv DEF Init, Inv, Listed, Blamed, SetupInit

(* ... through every step of a pool thread, ...                            *)
LEMMA SetUpKeeps ==
  ASSUME Inv, NEW s \in Streams, SetUp(s), UNCHANGED splitVars
  PROVE  Inv'
<1>1. SetupInv'
  BY SetUpInv DEF Inv
<1>2. phase' = "setup"
  BY DEF SetUp, MakeStreamDir, LinkStream, LinkMetadata, MakeIndexDir, LinkIndex, Lock, Emplace,
     AddTrace, At
<1> QED
  BY <1>1, <1>2 DEF Inv, Listed, Blamed, splitVars

(* A crash is owed to the stranger or to an operation that failed.         *)
LEMMA ReadKeeps ==
  ASSUME Inv, NEW f \in listing,
         \/ NoTraceSet(f)
         \/ CannotOpenIndex(f)
         \/ NoTrace(f)
         \/ RefuseIndex(f)
         \/ ReadIndex(f)
  PROVE  Inv'
<1>1. f \in Streams \cup {Stranger}
  BY DEF Inv, Listed
<1>2. SetupInv'
  BY <1>1, ReadingInv DEF Inv
<1>3. Listed'
  BY DEF Inv, Listed, NoTraceSet, CannotOpenIndex, NoTrace, RefuseIndex, ReadIndex, Read, Crash
<1>4. Blamed'
  <2>1. phase = "index" /\ traceSets = Streams /\ \A s \in Streams : step[s] = "done"
    BY AllInserted DEF Inv, SetupInv, Phases, NoTraceSet, CannotOpenIndex, NoTrace, RefuseIndex,
       ReadIndex, Read, Crash, Reading
  <2>2. CASE NoTraceSet(f)
    BY <1>1, <2>1, <2>2 DEF NoTraceSet, Crash, Blamed
  <2>3. CASE CannotOpenIndex(f)
    <3>1. faults' = faults + 1
      BY <2>3 DEF CannotOpenIndex, FailsFor, Fails
    <3> QED
      BY <3>1 DEF Inv, SetupInv, SetupTypes, Blamed
  <2>4. CASE NoTrace(f)
    <3>1. f \in Streams /\ opened[f] = {} /\ UNCHANGED faults
      BY <2>1, <2>4 DEF NoTrace
    <3>2. f \in failed
      BY <2>1, <3>1 DEF Inv, SetupInv, Opened
    <3> QED
      BY <3>1, <3>2 DEF Inv, SetupInv, Faulty, Blamed
  <2>5. CASE RefuseIndex(f) \/ ReadIndex(f)
    BY <2>1, <2>5 DEF RefuseIndex, ReadIndex, Read, Blamed
  <2> QED
    BY <2>2, <2>3, <2>4, <2>5
<1> QED
  BY <1>2, <1>3, <1>4 DEF Inv

(* ... of the main thread, ...                                             *)
LEMMA MainKeeps ==
  ASSUME Inv, Main
  PROVE  Inv'
<1>1. CASE MakeTmpDir /\ UNCHANGED splitVars
  <2>1. SetupInv' /\ phase' = "setup"
    BY <1>1, MakeTmpDirInv DEF Inv, MakeTmpDir
  <2> QED
    BY <1>1, <2>1 DEF Inv, Listed, Blamed, splitVars
<1>2. CASE ListIndexFiles
  <2>1. /\ phase = "setup" /\ phase' = "index" /\ \A s \in Streams : step[s] = "done"
        /\ listing' \in SUBSET (Streams \cup {Stranger})
        /\ UNCHANGED <<dirs, links, tmpDir, thisTmpDir, step, mapMutex, table, traceSets, opened,
                       failed, faults>>
    BY <1>2 DEF ListIndexFiles, AllSetUp, fsVars, mapVars
  <2>2. SetupInv'
    <3>1. failed \subseteq failed' /\ failed' \subseteq Streams /\ faults' \in Nat /\ Faulty'
      BY <2>1 DEF Inv, SetupInv, SetupTypes, Faulty
    <3> QED
      BY <2>1, <3>1, QuietInv DEF Inv
  <2> QED
    BY <2>1, <2>2 DEF Inv, Listed, Blamed
<1>3. CASE \E f \in listing : \/ NoTraceSet(f)
                              \/ CannotOpenIndex(f)
                              \/ NoTrace(f)
                              \/ RefuseIndex(f)
                              \/ ReadIndex(f)
  BY <1>3, ReadKeeps
<1>4. CASE DivideByZero \/ SplitStream \/ SortWorkers
  <2>1. /\ phase = "index" /\ phase' \in {"index", "sorted", "crashed"}
        /\ phase' = "crashed" => name' # NULL /\ indices' = <<>>
        /\ \A s \in Streams : step[s] = "done"
        /\ UNCHANGED <<dirs, links, tmpDir, thisTmpDir, step, mapMutex, table, traceSets, opened,
                       failed, faults, listing>>
    BY <1>4 DEF DivideByZero, SplitStream, SortWorkers, setupVars, splitVars, fsVars, mapVars,
       Inv, SetupInv, Phases
  <2>2. SetupInv'
    <3>1. failed \subseteq failed' /\ failed' \subseteq Streams /\ faults' \in Nat /\ Faulty'
      BY <2>1 DEF Inv, SetupInv, SetupTypes, Faulty
    <3> QED
      BY <2>1, <3>1, QuietInv DEF Inv
  <2> QED
    BY <2>1, <2>2 DEF Inv, Listed, Blamed
<1>5. CASE Report
  <2>1. SetupInv' /\ phase' = "done" /\ UNCHANGED splitVars
    BY <1>5, ReportInv DEF Inv, Report
  <2> QED
    BY <2>1 DEF Inv, Listed, Blamed, splitVars
<1> QED
  BY <1>1, <1>2, <1>3, <1>4, <1>5 DEF Main

(* ... and of nobody, ...                                                  *)
LEMMA StutterKeeps ==
  ASSUME Inv, UNCHANGED vars
  PROVE  Inv'
<1>1. SetupInv'
  BY DEF Inv, vars, setupVars, fsVars, mapVars, SetupInv, SetupTypes, Phases, Where, Linked,
     Opened, Inserted, Faulty, Contained, Removed, Home
<1> QED
  BY <1>1 DEF Inv, Listed, Blamed, vars, setupVars, splitVars

(* ... so it holds always.                                                 *)
LEMMA Invariant == Spec => []Inv
<1>1. ASSUME Inv, [Next]_vars PROVE Inv'
  BY <1>1, SetUpKeeps, MainKeeps, StutterKeeps DEF Next, Finished
<1> QED
  BY <1>1, InitInv, PTL DEF Spec

(* Whatever fails for other streams, and whatever the order of the pool    *)
(* threads, a stream nothing failed for is read through its own trace set  *)
(* and through no other.                                                   *)
THEOREM StreamsAreIsolated == Spec => []HealthyStreamsIsolated
<1>1. Inv => HealthyStreamsIsolated
  BY DEF Inv, SetupInv, Opened, HealthyStreamsIsolated
<1> QED
  BY <1>1, Invariant, PTL

(* The program crashes only after a failed operation or for an index that  *)
(* is empty or nobody's: the lock keeps every entry of traceSets.          *)
THEOREM CrashesAreBlamed == Spec => []CrashesOnlyFor
<1>1. Inv => CrashesOnlyFor
  BY DEF Inv, Blamed, CrashesOnlyFor
<1> QED
  BY <1>1, Invariant, PTL

(* Everything that was created is removed at the end.                      *)
THEOREM EverythingRemoved == Spec => []NothingLeft
<1>1. Inv => NothingLeft
  BY DEF Inv, SetupInv, Removed, NothingLeft
<1> QED
  BY <1>1, Invariant, PTL

(* If the first mkdir succeeds, tmpDir is the directory of the streams.    *)
Rooted ==
  /\ phase # "start" => tmpDir = PerStream
  /\ Temp \in dirs

(* At first there is nothing else.                                         *)
LEMMA RootedInit == Init => Rooted
BY DEF Init, SetupInit, Rooted

(* Removing that leaves the one above it.                                  *)
LEMMA RootedStep ==
  ASSUME ~RootMayFail, Inv, Rooted, Inv', [Next]_vars
  PROVE  Rooted'
<1>1. CASE MakeTmpDir
  <2>1. PICK ok \in {TRUE, ~RootMayFail} : MakeDir(PerStream, ok)
    BY <1>1 DEF MakeTmpDir
  <2>2. dirs' = dirs \cup {PerStream}
    BY <2>1 DEF MakeDir
  <2>3. tmpDir' = PerStream
    BY <1>1, <2>2, PerStreamIs DEF MakeTmpDir, Entered
  <2> QED
    BY <2>2, <2>3 DEF Rooted
<1>2. CASE Report
  <2>1. tmpDir = PerStream /\ tmpDir' = PerStream /\ dirs' = dirs \ Below(PerStream)
    BY <1>2 DEF Rooted, Report, RemoveTmpDir
  <2>2. Len(PerStream) = 2 /\ Len(Temp) = 1
    BY DEF PerStream, Temp
  <2>3. Temp \notin Below(PerStream)
    BY <2>2 DEF Below, IsPrefix
  <2> QED
    BY <2>1, <2>3 DEF Rooted
<1>3. CASE UNCHANGED vars
  BY <1>3 DEF vars, setupVars, fsVars, Rooted
<1>4. CASE \E s \in Streams : SetUp(s)
  <2>1. phase = "setup" /\ phase' = "setup" /\ tmpDir' = tmpDir
    BY <1>4 DEF SetUp, MakeStreamDir, LinkStream, LinkMetadata, MakeIndexDir, LinkIndex, Lock,
       Emplace, AddTrace, At
  <2> QED
    BY <2>1 DEF Inv, SetupInv, Contained, Rooted
<1>5. CASE Main /\ ~MakeTmpDir /\ ~Report
  <2>1. phase # "start" /\ tmpDir' = tmpDir /\ dirs' = dirs
    BY <1>5 DEF Main, ListIndexFiles, AllSetUp, NoTraceSet, CannotOpenIndex, NoTrace,
       RefuseIndex, ReadIndex, Read, Crash, Reading, DivideByZero, SplitStream, SortWorkers,
       setupVars, fsVars
  <2> QED
    BY <2>1 DEF Rooted
<1> QED
  BY <1>1, <1>2, <1>3, <1>4, <1>5 DEF Next, Finished

(* The temporary directory of the system is removed only when the first    *)
(* mkdir fails.                                                            *)
THEOREM OnlyTheFirstMkdir ==
  ASSUME ~RootMayFail
  PROVE  Spec => []SystemTempKept
<1>1. Rooted => SystemTempKept
  BY DEF Rooted, SystemTempKept
<1> QED
  BY <1>1, RootedInit, RootedStep, Invariant, PTL DEF Spec
-------------------------------------------------------------------------------
(* Folds over a finite set, in an order given by pk: st takes the value    *)
(* for the smaller set and the element taken from the larger one.          *)
Folds(st, base, pk, g, S) ==
  \A s \in SUBSET S : g[s] = IF s = {} THEN base ELSE st[<<g[s \ {pk[s]}], pk[s]>>]

(* The fold over a set does not depend on the larger set it is part of.    *)
LEMMA FoldUnique ==
  ASSUME NEW st, NEW base, NEW pk, NEW S, IsFiniteSet(S), NEW R, NEW g, NEW h,
         \A s \in SUBSET S : s # {} => pk[s] \in s,
         Folds(st, base, pk, g, S), Folds(st, base, pk, h, R)
  PROVE  \A s \in SUBSET S : s \in SUBSET R => g[s] = h[s]
<1> DEFINE Bad == {s \in SUBSET S : s \in SUBSET R /\ g[s] # h[s]}
<1>1. CASE Bad = {}
  BY <1>1
<1>2. CASE Bad # {}
  <2>1. Bad \in SUBSET SUBSET S
    OBVIOUS
  <2> HIDE DEF Bad
  <2>2. PICK s \in Bad : \A u \in Bad : u \subseteq s => u = s
    BY <1>2, <2>1, SmallestSubset
  <2>3. s \in SUBSET S /\ s \in SUBSET R /\ g[s] # h[s]
    BY <2>2 DEF Bad
  <2>4. /\ g[s] = IF s = {} THEN base ELSE st[<<g[s \ {pk[s]}], pk[s]>>]
        /\ h[s] = IF s = {} THEN base ELSE st[<<h[s \ {pk[s]}], pk[s]>>]
    BY <2>3 DEF Folds
  <2>5. s # {} /\ pk[s] \in s
    BY <2>3, <2>4
  <2>6. s \ {pk[s]} \notin Bad
    BY <2>2, <2>5
  <2>7. g[s \ {pk[s]}] = h[s \ {pk[s]}]
    BY <2>3, <2>6 DEF Bad
  <2> QED
    BY <2>3, <2>4, <2>5, <2>7
<1> QED
  BY <1>1, <1>2

(* There is one, and it stays among the values st keeps.                   *)
LEMMA FoldExists ==
  ASSUME NEW V, NEW st, NEW base \in V, NEW pk, NEW S, IsFiniteSet(S),
         \A v \in V : \A x \in S : st[<<v, x>>] \in V,
         \A s \in SUBSET S : s # {} => pk[s] \in s
  PROVE  \E g \in [SUBSET S -> V] : Folds(st, base, pk, g, S)
<1> DEFINE Good(s) == \E g \in [SUBSET s -> V] : Folds(st, base, pk, g, s)
           Bad == {s \in SUBSET S : ~Good(s)}
<1> HIDE DEF Good
<1> SUFFICES ASSUME S \in Bad PROVE FALSE
  BY DEF Good
<1>1. Bad \in SUBSET SUBSET S /\ Bad # {}
  OBVIOUS
<1> HIDE DEF Bad
<1>2. PICK s \in Bad : \A u \in Bad : u \subseteq s => u = s
  BY <1>1, SmallestSubset
<1>3. s \in SUBSET S /\ ~Good(s)
  BY <1>2 DEF Bad
<1>4. \A u \in SUBSET s : u # s => Good(u)
  BY <1>2, <1>3 DEF Bad
<1>5. \A u \in SUBSET s : IsFiniteSet(u) /\ \A w \in SUBSET u : w # {} => pk[w] \in w
  BY <1>3, FS_Subset
<1> DEFINE Of(u) == CHOOSE g \in [SUBSET u -> V] : Folds(st, base, pk, g, u)
           g == [u \in SUBSET s |->
                   IF u = {} THEN base ELSE st[<<Of(u \ {pk[u]})[u \ {pk[u]}], pk[u]>>]]
<1>6. \A u \in SUBSET s : u # s => Of(u) \in [SUBSET u -> V] /\ Folds(st, base, pk, Of(u), u)
  BY <1>4 DEF Good
<1> HIDE DEF Of
<1>7. ASSUME NEW u \in SUBSET s, u # {}
      PROVE  u \ {pk[u]} \in SUBSET s /\ u \ {pk[u]} # s /\ pk[u] \in u /\ pk[u] \in S
  BY <1>3, <1>5, <1>7
<1>8. ASSUME NEW u \in SUBSET s, u # s PROVE Of(u)[u] = g[u]
  <2>1. Of(u)[u] = IF u = {} THEN base ELSE st[<<Of(u)[u \ {pk[u]}], pk[u]>>]
    BY <1>6, <1>8 DEF Folds
  <2>2. CASE u = {}
    BY <2>1, <2>2
  <2>3. CASE u # {}
    <3>1. Of(u \ {pk[u]})[u \ {pk[u]}] = Of(u)[u \ {pk[u]}]
      <4> DEFINE w == u \ {pk[u]}
      <4>1. w \in SUBSET s /\ w # s /\ w \in SUBSET u /\ w \in SUBSET w
        BY <1>7, <2>3
      <4>2. Folds(st, base, pk, Of(w), w) /\ Folds(st, base, pk, Of(u), u)
        BY <1>6, <1>8, <4>1
      <4>3. IsFiniteSet(w) /\ \A x \in SUBSET w : x # {} => pk[x] \in x
        BY <1>5, <4>1
      <4> HIDE DEF w
      <4>4. Of(w)[w] = Of(u)[w]
        BY <4>1, <4>2, <4>3, FoldUnique
      <4> QED
        BY <4>4 DEF w
    <3> QED
      BY <2>1, <2>3, <3>1
  <2> QED
    BY <2>2, <2>3
<1>9. ASSUME NEW u \in SUBSET s
      PROVE  g[u] = IF u = {} THEN base ELSE st[<<g[u \ {pk[u]}], pk[u]>>]
  <2>1. CASE u = {}
    BY <2>1
  <2>2. CASE u # {}
    <3>1. Of(u \ {pk[u]})[u \ {pk[u]}] = g[u \ {pk[u]}]
      BY <1>7, <1>8, <2>2
    <3>2. g[u] = st[<<Of(u \ {pk[u]})[u \ {pk[u]}], pk[u]>>]
      BY <2>2
    <3> QED
      BY <2>2, <3>1, <3>2
  <2> QED
    BY <2>1, <2>2
<1>10. ASSUME NEW u \in SUBSET s PROVE g[u] \in V
  <2>1. CASE u = {}
    BY <2>1
  <2>2. CASE u # {}
    <3>0. pk[u] \in u /\ pk[u] \in S /\ u \ {pk[u]} \in SUBSET s /\ u \ {pk[u]} # s
      BY <1>7, <2>2
    <3>1. Of(u \ {pk[u]})[u \ {pk[u]}] \in V
      <4> DEFINE w == u \ {pk[u]}
      <4>1. w \in SUBSET s /\ w # s /\ w \in SUBSET w
        BY <3>0
      <4> HIDE DEF w, g
      <4>2. Of(w) \in [SUBSET w -> V]
        BY <1>6, <4>1
      <4>3. Of(w)[w] \in V
        BY <4>1, <4>2
      <4> QED
        BY <4>3 DEF w
    <3>2. g[u] = st[<<Of(u \ {pk[u]})[u \ {pk[u]}], pk[u]>>]
      BY <2>2
    <3> HIDE DEF g
    <3> QED
      BY <3>0, <3>1, <3>2
  <2> QED
    BY <2>1, <2>2
<1>11. g \in [SUBSET s -> V]
  <2>1. g = [u \in SUBSET s |-> g[u]]
    OBVIOUS
  <2> HIDE DEF g
  <2> QED
    BY <1>10, <2>1
<1> HIDE DEF g
<1>12. Folds(st, base, pk, g, s)
  BY <1>9 DEF Folds
<1> QED
  BY <1>3, <1>11, <1>12 DEF Good

(* The elements of 1 .. n are taken from the largest down.                 *)
LEMMA MaxOf ==
  ASSUME NEW n \in Nat, NEW s \in SUBSET (1 .. n), s # {}
  PROVE  Max(s) \in s /\ \A x \in s : x <= Max(s)
<1> DEFINE T == {n - x : x \in s}
<1>1. T \in SUBSET Nat /\ T # {}
  OBVIOUS
<1> HIDE DEF T
<1>2. PICK m \in T : \A k \in T : m <= k
  BY <1>1, SmallestNat
<1>3. PICK x \in s : m = n - x
  BY <1>2 DEF T
<1>4. \A y \in s : x >= y
  <2> TAKE y \in s
  <2>1. n - y \in T
    BY DEF T
  <2>2. n - x <= n - y
    BY <1>2, <1>3, <2>1
  <2> QED
    BY <2>2
<1>5. \E z \in s : \A y \in s : z >= y
  BY <1>4
<1>6. Max(s) \in s /\ \A y \in s : Max(s) >= y
  BY <1>5 DEF Max
<1> QED
  BY <1>6

(* The first k numbers are the first k - 1 and k.                          *)
LEMMA UpTo ==
  ASSUME NEW k \in Nat, k # 0
  PROVE  Max(1 .. k) = k /\ (1 .. k) \ {k} = 1 .. (k - 1)
<1>1. k \in 1 .. k /\ 1 .. k # {}
  OBVIOUS
<1>2. Max(1 .. k) \in 1 .. k /\ \A x \in 1 .. k : x <= Max(1 .. k)
  BY <1>1, MaxOf
<1>3. Max(1 .. k) = k
  BY <1>1, <1>2
<1>4. (1 .. k) \ {k} = 1 .. (k - 1)
  OBVIOUS
<1> QED
  BY <1>3, <1>4
-------------------------------------------------------------------------------
(* The walk over the packets of a stream.                                  *)

(* The last packet but one.                                                *)
LastCut(packets) == IF Len(packets) = 0 THEN 0 ELSE Len(packets) - 1

(* What a list of packet headers is: sizes and ends of packets in time     *)
(* order.                                                                  *)
LEMMA PacketsAre ==
  ASSUME NEW packets \in PacketLists
  PROVE  /\ packets \in Seq(PacketHeader) /\ Len(packets) \in Nat
         /\ DOMAIN packets = 1 .. Len(packets)
         /\ LastCut(packets) \in Nat /\ 1 .. (Len(packets) - 1) = 1 .. LastCut(packets)
         /\ LastCut(packets) <= Len(packets)
         /\ \A i \in 1 .. Len(packets) :
              packets[i].contentSize \in PacketSizes /\ packets[i].contentSize \in Nat
              /\ packets[i].timestampEnd \in 1 .. MaxTime
         /\ \A i, j \in 1 .. Len(packets) :
              i < j => packets[i].timestampEnd <= packets[j].timestampEnd
<1>1. PICK n \in 0 .. MaxPackets : packets \in [1 .. n -> PacketHeader]
  BY DEF PacketLists
<1>2. n \in Nat /\ packets \in Seq(PacketHeader) /\ Len(packets) = n
  BY <1>1, BalancedSplitAssumption
<1>3. \A i, j \in 1 .. Len(packets) :
        i < j => packets[i].timestampEnd <= packets[j].timestampEnd
  BY DEF PacketLists, IsSorted
<1>4. \A i \in 1 .. n : packets[i] \in PacketHeader
  BY <1>1
<1>5. \A i \in 1 .. n : packets[i].contentSize \in PacketSizes /\ packets[i].timestampEnd \in 1 .. MaxTime
  BY <1>4 DEF PacketHeader
<1>6. \A z \in PacketSizes : z \in Nat
  BY BalancedSplitAssumption
<1> QED
  BY <1>1, <1>2, <1>3, <1>5, <1>6 DEF LastCut

Walks == [acc : Nat, cuts : Seq(Nat)]

NoCut == [acc |-> 0, cuts |-> <<>>]

Walked(packets, walk, i) ==
  IF walk.acc + packets[i].contentSize >= MaxPacketSize(packets)
  THEN [acc |-> 0, cuts |-> Append(walk.cuts, i)]
  ELSE [acc |-> walk.acc + packets[i].contentSize, cuts |-> walk.cuts]

(* A packet leaves the walk with a position and a sum that are naturals.   *)
LEMMA WalkedType ==
  ASSUME NEW packets \in PacketLists, NEW walk \in Walks, NEW i \in 1 .. LastCut(packets)
  PROVE  Walked(packets, walk, i) \in Walks
<1>1. i \in Nat /\ packets[i].contentSize \in Nat /\ walk.acc \in Nat /\ walk.cuts \in Seq(Nat)
  BY PacketsAre DEF Walks
<1>2. Append(walk.cuts, i) \in Seq(Nat)
  BY <1>1
<1> QED
  BY <1>1, <1>2 DEF Walked, Walks

(* The cuts are where the walk is after the last packet but one.           *)
LEMMA CutsAreWalked ==
  ASSUME NEW packets \in PacketLists
  PROVE  \E h : /\ h[0] = NoCut
                /\ \A k \in 1 .. LastCut(packets) : h[k] = Walked(packets, h[k - 1], k)
                /\ Cuts(packets) = h[LastCut(packets)].cuts
<1> DEFINE n == LastCut(packets)
           D == 1 .. n
           st == [p \in Walks \X D |-> Walked(packets, p[1], p[2])]
           pk == [s \in SUBSET D |-> Max(s)]
           Body(it) == [s \in SUBSET D |-> IF s = {} THEN NoCut
                                           ELSE Walked(packets, it[s \ {Max(s)}], Max(s))]
           iter == CHOOSE it : it = Body(it)
<1>1. n \in Nat /\ IsFiniteSet(D) /\ 1 .. (Len(packets) - 1) = D
  <2>1. n \in Nat /\ 1 .. (Len(packets) - 1) = D
    BY PacketsAre
  <2> HIDE DEF n
  <2>2. IsFiniteSet(D)
    BY <2>1, FS_Interval
  <2> QED
    BY <2>1, <2>2
<1>2. Cuts(packets) = iter[D].cuts
  <2> DEFINE seq == [i \in 1 .. (Len(packets) - 1) |-> i]
             Code(it) == [s \in SUBSET D |-> IF s = {} THEN NoCut
                            ELSE Walked(packets, it[s \ {Max(s)}], seq[Max(s)])]
  <2>1. DOMAIN seq = D
    BY <1>1
  <2>2. Cuts(packets) = (CHOOSE it : it = Code(it))[D].cuts
    BY <2>1 DEF Cuts, FoldLeft, MapThenFoldSet, Walked, NoCut, Reset
  <2>3. ASSUME NEW it PROVE Code(it) = Body(it)
    <3>1. \A s \in SUBSET D : s # {} => seq[Max(s)] = Max(s)
      BY <1>1, MaxOf
    <3> HIDE DEF seq
    <3> QED
      BY <3>1
  <2> HIDE DEF Code, Body
  <2> QED
    BY <2>2, <2>3
<1>3. \A s \in SUBSET D : s # {} => Max(s) \in s /\ pk[s] = Max(s)
  BY <1>1, MaxOf
<1>4. \A v \in Walks : \A x \in D : st[<<v, x>>] = Walked(packets, v, x) /\ st[<<v, x>>] \in Walks
  BY WalkedType
<1>5. NoCut \in Walks
  BY DEF NoCut, Walks
<1> HIDE DEF st, pk
<1>6. PICK g \in [SUBSET D -> Walks] : Folds(st, NoCut, pk, g, D)
  <2>1. /\ \A v \in Walks : \A x \in D : st[<<v, x>>] \in Walks
        /\ \A s \in SUBSET D : s # {} => pk[s] \in s
    BY <1>3, <1>4
  <2>2. IsFiniteSet(D)
    BY <1>1
  <2> HIDE DEF D, n
  <2>3. \E g \in [SUBSET D -> Walks] : Folds(st, NoCut, pk, g, D)
    BY <1>5, <2>1, <2>2, FoldExists, Zenon
  <2> QED
    BY <2>3
<1>7. g = Body(g)
  <2>1. ASSUME NEW s \in SUBSET D
        PROVE  g[s] = IF s = {} THEN NoCut ELSE Walked(packets, g[s \ {Max(s)}], Max(s))
    <3>1. g[s] = IF s = {} THEN NoCut ELSE st[<<g[s \ {pk[s]}], pk[s]>>]
      BY <1>6 DEF Folds
    <3>2. s # {} => pk[s] = Max(s) /\ Max(s) \in D /\ g[s \ {Max(s)}] \in Walks
      BY <1>3, <1>6
    <3> QED
      BY <1>4, <3>1, <3>2
  <2>2. g = [s \in SUBSET D |-> g[s]]
    BY <1>6
  <2> QED
    BY <2>1, <2>2
<1> HIDE DEF D
<1>8. iter = Body(iter)
  BY <1>7
<1> HIDE DEF iter
<1>9. \A s \in SUBSET D : iter[s] = IF s = {} THEN NoCut
                                    ELSE Walked(packets, iter[s \ {Max(s)}], Max(s))
  <2> SUFFICES ASSUME NEW s \in SUBSET D
               PROVE  iter[s] = IF s = {} THEN NoCut
                                ELSE Walked(packets, iter[s \ {Max(s)}], Max(s))
    OBVIOUS
  <2>1. Body(iter)[s] = IF s = {} THEN NoCut
                        ELSE Walked(packets, iter[s \ {Max(s)}], Max(s))
    OBVIOUS
  <2> HIDE DEF Body
  <2> QED
    BY <1>8, <2>1
<1> DEFINE h == [k \in 0 .. n |-> iter[1 .. k]]
<1>10. h[0] = NoCut
  <2>1. 1 .. 0 = {} /\ {} \in SUBSET D /\ 0 \in 0 .. n
    BY <1>1
  <2> QED
    BY <1>9, <2>1
<1>11. ASSUME NEW k \in 1 .. n PROVE h[k] = Walked(packets, h[k - 1], k)
  <2>1. k \in Nat /\ k # 0 /\ 1 .. k \in SUBSET D /\ 1 .. k # {} /\ k \in 0 .. n /\ k - 1 \in 0 .. n
    <3> HIDE DEF n
    <3> QED
      BY <1>1 DEF D
  <2>2. Max(1 .. k) = k /\ (1 .. k) \ {k} = 1 .. (k - 1)
    BY <2>1, UpTo
  <2>3. iter[1 .. k] = Walked(packets, iter[1 .. (k - 1)], k)
    BY <1>9, <2>1, <2>2
  <2> QED
    BY <2>1, <2>3
<1>12. h[n] = iter[D]
  BY <1>1 DEF D
<1> HIDE DEF h
<1> QED
  BY <1>2, <1>10, <1>11, <1>12
-------------------------------------------------------------------------------
(* What the packets from a to b hold together.                             *)
Content(z, a, b) == SumFunction(SubSeq(z, a, b))

(* The content of packets a to b is that of a to b - 1 and of packet b.    *)
LEMMA ContentGrows ==
  ASSUME NEW z \in Seq(Nat), NEW a \in 1 .. Len(z), NEW b \in a .. Len(z)
  PROVE  /\ Content(z, a, b) = Content(z, a, b - 1) + z[b]
         /\ Content(z, a, b - 1) \in Nat
<1> DEFINE q == SubSeq(z, a, b)
           p == SubSeq(z, a, b - 1)
           m == b - a + 1
<1>1. Len(z) \in Nat /\ a \in Nat /\ b \in Nat /\ m \in Nat /\ m # 0 /\ b - 1 \in Int
      /\ a <= b /\ b <= Len(z) /\ 1 <= a
  BY LenProperties
<1>2. \A i \in 1 .. Len(z) : z[i] \in Nat
  BY ElementOfSeq
<1>3. /\ q \in Seq(Nat) /\ Len(q) = m /\ \A i \in 1 .. m : q[i] = z[a + i - 1]
  <2>1. \A i \in a .. b : z[i] \in Nat
    BY <1>1, <1>2
  <2> QED
    BY <1>1, <2>1, SubSeqProperties
<1>4. /\ p \in Seq(Nat) /\ Len(p) = m - 1 /\ \A i \in 1 .. (m - 1) : p[i] = z[a + i - 1]
  <2>1. \A i \in a .. (b - 1) : z[i] \in Nat
    BY <1>1, <1>2
  <2>2. /\ p \in Seq(Nat)
        /\ Len(p) = IF a <= b - 1 THEN (b - 1) - a + 1 ELSE 0
        /\ \A i \in 1 .. ((b - 1) - a + 1) : p[i] = z[a + i - 1]
    BY <1>1, <2>1, SubSeqProperties
  <2>3. (b - 1) - a + 1 = m - 1 /\ (~(a <= b - 1) => m - 1 = 0)
    BY <1>1
  <2> HIDE DEF p, m
  <2> QED
    BY <2>2, <2>3
<1>5. DOMAIN q = 1 .. m /\ DOMAIN p = 1 .. (m - 1)
  BY <1>3, <1>4, LenProperties
<1>6. q[m] = z[b] /\ \A i \in 1 .. (m - 1) : q[i] = p[i]
  BY <1>1, <1>3, <1>4
<1>7. (\A i \in 1 .. m : q[i] \in Nat) /\ (\A i \in 1 .. (m - 1) : p[i] \in Nat)
  BY <1>3, <1>4, ElementOfSeq
<1> HIDE DEF q, p, m
<1>8. /\ IsFiniteSet(1 .. m) /\ IsFiniteSet(1 .. (m - 1)) /\ m \in 1 .. m
      /\ (1 .. m) \ {m} = 1 .. (m - 1) /\ \A i \in 1 .. m : q[i] \in Int
  <2>1. m \in Nat /\ m # 0
    BY <1>1
  <2>2. IsFiniteSet(1 .. m) /\ IsFiniteSet(1 .. (m - 1))
    BY <2>1, FS_Interval
  <2> QED
    BY <1>7, <2>1, <2>2
<1>9. SumFunctionOnSet(q, 1 .. m) = q[m] + SumFunctionOnSet(q, 1 .. (m - 1))
  <2> DEFINE all == 1 .. m
  <2>1. IsFiniteSet(all) /\ m \in all /\ \A i \in all : q[i] \in Int
    BY <1>8
  <2>2. all \ {m} = 1 .. (m - 1)
    BY <1>8
  <2> HIDE DEF all
  <2>3. SumFunctionOnSet(q, all) = q[m] + SumFunctionOnSet(q, all \ {m})
    BY <2>1, SumRemove
  <2> QED
    BY <2>2, <2>3 DEF all
<1>10. SumFunctionOnSet(q, 1 .. (m - 1)) = SumFunctionOnSet(p, 1 .. (m - 1))
  <2> DEFINE rest == 1 .. (m - 1)
  <2>1. IsFiniteSet(rest) /\ \A i \in rest : q[i] = p[i]
    BY <1>6, <1>8
  <2> HIDE DEF rest
  <2>2. SumFunctionOnSet(q, rest) = SumFunctionOnSet(p, rest)
    BY <2>1, SumEqual
  <2> QED
    BY <2>2 DEF rest
<1>11. SumFunctionOnSet(p, 1 .. (m - 1)) \in Nat
  BY <1>7, <1>8, SumNat
<1>12. SumFunction(q) = SumFunctionOnSet(q, 1 .. m) /\ SumFunction(p) = SumFunctionOnSet(p, 1 .. (m - 1))
  BY <1>5, SumOfFunction
<1>13. z[b] \in Nat
  BY <1>1, <1>2
<1>14. SumFunction(q) = SumFunction(p) + z[b] /\ SumFunction(p) \in Nat
  BY <1>6, <1>9, <1>10, <1>11, <1>12, <1>13
<1> QED
  BY <1>14 DEF Content, q, p

(* No packets have no content.                                             *)
LEMMA ContentOfNone ==
  ASSUME NEW z, NEW a \in Int
  PROVE  Content(z, a, a - 1) = 0
<1>1. SubSeq(z, a, a - 1) = <<>>
  BY SubSeqEmpty
<1>2. SumFunction(<<>>) = SumFunctionOnSet(<<>>, {})
  <2>1. DOMAIN <<>> = {}
    OBVIOUS
  <2> QED
    BY <2>1, SumOfFunction
<1> QED
  BY <1>1, <1>2, SumOfNone DEF Content

(* The sizes of the packets are the contents their headers give.           *)
LEMMA SizesAre ==
  ASSUME NEW packets \in PacketLists
  PROVE  /\ Sizes(packets) \in Seq(Nat) /\ Len(Sizes(packets)) = Len(packets)
         /\ \A i \in 1 .. Len(packets) : Sizes(packets)[i] = packets[i].contentSize
<1>1. /\ Len(packets) \in Nat /\ DOMAIN packets = 1 .. Len(packets)
      /\ \A i \in 1 .. Len(packets) : packets[i].contentSize \in Nat
  BY PacketsAre
<1>2. Sizes(packets) \in [1 .. Len(packets) -> Nat]
  BY <1>1 DEF Sizes
<1> QED
  BY <1>1, <1>2 DEF Sizes

(* The average size is a natural number, 0 when most packets are empty.    *)
LEMMA AverageIsNat ==
  ASSUME NEW packets \in PacketLists, Len(packets) # 0
  PROVE  MaxPacketSize(packets) \in Nat
<1> DEFINE n == Len(packets)
           z == Sizes(packets)
<1>1. n \in Nat /\ n # 0 /\ \A i \in 1 .. n : z[i] \in Nat
  BY PacketsAre, SizesAre
<1>2. DOMAIN z = 1 .. n
  BY SizesAre, LenProperties
<1> HIDE DEF n, z
<1>3. SumFunctionOnSet(z, 1 .. n) \in Nat
  <2> DEFINE all == 1 .. n
  <2>1. IsFiniteSet(all) /\ \A i \in all : z[i] \in Nat
    BY <1>1, FS_Interval
  <2> HIDE DEF all
  <2>2. SumFunctionOnSet(z, all) \in Nat
    BY <2>1, SumNat
  <2> QED
    BY <2>2 DEF all
<1>4. SumFunction(z) \in Nat
  BY <1>2, <1>3, SumOfFunction
<1>5. \A x \in Nat : x \div n \in Nat
  BY <1>1
<1> QED
  BY <1>4, <1>5 DEF MaxPacketSize, n, z

-------------------------------------------------------------------------------
(* What holds of the walk after k packets: the cuts come one after the     *)
(* other,                                                                  *)
Ordered(walk, k) ==
  /\ walk \in Walks
  /\ \A j \in 1 .. Len(walk.cuts) : walk.cuts[j] \in 1 .. k
  /\ \A i, j \in 1 .. Len(walk.cuts) : i < j => walk.cuts[i] < walk.cuts[j]

First(cuts, j) == IF j = 1 THEN 1 ELSE cuts[j - 1] + 1

(* a chunk is as large as a packet is on average, and would not be without *)
(* its last packet if that is not its only one,                            *)
Full(packets, cuts, j) ==
  /\ Content(Sizes(packets), First(cuts, j), cuts[j]) >= MaxPacketSize(packets)
  /\ First(cuts, j) < cuts[j] =>
       Content(Sizes(packets), First(cuts, j), cuts[j] - 1) < MaxPacketSize(packets)

(* and the packets since the last cut are what was accumulated.            *)
Filling(packets, walk, k) ==
  /\ \A j \in 1 .. Len(walk.cuts) : Full(packets, walk.cuts, j)
  /\ walk.acc = Content(Sizes(packets), First(walk.cuts, Len(walk.cuts) + 1), k)
  /\ First(walk.cuts, Len(walk.cuts) + 1) <= k => walk.acc < MaxPacketSize(packets)

(* A packet walked keeps the cuts in the order of the packets.             *)
LEMMA OrderedStep ==
  ASSUME NEW packets \in PacketLists, NEW walk, NEW k \in 1 .. LastCut(packets),
         Ordered(walk, k - 1)
  PROVE  Ordered(Walked(packets, walk, k), k)
<1>1. k \in Nat /\ k # 0 /\ walk.cuts \in Seq(Nat) /\ Len(walk.cuts) \in Nat
  BY PacketsAre, LenProperties DEF Ordered, Walks
<1>2. Walked(packets, walk, k) \in Walks
  BY WalkedType DEF Ordered
<1> DEFINE more == Append(walk.cuts, k)
<1>3. /\ Len(more) = Len(walk.cuts) + 1 /\ more[Len(walk.cuts) + 1] = k
      /\ \A i \in 1 .. Len(walk.cuts) : more[i] = walk.cuts[i]
  BY <1>1, AppendProperties
<1>4. Walked(packets, walk, k).cuts = walk.cuts \/ Walked(packets, walk, k).cuts = more
  BY DEF Walked
<1> HIDE DEF more
<1>5. CASE Walked(packets, walk, k).cuts = walk.cuts
  BY <1>1, <1>2, <1>5 DEF Ordered
<1>6. CASE Walked(packets, walk, k).cuts = more
  <2>1. \A j \in 1 .. Len(more) : more[j] \in 1 .. k
    <3> TAKE j \in 1 .. Len(more)
    <3>1. CASE j = Len(walk.cuts) + 1
      BY <1>1, <1>3, <3>1
    <3>2. CASE j \in 1 .. Len(walk.cuts)
      <4>1. walk.cuts[j] \in 1 .. (k - 1)
        BY <3>2 DEF Ordered
      <4> QED
        BY <1>1, <1>3, <3>2, <4>1
    <3> QED
      BY <1>1, <1>3, <3>1, <3>2
  <2>2. \A i, j \in 1 .. Len(more) : i < j => more[i] < more[j]
    <3> SUFFICES ASSUME NEW i \in 1 .. Len(more), NEW j \in 1 .. Len(more), i < j
                 PROVE  more[i] < more[j]
      OBVIOUS
    <3>1. i \in 1 .. Len(walk.cuts) /\ more[i] = walk.cuts[i] /\ walk.cuts[i] \in 1 .. (k - 1)
      BY <1>1, <1>3 DEF Ordered
    <3>2. CASE j = Len(walk.cuts) + 1
      BY <1>1, <1>3, <3>1, <3>2
    <3>3. CASE j \in 1 .. Len(walk.cuts)
      BY <1>3, <3>1, <3>3 DEF Ordered
    <3> QED
      BY <1>1, <1>3, <3>2, <3>3
  <2> QED
    BY <1>2, <1>6, <2>1, <2>2 DEF Ordered
<1> QED
  BY <1>4, <1>5, <1>6

(* A packet walked keeps the open chunk below the average size, and each   *)
(* closed one below it but for its last packet.                            *)
LEMMA FillingStep ==
  ASSUME NEW packets \in PacketLists, NEW walk, NEW k \in 1 .. LastCut(packets),
         Ordered(walk, k - 1), Filling(packets, walk, k - 1),
         MaxPacketSize(packets) \in Nat
  PROVE  Filling(packets, Walked(packets, walk, k), k)
<1> DEFINE z == Sizes(packets)
           cuts == walk.cuts
           n == Len(cuts)
           a == First(cuts, n + 1)
           size == packets[k].contentSize
           more == Append(cuts, k)
<1>1. /\ k \in Nat /\ k # 0 /\ k \in 1 .. Len(packets) /\ cuts \in Seq(Nat) /\ n \in Nat
      /\ walk.acc \in Nat
  BY PacketsAre, LenProperties DEF Ordered, Walks
<1>2. a \in 1 .. k
  <2>1. CASE n = 0
    BY <1>1, <2>1 DEF First
  <2>2. CASE n # 0
    <3>1. a = cuts[n] + 1 /\ n \in 1 .. n
      BY <1>1, <2>2 DEF First
    <3>2. cuts[n] \in 1 .. (k - 1)
      BY <3>1 DEF Ordered
    <3> QED
      BY <1>1, <3>1, <3>2
  <2> QED
    BY <2>1, <2>2
<1>3. z \in Seq(Nat) /\ Len(z) = Len(packets) /\ z[k] = size /\ size \in Nat /\ Len(packets) \in Nat
  BY <1>1, SizesAre, PacketsAre
<1>4. Content(z, a, k) = walk.acc + size /\ Content(z, a, k - 1) = walk.acc
  <2>1. Content(z, a, k - 1) = walk.acc
    BY DEF Filling
  <2>2. a \in 1 .. Len(z) /\ k \in a .. Len(z)
    BY <1>1, <1>2, <1>3
  <2>3. Content(z, a, k) = Content(z, a, k - 1) + z[k]
    BY <1>3, <2>2, ContentGrows
  <2> QED
    BY <1>3, <2>1, <2>3
<1>5. a <= k - 1 => walk.acc < MaxPacketSize(packets)
  BY DEF Filling
<1>8. \A j \in 1 .. n : Full(packets, cuts, j)
  BY DEF Filling
<1>6. CASE walk.acc + size >= MaxPacketSize(packets)
  <2>1. Walked(packets, walk, k) = [acc |-> 0, cuts |-> more]
    BY <1>6 DEF Walked
  <2>2. /\ Len(more) = n + 1 /\ more[n + 1] = k
        /\ \A i \in 1 .. n : more[i] = cuts[i]
    BY <1>1, AppendProperties
  <2> HIDE DEF more
  <2>3. \A j \in 1 .. (n + 1) : First(more, j) = First(cuts, j)
    <3> TAKE j \in 1 .. (n + 1)
    <3>1. j = 1 \/ j - 1 \in 1 .. n
      BY <1>1
    <3>2. j # 1 => more[j - 1] = cuts[j - 1]
      BY <2>2, <3>1
    <3> QED
      BY <3>2 DEF First
  <2>4. \A j \in 1 .. n : Full(packets, more, j)
    <3> TAKE j \in 1 .. n
    <3>1. j \in 1 .. (n + 1)
      BY <1>1
    <3>2. more[j] = cuts[j]
      BY <2>2
    <3>3. Full(packets, cuts, j)
      BY <1>8
    <3> QED
      BY <2>3, <3>1, <3>2, <3>3 DEF Full
  <2>5. Full(packets, more, n + 1)
    <3>1. First(more, n + 1) = a /\ more[n + 1] = k
      BY <1>1, <2>2, <2>3
    <3> HIDE DEF a
    <3>2. a < k => walk.acc < MaxPacketSize(packets)
      BY <1>1, <1>2, <1>5
    <3> QED
      BY <1>4, <1>6, <3>1, <3>2 DEF Full
  <2>6. \A j \in 1 .. Len(more) : Full(packets, more, j)
    BY <1>1, <2>2, <2>4, <2>5
  <2>8. First(more, Len(more) + 1) = k + 1 /\ ~(k + 1 <= k)
    BY <1>1, <2>2 DEF First
  <2>7. Content(z, First(more, Len(more) + 1), k) = 0
    <3>1. First(more, Len(more) + 1) = k + 1
      BY <2>8
    <3>2. Content(z, k + 1, (k + 1) - 1) = 0
      BY <1>1, ContentOfNone
    <3>3. (k + 1) - 1 = k
      BY <1>1
    <3> QED
      BY <3>1, <3>2, <3>3
  <2> QED
    BY <2>1, <2>6, <2>7, <2>8 DEF Filling
<1>7. CASE ~(walk.acc + size >= MaxPacketSize(packets))
  <2>1. Walked(packets, walk, k) = [acc |-> walk.acc + size, cuts |-> cuts]
    BY <1>7 DEF Walked
  <2>2. walk.acc + size < MaxPacketSize(packets)
    BY <1>1, <1>3, <1>7
  <2> QED
    BY <1>4, <1>8, <2>1, <2>2 DEF Filling
<1> QED
  BY <1>6, <1>7

(* Both hold at the end of the walk.                                       *)
LEMMA CutsAre ==
  ASSUME NEW packets \in PacketLists
  PROVE  /\ Cuts(packets) \in Seq(Nat)
         /\ \A j \in 1 .. Len(Cuts(packets)) : Cuts(packets)[j] \in 1 .. LastCut(packets)
         /\ \A i, j \in 1 .. Len(Cuts(packets)) : i < j => Cuts(packets)[i] < Cuts(packets)[j]
         /\ \A j \in 1 .. Len(Cuts(packets)) : Full(packets, Cuts(packets), j)
<1> DEFINE n == LastCut(packets)
<1>1. PICK h : /\ h[0] = NoCut
               /\ \A k \in 1 .. n : h[k] = Walked(packets, h[k - 1], k)
               /\ Cuts(packets) = h[n].cuts
  BY CutsAreWalked
<1> DEFINE Kept(k) == /\ Ordered(h[k], k)
                      /\ n # 0 => Filling(packets, h[k], k)
           Bad == {k \in 0 .. n : ~Kept(k)}
<1>2. n \in Nat
  BY PacketsAre
<1>3. n # 0 => MaxPacketSize(packets) \in Nat
  <2>1. n # 0 => Len(packets) # 0
    BY DEF LastCut
  <2> QED
    BY <2>1, AverageIsNat
<1>4. Kept(0)
  <2>1. /\ NoCut \in Walks /\ NoCut.cuts = <<>> /\ NoCut.acc = 0
    BY DEF NoCut, Walks
  <2>2. Ordered(NoCut, 0)
    BY <2>1 DEF Ordered
  <2>3. Content(Sizes(packets), 1, 0) = 0
    <3>1. Content(Sizes(packets), 1, 1 - 1) = 0
      BY ContentOfNone
    <3> QED
      BY <3>1
  <2>4. First(<<>>, Len(<<>>) + 1) = 1
    BY DEF First
  <2>5. n # 0 => Filling(packets, NoCut, 0)
    BY <2>1, <2>3, <2>4 DEF Filling
  <2> QED
    BY <1>1, <2>2, <2>5
<1>5. ASSUME NEW k \in 1 .. n, Kept(k - 1) PROVE Kept(k)
  <2>1. h[k] = Walked(packets, h[k - 1], k) /\ Ordered(h[k - 1], k - 1) /\ n # 0
    BY <1>1, <1>2, <1>5
  <2>2. Ordered(h[k], k)
    BY <2>1, OrderedStep
  <2>3. Filling(packets, h[k], k)
    BY <1>3, <1>5, <2>1, FillingStep
  <2> QED
    BY <2>2, <2>3
<1> HIDE DEF Kept, n
<1>6. Bad = {}
  <2> SUFFICES ASSUME Bad # {} PROVE FALSE
    OBVIOUS
  <2>1. Bad \in SUBSET Nat
    BY <1>2
  <2> HIDE DEF Bad
  <2>2. PICK k \in Bad : \A m \in Bad : k <= m
    BY <2>1, SmallestNat
  <2>3. k \in 0 .. n /\ ~Kept(k)
    BY <2>2 DEF Bad
  <2>4. k \in 1 .. n
    BY <1>2, <1>4, <2>3
  <2>5. k - 1 \in 0 .. n /\ k - 1 \notin Bad
    BY <1>2, <2>1, <2>2, <2>4
  <2>6. Kept(k - 1)
    BY <2>5 DEF Bad
  <2> QED
    BY <1>5, <2>3, <2>4, <2>6
<1>7. Kept(n)
  BY <1>2, <1>6
<1>8. Ordered(h[n], n) /\ (n # 0 => Filling(packets, h[n], n))
  BY <1>7 DEF Kept
<1>9. n = 0 => Len(Cuts(packets)) = 0
  BY <1>1, <1>4 DEF Kept, NoCut
<1>10. Cuts(packets) \in Seq(Nat)
  BY <1>1, <1>8 DEF Ordered, Walks
<1>11. /\ \A j \in 1 .. Len(Cuts(packets)) : Cuts(packets)[j] \in 1 .. n
       /\ \A i, j \in 1 .. Len(Cuts(packets)) : i < j => Cuts(packets)[i] < Cuts(packets)[j]
  BY <1>1, <1>8 DEF Ordered
<1>12. \A j \in 1 .. Len(Cuts(packets)) : Full(packets, Cuts(packets), j)
  BY <1>1, <1>8, <1>9 DEF Filling
<1> QED
  BY <1>10, <1>11, <1>12 DEF n

(* Every chunk of the index that is being read is balanced.                *)
LEMMA BalancedCuts ==
  ASSUME indices \in PacketLists
  PROVE  ChunksBalanced
<1> SUFFICES ASSUME NEW k \in DOMAIN Cuts(indices)
             PROVE  Full(indices, Cuts(indices), k)
  BY DEF ChunksBalanced, Full, First, Content
<1>1. k \in 1 .. Len(Cuts(indices))
  BY CutsAre, LenProperties
<1> QED
  BY <1>1, CutsAre
-------------------------------------------------------------------------------
(* The workers.                                                            *)
Places == {NULL} \cup {Place(n, i) : n, i \in Nat}

Pointers == [begin : Places, end : Places]

Positioned ==
  [stream : Streams, beginPos : (1 .. MaxTime + 1) \cup {NULL},
   endPos : (1 .. MaxTime) \cup {NULL}, at : Pointers]

(* The worker at an address points to its own fields.                      *)
Owns(w, address) == w.at = PointersTo(address, w.beginPos, w.endPos)

(* Wherever it is.                                                         *)
SameRange(v, w) == v.stream = w.stream /\ v.beginPos = w.beginPos /\ v.endPos = w.endPos

Within(w, ts) == ts \in From(w) .. To(w)

(* A move gives a worker another place and the range it had.               *)
LEMMA MovedIs ==
  ASSUME NEW w \in Positioned, NEW n \in Nat, NEW i \in Nat
  PROVE  /\ Moved(w, Place(n, i)) \in Positioned
         /\ Owns(Moved(w, Place(n, i)), Place(n, i))
         /\ SameRange(Moved(w, Place(n, i)), w)
<1> DEFINE a == Place(n, i)
           p == PointersTo(a, w.beginPos, w.endPos)
<1>1. a \in Places
  BY DEF Places
<1> HIDE DEF a
<1>3. p \in Pointers
  BY <1>1 DEF Pointers, PointersTo, Places
<1> HIDE DEF p
<1>4. Moved(w, a) = [w EXCEPT !.at = p]
  BY DEF Moved, p
<1>5. /\ Moved(w, a) \in Positioned /\ Moved(w, a).at = p /\ SameRange(Moved(w, a), w)
  BY <1>3, <1>4 DEF Positioned, SameRange
<1>2. Moved(w, a) \in Positioned /\ Owns(Moved(w, a), a) /\ SameRange(Moved(w, a), w)
  BY <1>5 DEF Owns, SameRange, p
<1> QED
  BY <1>2 DEF a

(* The range of a worker is inside the trace.                              *)
LEMMA RangeIs ==
  ASSUME NEW w \in Positioned
  PROVE  /\ From(w) \in Nat /\ From(w) >= 1
         /\ To(w) \in Nat /\ To(w) <= MaxTime
<1>1. MaxTime \in Nat /\ NULL \notin Nat
  BY BalancedSplitAssumption
<1>2. w.beginPos \in (1 .. MaxTime + 1) \cup {NULL} /\ w.endPos \in (1 .. MaxTime) \cup {NULL}
  BY DEF Positioned
<1> QED
  BY <1>1, <1>2 DEF From, To

(* The workers of one stream part its time: the smallest end that is not   *)
(* before an event decides.                                                *)
LEMMA StreamWorkersPart ==
  ASSUME NEW packets \in PacketLists, NEW f \in Streams, NEW size \in Nat
  PROVE  LET ws == StreamWorkers(f, Positions(packets), size) IN
         /\ ws \in Seq(Positioned)
         /\ \A i \in 1 .. Len(ws) : /\ ws[i].stream = f
                                    /\ Owns(ws[i], Place(size + i, size + i))
         /\ \A ts \in 1 .. MaxTime : \E i \in 1 .. Len(ws) :
              \A j \in 1 .. Len(ws) : Within(ws[j], ts) <=> j = i
<1> DEFINE pos == Positions(packets)
           cuts == Cuts(packets)
           n == Len(cuts)
           ws == StreamWorkers(f, pos, size)
           b(i) == IF i = 1 THEN NULL ELSE pos[i - 1] + 1
           e(i) == IF i = n + 1 THEN NULL ELSE pos[i]
           a(i) == Place(size + i, size + i)
<1>1. MaxTime \in Nat /\ NULL \notin Nat
  BY BalancedSplitAssumption
<1>2. n \in Nat /\ DOMAIN cuts = 1 .. n
  BY CutsAre, LenProperties
<1>3. \A i \in 1 .. n : cuts[i] \in 1 .. Len(packets)
  BY CutsAre, PacketsAre
<1>4. \A i \in 1 .. n : pos[i] = packets[cuts[i]].timestampEnd /\ pos[i] \in 1 .. MaxTime
  BY <1>2, <1>3, PacketsAre DEF Positions
<1>5. \A i, j \in 1 .. n : i < j => pos[i] <= pos[j]
  <2> SUFFICES ASSUME NEW i \in 1 .. n, NEW j \in 1 .. n, i < j PROVE pos[i] <= pos[j]
    OBVIOUS
  <2>1. cuts[i] < cuts[j]
    BY CutsAre
  <2> QED
    BY <1>3, <1>4, <2>1, PacketsAre
<1>6. Len(pos) = n
  <2>1. pos \in [1 .. n -> Nat]
    BY <1>1, <1>2, <1>4 DEF Positions
  <2> QED
    BY <1>2, <2>1
<1> HIDE DEF pos, cuts, n
<1>7. ASSUME NEW i \in 1 .. n + 1
      PROVE  ws[i] = [stream |-> f, beginPos |-> b(i), endPos |-> e(i),
                      at |-> PointersTo(a(i), b(i), e(i))]
  <2>1. i # 1 => pos[i - 1] # NULL
    BY <1>1, <1>2, <1>4
  <2>2. ws[i] = TraceWorker(f, IF i = 1 THEN NULL ELSE pos[i - 1], e(i), a(i))
    BY <1>6 DEF StreamWorkers
  <2> HIDE DEF a
  <2> QED
    BY <2>1, <2>2 DEF TraceWorker
<1>13. DOMAIN ws = 1 .. n + 1 /\ ws = [i \in 1 .. n + 1 |-> ws[i]]
  BY <1>6 DEF StreamWorkers
<1> HIDE DEF ws
<1>8. ASSUME NEW i \in 1 .. n + 1
      PROVE  /\ ws[i] \in Positioned /\ ws[i].stream = f
             /\ ws[i].beginPos = IF i = 1 THEN NULL ELSE pos[i - 1] + 1
             /\ ws[i].endPos = IF i = n + 1 THEN NULL ELSE pos[i]
             /\ Owns(ws[i], Place(size + i, size + i))
  <2>1. i # 1 => i - 1 \in 1 .. n /\ pos[i - 1] \in 1 .. MaxTime
    BY <1>2, <1>4
  <2>2. i # n + 1 => pos[i] \in 1 .. MaxTime
    BY <1>2, <1>4
  <2>3. b(i) \in (1 .. MaxTime + 1) \cup {NULL} /\ e(i) \in (1 .. MaxTime) \cup {NULL}
    BY <1>1, <2>1, <2>2
  <2>4. a(i) \in Places
    <3> DEFINE k == size + i
    <3>1. k \in Nat
      BY <1>2
    <3> HIDE DEF k
    <3>2. Place(k, k) \in Places
      BY <3>1 DEF Places
    <3> QED
      BY <3>2 DEF k
  <2> DEFINE p == PointersTo(a(i), b(i), e(i))
  <2>5. ws[i] = [stream |-> f, beginPos |-> b(i), endPos |-> e(i), at |-> p]
    BY <1>7
  <2> HIDE DEF a, b, e
  <2>6. p \in Pointers
    BY <2>4 DEF Pointers, PointersTo, Places
  <2> HIDE DEF p
  <2>7. ws[i] \in Positioned
    BY <2>3, <2>5, <2>6 DEF Positioned
  <2>8. ws[i].stream = f /\ ws[i].beginPos = b(i) /\ ws[i].endPos = e(i) /\ ws[i].at = p
    BY <2>5
  <2>9. Owns(ws[i], a(i))
    BY <2>8 DEF Owns, p
  <2> QED
    BY <2>7, <2>8, <2>9 DEF a, b, e
<1>9. ws \in Seq(Positioned) /\ Len(ws) = n + 1
  <2>1. ws \in [1 .. n + 1 -> Positioned] /\ n + 1 \in Nat
    BY <1>2, <1>8, <1>13
  <2> QED
    BY <2>1
<1>10. ASSUME NEW i \in 1 .. n + 1
       PROVE  /\ From(ws[i]) = IF i = 1 THEN 1 ELSE pos[i - 1] + 1
              /\ To(ws[i]) = IF i = n + 1 THEN MaxTime ELSE pos[i]
  <2>1. i # 1 => pos[i - 1] + 1 # NULL
    BY <1>1, <1>2, <1>4
  <2>2. i # n + 1 => pos[i] # NULL
    BY <1>1, <1>2, <1>4
  <2> QED
    BY <1>8, <2>1, <2>2 DEF From, To
<1>11. ASSUME NEW ts \in 1 .. MaxTime
       PROVE  \E i \in 1 .. n + 1 : \A j \in 1 .. n + 1 : Within(ws[j], ts) <=> j = i
  <2> DEFINE late == {i \in 1 .. n + 1 : ts <= To(ws[i])}
  <2>1. n + 1 \in late
    BY <1>1, <1>2, <1>10
  <2>2. late \in SUBSET Nat /\ late # {}
    BY <1>2, <2>1
  <2> HIDE DEF late
  <2>3. PICK i \in late : \A j \in late : i <= j
    BY <2>2, SmallestNat
  <2>4. i \in 1 .. n + 1 /\ ts <= To(ws[i])
    BY <2>3 DEF late
  <2>5. \A j \in 1 .. n + 1 : j < i => ~(ts <= To(ws[j]))
    BY <1>2, <2>3, <2>4 DEF late
  <2>6. Within(ws[i], ts)
    <3>1. CASE i = 1
      BY <1>1, <1>10, <2>4, <3>1 DEF Within
    <3>2. CASE i # 1
      <4>1. i - 1 \in 1 .. n /\ i - 1 \in 1 .. n + 1 /\ i - 1 < i /\ i - 1 # n + 1
        BY <1>2, <2>4, <3>2
      <4>2. To(ws[i - 1]) = pos[i - 1] /\ pos[i - 1] \in 1 .. MaxTime
        BY <1>4, <1>10, <4>1
      <4>3. pos[i - 1] < ts
        BY <1>1, <2>5, <4>1, <4>2
      <4>4. From(ws[i]) = pos[i - 1] + 1
        BY <1>10, <2>4, <3>2
      <4>5. To(ws[i]) \in Nat
        BY <1>8, <2>4, RangeIs
      <4> QED
        BY <1>1, <2>4, <4>2, <4>3, <4>4, <4>5 DEF Within
    <3> QED
      BY <3>1, <3>2
  <2>7. ASSUME NEW j \in 1 .. n + 1, Within(ws[j], ts) PROVE j = i
    <3>1. From(ws[j]) <= ts /\ ts <= To(ws[j])
      <4>1. From(ws[j]) \in Nat /\ To(ws[j]) \in Nat
        BY <1>8, RangeIs
      <4> QED
        BY <2>7, <4>1 DEF Within
    <3>2. ~(j < i)
      BY <2>5, <3>1
    <3>3. CASE i < j
      <4>1. i \in 1 .. n /\ j - 1 \in 1 .. n /\ i # n + 1 /\ j # 1 /\ (i = j - 1 \/ i < j - 1)
        BY <1>2, <2>4, <3>3
      <4>2. pos[i] <= pos[j - 1] /\ pos[i] \in 1 .. MaxTime /\ pos[j - 1] \in 1 .. MaxTime
        BY <1>4, <1>5, <4>1
      <4>3. To(ws[i]) = pos[i] /\ From(ws[j]) = pos[j - 1] + 1
        BY <1>10, <2>4, <4>1
      <4> QED
        BY <1>1, <2>4, <3>1, <4>2, <4>3
    <3> QED
      BY <1>2, <2>4, <3>2, <3>3
  <2> QED
    BY <2>4, <2>6, <2>7
<1> QED
  BY <1>8, <1>9, <1>11 DEF ws, pos

(* However often the vector grows, every worker knows where it is, and     *)
(* keeps its range.                                                        *)
LEMMA EmplacedAre ==
  ASSUME NEW ws \in Seq(Positioned), NEW more \in Seq(Positioned),
         \A i \in 1 .. Len(ws) : Owns(ws[i], Place(Len(ws), i)),
         \A i \in 1 .. Len(more) : Owns(more[i], Place(Len(ws) + i, Len(ws) + i))
  PROVE  LET all == Emplaced(ws, more) IN
         /\ all \in Seq(Positioned) /\ Len(all) = Len(ws) + Len(more)
         /\ \A i \in 1 .. Len(all) : Owns(all[i], Place(Len(all), i))
         /\ \A i \in 1 .. Len(ws) : SameRange(all[i], ws[i])
         /\ \A i \in 1 .. Len(more) : SameRange(all[Len(ws) + i], more[i])
<1> DEFINE n == Len(ws) + Len(more)
           built == ws \o more
           Was(i) == Place(IF i <= Len(ws) THEN Len(ws) ELSE i, i)
           all == [i \in 1 .. n |-> IF Was(i) = Place(n, i) THEN built[i]
                                    ELSE Moved(built[i], Place(n, i))]
<1>1. all = Emplaced(ws, more)
  BY DEF Emplaced
<1>2. /\ Len(ws) \in Nat /\ Len(more) \in Nat /\ n \in Nat
      /\ (\A i \in 1 .. Len(ws) : ws[i] \in Positioned)
      /\ (\A i \in 1 .. Len(more) : more[i] \in Positioned)
  BY LenProperties, ElementOfSeq
<1>5. /\ \A i \in 1 .. Len(ws) : built[i] = ws[i]
      /\ \A i \in 1 .. Len(more) : built[Len(ws) + i] = more[i]
  <2>1. \A i \in 1 .. Len(ws) + Len(more) :
          built[i] = IF i <= Len(ws) THEN ws[i] ELSE more[i - Len(ws)]
    BY ConcatProperties
  <2> HIDE DEF built
  <2>2. \A i \in 1 .. Len(ws) : built[i] = ws[i]
    BY <1>2, <2>1
  <2>3. ASSUME NEW i \in 1 .. Len(more) PROVE built[Len(ws) + i] = more[i]
    <3>1. Len(ws) + i \in 1 .. Len(ws) + Len(more) /\ ~(Len(ws) + i <= Len(ws))
          /\ (Len(ws) + i) - Len(ws) = i
      BY <1>2
    <3> QED
      BY <2>1, <3>1
  <2> QED
    BY <2>2, <2>3
<1> HIDE DEF built
<1>6. ASSUME NEW i \in 1 .. n PROVE built[i] \in Positioned /\ Owns(built[i], Was(i))
  <2>1. CASE i \in 1 .. Len(ws)
    <3>1. Was(i) = Place(Len(ws), i)
      BY <1>2, <2>1
    <3> QED
      BY <1>2, <1>5, <2>1, <3>1
  <2>2. CASE i - Len(ws) \in 1 .. Len(more)
    <3> DEFINE k == i - Len(ws)
    <3>1. i = Len(ws) + k /\ ~(i <= Len(ws)) /\ k \in 1 .. Len(more)
      BY <1>2, <2>2
    <3>2. Was(i) = Place(i, i)
      BY <3>1
    <3>3. Owns(more[k], Place(Len(ws) + k, Len(ws) + k)) /\ built[Len(ws) + k] = more[k]
      BY <1>5, <3>1
    <3> HIDE DEF k, Was
    <3> QED
      BY <1>2, <3>1, <3>2, <3>3
  <2> QED
    BY <1>2, <2>1, <2>2
<1> HIDE DEF Was
<1>7. ASSUME NEW i \in 1 .. n
      PROVE  all[i] \in Positioned /\ Owns(all[i], Place(n, i)) /\ SameRange(all[i], built[i])
  <2>1. i \in Nat
    OBVIOUS
  <2>2. CASE Was(i) = Place(n, i)
    <3>1. all[i] = built[i]
      BY <2>2
    <3> QED
      BY <1>6, <2>2, <3>1 DEF SameRange
  <2>3. CASE Was(i) # Place(n, i)
    <3>1. all[i] = Moved(built[i], Place(n, i))
      BY <2>3
    <3>2. n \in Nat /\ built[i] \in Positioned
      BY <1>2, <1>6
    <3> HIDE DEF all, n
    <3> DEFINE m == Moved(built[i], Place(n, i))
    <3>3. m \in Positioned /\ Owns(m, Place(n, i)) /\ SameRange(m, built[i])
      BY <2>1, <3>2, MovedIs
    <3> QED
      BY <3>1, <3>3
  <2> QED
    BY <2>2, <2>3
<1>8. all \in Seq(Positioned) /\ Len(all) = n
  <2>1. all = [i \in 1 .. n |-> all[i]]
    OBVIOUS
  <2> HIDE DEF all
  <2>2. all \in [1 .. n -> Positioned]
    BY <1>7, <2>1
  <2> HIDE DEF n
  <2> QED
    BY <1>2, <2>2
<1> HIDE DEF all
<1>9. \A i \in 1 .. Len(ws) : SameRange(all[i], ws[i])
  <2> TAKE i \in 1 .. Len(ws)
  <2>1. i \in 1 .. n
    BY <1>2
  <2> QED
    BY <1>5, <1>7, <2>1
<1>10. \A i \in 1 .. Len(more) : SameRange(all[Len(ws) + i], more[i])
  <2> TAKE i \in 1 .. Len(more)
  <2>1. Len(ws) + i \in 1 .. n
    BY <1>2
  <2> QED
    BY <1>5, <1>7, <2>1
<1> QED
  BY <1>1, <1>7, <1>8, <1>9, <1>10

-------------------------------------------------------------------------------
(* The sort.                                                               *)
Longers(ws, orders) ==
  UNION {{Append(o, i) : i \in Least(ws, DOMAIN ws \ ToSet(o))} : o \in orders}

Orders == SUBSET Seq(Nat)

LongerBy(ws, o, r) == \E i \in Least(ws, DOMAIN ws \ ToSet(o)) : r = Append(o, i)

(* An order of k + 1 workers is an order of k followed by a least of the   *)
(* others, ...                                                             *)
LEMMA LongersAre ==
  ASSUME NEW ws, NEW orders, NEW r \in Longers(ws, orders)
  PROVE  \E o \in orders : LongerBy(ws, o, r)
<1> DEFINE Part(o) == {Append(o, i) : i \in Least(ws, DOMAIN ws \ ToSet(o))}
<1>1. r \in UNION {Part(o) : o \in orders}
  BY DEF Longers
<1> HIDE DEF Part
<1>2. PICK o \in orders : r \in Part(o)
  BY <1>1
<1> QED
  BY <1>2 DEF Part, LongerBy

(* ... a sequence of workers as well, ...                                  *)
LEMMA LongersType ==
  ASSUME NEW ws, DOMAIN ws \subseteq Nat, NEW orders \in Orders
  PROVE  Longers(ws, orders) \in Orders
<1> SUFFICES ASSUME NEW r \in Longers(ws, orders) PROVE r \in Seq(Nat)
  BY DEF Orders
<1>1. PICK o \in orders : LongerBy(ws, o, r)
  BY LongersAre
<1>2. PICK i \in Least(ws, DOMAIN ws \ ToSet(o)) : r = Append(o, i)
  BY <1>1 DEF LongerBy
<1>3. o \in Seq(Nat) /\ i \in Nat
  BY DEF Orders, Least
<1> QED
  BY <1>2, <1>3

(* The orders grow by one worker at a time.                                *)
LEMMA OrdersAreChained ==
  ASSUME NEW n \in Nat, NEW ws, DOMAIN ws = 1 .. n
  PROVE  \E h : /\ h[0] = {<<>>}
                /\ \A k \in 1 .. n : h[k] = Longers(ws, h[k - 1])
                /\ SortedOrders(ws) = h[n]
<1> DEFINE D == 1 .. n
           st == [p \in Orders \X D |-> Longers(ws, p[1])]
           pk == [s \in SUBSET D |-> Max(s)]
           Body(it) == [s \in SUBSET D |-> IF s = {} THEN {<<>>}
                                           ELSE Longers(ws, it[s \ {Max(s)}])]
           iter == CHOOSE it : it = Body(it)
<1>1. IsFiniteSet(D)
  BY FS_Interval
<1>2. SortedOrders(ws) = iter[D]
  BY DEF SortedOrders, FoldLeft, MapThenFoldSet, Longers
<1>3. \A s \in SUBSET D : s # {} => Max(s) \in s /\ pk[s] = Max(s)
  BY MaxOf
<1>4. \A v \in Orders : \A x \in D : st[<<v, x>>] = Longers(ws, v) /\ st[<<v, x>>] \in Orders
  <2>1. DOMAIN ws \subseteq Nat
    OBVIOUS
  <2> QED
    BY <2>1, LongersType
<1>5. {<<>>} \in Orders
  BY DEF Orders
<1> HIDE DEF st, pk
<1>6. PICK g \in [SUBSET D -> Orders] : Folds(st, {<<>>}, pk, g, D)
  <2>1. /\ \A v \in Orders : \A x \in D : st[<<v, x>>] \in Orders
        /\ \A s \in SUBSET D : s # {} => pk[s] \in s
    BY <1>3, <1>4
  <2> HIDE DEF D
  <2>2. \E g \in [SUBSET D -> Orders] : Folds(st, {<<>>}, pk, g, D)
    BY <1>1, <1>5, <2>1, FoldExists, Zenon
  <2> QED
    BY <2>2
<1>7. g = Body(g)
  <2>1. ASSUME NEW s \in SUBSET D
        PROVE  g[s] = IF s = {} THEN {<<>>} ELSE Longers(ws, g[s \ {Max(s)}])
    <3>1. g[s] = IF s = {} THEN {<<>>} ELSE st[<<g[s \ {pk[s]}], pk[s]>>]
      BY <1>6 DEF Folds
    <3>2. s # {} => pk[s] = Max(s) /\ Max(s) \in D /\ g[s \ {Max(s)}] \in Orders
      BY <1>3, <1>6
    <3> QED
      BY <1>4, <3>1, <3>2
  <2>2. g = [s \in SUBSET D |-> g[s]]
    BY <1>6
  <2> QED
    BY <2>1, <2>2
<1> HIDE DEF D
<1>8. iter = Body(iter)
  BY <1>7
<1> HIDE DEF iter
<1>9. \A s \in SUBSET D : iter[s] = IF s = {} THEN {<<>>} ELSE Longers(ws, iter[s \ {Max(s)}])
  <2> SUFFICES ASSUME NEW s \in SUBSET D
               PROVE  iter[s] = IF s = {} THEN {<<>>} ELSE Longers(ws, iter[s \ {Max(s)}])
    OBVIOUS
  <2>1. Body(iter)[s] = IF s = {} THEN {<<>>} ELSE Longers(ws, iter[s \ {Max(s)}])
    OBVIOUS
  <2> HIDE DEF Body
  <2> QED
    BY <1>8, <2>1
<1> DEFINE h == [k \in 0 .. n |-> iter[1 .. k]]
<1>10. h[0] = {<<>>}
  <2>1. 1 .. 0 = {} /\ {} \in SUBSET D /\ 0 \in 0 .. n
    OBVIOUS
  <2> QED
    BY <1>9, <2>1
<1>11. ASSUME NEW k \in 1 .. n PROVE h[k] = Longers(ws, h[k - 1])
  <2>1. k \in Nat /\ k # 0 /\ 1 .. k \in SUBSET D /\ 1 .. k # {} /\ k \in 0 .. n /\ k - 1 \in 0 .. n
    <3>1. k \in Nat /\ k # 0 /\ k \in 0 .. n /\ k - 1 \in 0 .. n /\ k \in 1 .. k
      OBVIOUS
    <3>2. 1 .. k \subseteq 1 .. n
      OBVIOUS
    <3> QED
      BY <3>1, <3>2 DEF D
  <2>2. Max(1 .. k) = k /\ (1 .. k) \ {k} = 1 .. (k - 1)
    BY <2>1, UpTo
  <2>3. iter[1 .. k] = Longers(ws, iter[1 .. (k - 1)])
    BY <1>9, <2>1, <2>2
  <2> QED
    BY <2>1, <2>3
<1>12. h[n] = iter[D]
  BY DEF D
<1> HIDE DEF h
<1> QED
  BY <1>2, <1>10, <1>11, <1>12

(* An order takes every worker once, and none before a smaller one.        *)
InOrder(ws, o, k) ==
  /\ o \in Seq(DOMAIN ws) /\ Len(o) = k
  /\ \A p, q \in 1 .. k : p # q => o[p] # o[q]
  /\ \A p \in 1 .. k : \A j \in DOMAIN ws :
       (\A q \in 1 .. p - 1 : o[q] # j) => ~Before(ws[j], ws[o[p]])

(* ... and in order if the first k are.                                    *)
LEMMA InOrderStep ==
  ASSUME NEW ws, NEW k \in Nat, NEW o, InOrder(ws, o, k),
         NEW i \in Least(ws, DOMAIN ws \ ToSet(o))
  PROVE  InOrder(ws, Append(o, i), k + 1)
<1> DEFINE more == Append(o, i)
<1>1. o \in Seq(DOMAIN ws) /\ Len(o) = k /\ i \in DOMAIN ws
  BY DEF InOrder, Least
<1>2. /\ more \in Seq(DOMAIN ws) /\ Len(more) = k + 1 /\ more[k + 1] = i
      /\ \A p \in 1 .. k : more[p] = o[p]
  BY <1>1, AppendProperties
<1>3. \A p \in 1 .. k : o[p] # i
  <2> TAKE p \in 1 .. k
  <2>1. o[p] \in ToSet(o)
    BY <1>1, LenProperties DEF ToSet
  <2> QED
    BY <2>1 DEF Least
<1>4. ASSUME NEW j \in DOMAIN ws, \A q \in 1 .. k : o[q] # j
      PROVE  ~Before(ws[j], ws[i])
  <2>1. j \notin ToSet(o)
    BY <1>1, <1>4, LenProperties DEF ToSet
  <2> QED
    BY <2>1 DEF Least
<1> HIDE DEF more
<1>5. \A p, q \in 1 .. k + 1 : p # q => more[p] # more[q]
  BY <1>2, <1>3 DEF InOrder
<1>6. ASSUME NEW p \in 1 .. k + 1, NEW j \in DOMAIN ws, \A q \in 1 .. p - 1 : more[q] # j
      PROVE  ~Before(ws[j], ws[more[p]])
  <2>1. CASE p = k + 1
    <3>1. \A q \in 1 .. k : o[q] # j
      BY <1>2, <1>6, <2>1
    <3> QED
      BY <1>2, <1>4, <2>1, <3>1
  <2>2. CASE p \in 1 .. k
    <3>1. \A q \in 1 .. p - 1 : o[q] # j
      BY <1>2, <1>6, <2>2
    <3> QED
      BY <1>2, <2>2, <3>1 DEF InOrder
  <2> QED
    BY <2>1, <2>2
<1> QED
  BY <1>2, <1>5, <1>6 DEF InOrder, more

(* Every order the sort may leave has each worker once, none before an     *)
(* earlier one.                                                            *)
LEMMA SortedOrdersAre ==
  ASSUME NEW n \in Nat, NEW ws, DOMAIN ws = 1 .. n, NEW o \in SortedOrders(ws)
  PROVE  InOrder(ws, o, n)
<1>1. PICK h : /\ h[0] = {<<>>}
               /\ \A k \in 1 .. n : h[k] = Longers(ws, h[k - 1])
               /\ SortedOrders(ws) = h[n]
  BY OrdersAreChained
<1> DEFINE Kept(k) == \A r \in h[k] : InOrder(ws, r, k)
           Bad == {k \in 0 .. n : ~Kept(k)}
<1>2. Kept(0)
  <2>1. InOrder(ws, <<>>, 0)
    BY DEF InOrder
  <2> QED
    BY <1>1, <2>1
<1>3. ASSUME NEW k \in 1 .. n, Kept(k - 1) PROVE Kept(k)
  <2> SUFFICES ASSUME NEW r \in h[k] PROVE InOrder(ws, r, k)
    OBVIOUS
  <2>0. r \in Longers(ws, h[k - 1])
    BY <1>1
  <2>4. PICK p \in h[k - 1] : LongerBy(ws, p, r)
    BY <2>0, LongersAre
  <2>1. PICK i \in Least(ws, DOMAIN ws \ ToSet(p)) : r = Append(p, i)
    BY <2>4 DEF LongerBy
  <2>2. k - 1 \in Nat /\ (k - 1) + 1 = k /\ InOrder(ws, p, k - 1)
    BY <1>3, <2>1
  <2>3. InOrder(ws, Append(p, i), (k - 1) + 1)
    BY <2>1, <2>2, InOrderStep
  <2> QED
    BY <2>1, <2>2, <2>3
<1> HIDE DEF Kept
<1>4. Bad = {}
  <2> SUFFICES ASSUME Bad # {} PROVE FALSE
    OBVIOUS
  <2>1. Bad \in SUBSET Nat
    OBVIOUS
  <2> HIDE DEF Bad
  <2>2. PICK k \in Bad : \A m \in Bad : k <= m
    BY <2>1, SmallestNat
  <2>3. k \in 0 .. n /\ ~Kept(k)
    BY <2>2 DEF Bad
  <2>4. k \in 1 .. n
    BY <1>2, <2>3
  <2>5. k - 1 \in 0 .. n /\ k - 1 \notin Bad
    BY <2>1, <2>2, <2>4
  <2>6. Kept(k - 1)
    BY <2>5 DEF Bad
  <2> QED
    BY <1>3, <2>3, <2>4, <2>6
<1>5. Kept(n)
  BY <1>4
<1> QED
  BY <1>1, <1>5 DEF Kept

(* Such an order is a permutation of the workers.                          *)
LEMMA OrderIsOnto ==
  ASSUME NEW n \in Nat, NEW ws, DOMAIN ws = 1 .. n, NEW o, InOrder(ws, o, n)
  PROVE  /\ \A i \in 1 .. n : o[i] \in 1 .. n
         /\ \A j \in 1 .. n : \E i \in 1 .. n : o[i] = j
         /\ \A i, j \in 1 .. n : o[i] = o[j] => i = j
         /\ \A i, j \in 1 .. n : i < j => ~Before(ws[o[j]], ws[o[i]])
<1> DEFINE D == 1 .. n
<1>1. /\ o \in [D -> D] /\ \A p, q \in D : p # q => o[p] # o[q]
  BY LenProperties DEF InOrder
<1>2. IsFiniteSet(D)
  BY FS_Interval
<1>3. \A i, j \in D : i < j => ~Before(ws[o[j]], ws[o[i]])
  <2> SUFFICES ASSUME NEW i \in D, NEW j \in D, i < j PROVE ~Before(ws[o[j]], ws[o[i]])
    OBVIOUS
  <2>1. o[j] \in DOMAIN ws /\ \A q \in 1 .. i - 1 : q \in D /\ q # j
    BY <1>1
  <2>2. \A q \in 1 .. i - 1 : o[q] # o[j]
    BY <1>1, <2>1
  <2> QED
    BY <2>1, <2>2 DEF InOrder
<1> HIDE DEF D
<1>4. o \in Injection(D, D)
  BY <1>1 DEF Injection, IsInjective
<1>5. o \in Surjection(D, D)
  BY <1>2, <1>4, FS_Injection
<1>6. \A j \in D : \E i \in D : o[i] = j
  BY <1>5 DEF Surjection
<1> QED
  BY <1>1, <1>3, <1>6 DEF D

-------------------------------------------------------------------------------
(* The workers of a stream part its time, from when it is read on.         *)
SplitTypes == indices \in PacketLists /\ workers \in Seq(Positioned)

(* A stream is read once.                                                  *)
ReadOnce ==
  /\ phase \in {"start", "setup"} => workers = <<>> /\ name = NULL
  /\ name # NULL => name \in Streams \ listing /\ WorkersOf(name) = {}
  /\ \A s \in listing : WorkersOf(s) = {}

Parted ==
  \A s \in Streams : WorkersOf(s) # {} =>
    \A ts \in 1 .. MaxTime : \E i \in WorkersOf(s) :
      \A j \in WorkersOf(s) : Within(workers[j], ts) <=> j = i

Sorted ==
  phase \in {"sorted", "done"} =>
    \A i, j \in DOMAIN workers : i < j => ~Before(workers[j], workers[i])

SplitInv ==
  /\ SplitTypes
  /\ ReadOnce
  /\ Parted
  /\ Sorted
  /\ PointersOwn

(* An index without packets is an index.                                   *)
LEMMA NoPackets == <<>> \in PacketLists
<1>1. <<>> \in [1 .. 0 -> PacketHeader] /\ 0 \in 0 .. MaxPackets
  BY BalancedSplitAssumption
<1>2. <<>> \in UNION {[1 .. n -> PacketHeader] : n \in 0 .. MaxPackets}
  BY <1>1
<1> QED
  BY <1>2 DEF PacketLists, IsSorted

(* The vector of workers is indexed from 1, by what the constructor and    *)
(* the moves may leave.                                                    *)
LEMMA WorkersDomain ==
  ASSUME SplitTypes
  PROVE  /\ Len(workers) \in Nat /\ DOMAIN workers = 1 .. Len(workers)
         /\ \A i \in DOMAIN workers : workers[i] \in Positioned
BY LenProperties, ElementOfSeq DEF SplitTypes

(* The invariant of the split holds at first, ...                          *)
LEMMA InitSplit == Init => SplitInv
<1> SUFFICES ASSUME Init PROVE SplitInv
  OBVIOUS
<1>1. workers = <<>> /\ indices = <<>> /\ listing = {} /\ name = NULL /\ phase = "start"
  BY DEF Init, SetupInit
<1>2. \A s : WorkersOf(s) = {}
  BY <1>1 DEF WorkersOf
<1>3. SplitTypes
  BY <1>1, NoPackets DEF SplitTypes
<1> QED
  BY <1>1, <1>2, <1>3 DEF SplitInv, ReadOnce, Parted, Sorted, PointersOwn

(* What leaves the workers alone.                                          *)
LEMMA SameWorkers ==
  ASSUME SplitInv, UNCHANGED workers, indices' \in PacketLists,
         ReadOnce', phase' \in {"sorted", "done"} => phase \in {"sorted", "done"}
  PROVE  SplitInv'
<1>1. \A s : WorkersOf(s)' = WorkersOf(s)
  BY DEF WorkersOf
<1>2. Parted'
  BY <1>1 DEF SplitInv, Parted, Within, From, To
<1> QED
  BY <1>2 DEF SplitInv, SplitTypes, Sorted, PointersOwn

(* A range is the same wherever its worker is.                             *)
LEMMA SameWithin ==
  ASSUME NEW v, NEW w, SameRange(v, w)
  PROVE  /\ \A ts : Within(v, ts) <=> Within(w, ts)
         /\ \A x, y : SameRange(x, y) => (Before(v, x) <=> Before(w, y))
         /\ v.stream = w.stream
BY DEF SameRange, Within, From, To, Before

(* ... when a stream's packets are cut and its workers emplaced, ...       *)
LEMMA SplitStreamKeeps ==
  ASSUME SplitInv, SplitStream
  PROVE  SplitInv'
<1> DEFINE n == Len(workers)
           more == StreamWorkers(name, Positions(indices), n)
           Now(s) == {i \in DOMAIN workers' : workers'[i].stream = s}
<1>1. /\ phase = "index" /\ phase' = "index" /\ name # NULL /\ name' = NULL
      /\ workers' = Emplaced(workers, more) /\ UNCHANGED <<listing, indices>>
  BY DEF SplitStream, setupVars
<1>2. /\ name \in Streams \ listing /\ WorkersOf(name) = {}
      /\ indices \in PacketLists /\ workers \in Seq(Positioned)
  BY <1>1 DEF SplitInv, ReadOnce, SplitTypes
<1>3. /\ more \in Seq(Positioned)
      /\ \A i \in 1 .. Len(more) : more[i].stream = name /\ Owns(more[i], Place(n + i, n + i))
      /\ \A ts \in 1 .. MaxTime : \E i \in 1 .. Len(more) :
           \A j \in 1 .. Len(more) : Within(more[j], ts) <=> j = i
  <2>1. n \in Nat
    BY <1>2, LenProperties
  <2> HIDE DEF n
  <2> QED
    BY <1>2, <2>1, StreamWorkersPart
<1> HIDE DEF more
<1>4. /\ workers' \in Seq(Positioned) /\ Len(workers') = n + Len(more)
      /\ \A i \in 1 .. Len(workers') : Owns(workers'[i], Place(Len(workers'), i))
      /\ \A i \in 1 .. n : SameRange(workers'[i], workers[i])
      /\ \A i \in 1 .. Len(more) : SameRange(workers'[n + i], more[i])
  <2>1. \A i \in 1 .. n : Owns(workers[i], Place(n, i))
    BY <1>2, LenProperties DEF SplitInv, PointersOwn, Owns
  <2> QED
    BY <1>1, <1>2, <1>3, <2>1, EmplacedAre
<1>5. /\ n \in Nat /\ Len(more) \in Nat
      /\ DOMAIN workers = 1 .. n /\ DOMAIN workers' = 1 .. n + Len(more)
  BY <1>2, <1>3, <1>4, LenProperties
<1> HIDE DEF n
<1>0. \A s : WorkersOf(s)' = Now(s)
  BY DEF WorkersOf
<1>6. ASSUME NEW s, s # name PROVE Now(s) = WorkersOf(s)
  <2>1. ASSUME NEW i \in Now(s) PROVE i \in WorkersOf(s)
    <3>1. i \in 1 .. n + Len(more) /\ workers'[i].stream = s
      BY <1>5, <2>1 DEF WorkersOf
    <3>2. CASE i \in 1 .. n
      BY <1>4, <1>5, <3>1, <3>2 DEF WorkersOf, SameRange
    <3>3. CASE i - n \in 1 .. Len(more)
      <4>1. i = n + (i - n)
        BY <1>5, <3>1
      <4>2. workers'[i].stream = name
        BY <1>3, <1>4, <3>3, <4>1 DEF SameRange
      <4> QED
        BY <1>6, <3>1, <4>2
    <3> QED
      BY <1>5, <3>1, <3>2, <3>3
  <2>2. ASSUME NEW i \in WorkersOf(s) PROVE i \in Now(s)
    <3>1. i \in 1 .. n /\ workers[i].stream = s
      BY <1>5, <2>2 DEF WorkersOf
    <3> QED
      BY <1>4, <1>5, <3>1 DEF WorkersOf, SameRange
  <2> QED
    BY <2>1, <2>2
<1>7. \A i : i \in Now(name) <=> i - n \in 1 .. Len(more) /\ i \in Int
  <2> TAKE i
  <2>1. ASSUME i \in Now(name) PROVE i - n \in 1 .. Len(more) /\ i \in Int
    <3>1. i \in 1 .. n + Len(more) /\ workers'[i].stream = name
      BY <1>5, <2>1 DEF WorkersOf
    <3>2. i \notin 1 .. n
      BY <1>2, <1>4, <1>5, <3>1 DEF WorkersOf, SameRange
    <3> QED
      BY <1>5, <3>1, <3>2
  <2>2. ASSUME i - n \in 1 .. Len(more), i \in Int PROVE i \in Now(name)
    <3>1. i = n + (i - n) /\ i \in 1 .. n + Len(more)
      BY <1>5, <2>2
    <3>2. workers'[i].stream = name
      BY <1>3, <1>4, <2>2, <3>1 DEF SameRange
    <3> QED
      BY <1>5, <3>1, <3>2 DEF WorkersOf
  <2> QED
    BY <2>1, <2>2
<1> HIDE DEF Now
<1>8. ReadOnce'
  BY <1>0, <1>1, <1>2, <1>6 DEF SplitInv, ReadOnce
<1>9. Parted'
  <2> SUFFICES ASSUME NEW s \in Streams, Now(s) # {}, NEW ts \in 1 .. MaxTime
               PROVE  \E i \in Now(s) :
                        \A j \in Now(s) : Within(workers'[j], ts) <=> j = i
    BY <1>0 DEF Parted, Within, From, To
  <2>1. CASE s # name
    <3>1. Now(s) = WorkersOf(s) /\ WorkersOf(s) # {}
      BY <1>6, <2>1
    <3>2. PICK i \in WorkersOf(s) : \A j \in WorkersOf(s) : Within(workers[j], ts) <=> j = i
      BY <3>1 DEF SplitInv, Parted
    <3>3. \A j \in WorkersOf(s) : SameRange(workers'[j], workers[j])
      BY <1>4, <1>5 DEF WorkersOf
    <3>4. \A j \in WorkersOf(s) : Within(workers'[j], ts) <=> Within(workers[j], ts)
      BY <3>3, SameWithin
    <3> QED
      BY <3>1, <3>2, <3>4
  <2>2. CASE s = name
    <3>1. PICK i \in 1 .. Len(more) : \A j \in 1 .. Len(more) : Within(more[j], ts) <=> j = i
      BY <1>3
    <3>2. n + i \in Now(s)
      <4>1. (n + i) - n = i /\ n + i \in Int
        BY <1>5
      <4> QED
        BY <1>7, <2>2, <4>1
    <3>3. ASSUME NEW j \in Now(s) PROVE Within(workers'[j], ts) <=> j = n + i
      <4>1. j - n \in 1 .. Len(more) /\ j \in Int /\ j = n + (j - n)
        BY <1>5, <1>7, <2>2
      <4>2. Within(workers'[j], ts) <=> Within(more[j - n], ts)
        BY <1>4, <4>1, SameWithin
      <4>3. j - n = i <=> j = n + i
        BY <1>5, <4>1
      <4> QED
        BY <3>1, <4>1, <4>2, <4>3
    <3> QED
      BY <3>2, <3>3
  <2> QED
    BY <2>1, <2>2
<1> QED
  BY <1>1, <1>2, <1>4, <1>5, <1>8, <1>9 DEF SplitInv, SplitTypes, Sorted, PointersOwn, Owns

(* ... when the workers of all streams are sorted, ...                     *)
LEMMA SortWorkersKeeps ==
  ASSUME SplitInv, SortWorkers
  PROVE  SplitInv'
<1> DEFINE n == Len(workers)
           Now(s) == {i \in DOMAIN workers' : workers'[i].stream = s}
<1>1. /\ listing' = {} /\ name' = NULL /\ phase' = "sorted" /\ indices' = <<>>
      /\ \E o \in SortedOrders(workers) :
           workers' = [i \in DOMAIN workers |->
                         IF o[i] = i THEN workers[i]
                         ELSE Moved(workers[o[i]], Place(Len(workers), i))]
  BY DEF SortWorkers
<1>2. /\ n \in Nat /\ DOMAIN workers = 1 .. n
      /\ \A i \in 1 .. n : workers[i] \in Positioned /\ Owns(workers[i], Place(n, i))
  BY WorkersDomain DEF SplitInv, PointersOwn, Owns
<1>3. PICK o \in SortedOrders(workers) :
        workers' = [i \in DOMAIN workers |->
                      IF o[i] = i THEN workers[i]
                      ELSE Moved(workers[o[i]], Place(Len(workers), i))]
  BY <1>1
<1>4. /\ \A i \in 1 .. n : o[i] \in 1 .. n
      /\ \A j \in 1 .. n : \E i \in 1 .. n : o[i] = j
      /\ \A i, j \in 1 .. n : o[i] = o[j] => i = j
      /\ \A i, j \in 1 .. n : i < j => ~Before(workers[o[j]], workers[o[i]])
  <2>1. InOrder(workers, o, n)
    BY <1>2, SortedOrdersAre
  <2> HIDE DEF n
  <2> QED
    BY <1>2, <2>1, OrderIsOnto
<1>5. DOMAIN workers' = 1 .. n
  BY <1>2, <1>3
<1>6. ASSUME NEW i \in 1 .. n
      PROVE  /\ workers'[i] \in Positioned /\ Owns(workers'[i], Place(n, i))
             /\ SameRange(workers'[i], workers[o[i]])
  <2>1. workers'[i] = IF o[i] = i THEN workers[i] ELSE Moved(workers[o[i]], Place(n, i))
    BY <1>2, <1>3
  <2>2. i \in Nat /\ workers[o[i]] \in Positioned
    BY <1>2, <1>4
  <2> HIDE DEF n
  <2>3. CASE o[i] = i
    BY <1>2, <2>1, <2>3 DEF SameRange
  <2>4. CASE o[i] # i
    <3> DEFINE m == Moved(workers[o[i]], Place(n, i))
    <3>1. m \in Positioned /\ Owns(m, Place(n, i)) /\ SameRange(m, workers[o[i]])
      BY <1>2, <2>2, MovedIs
    <3> QED
      BY <2>1, <2>4, <3>1
  <2> QED
    BY <2>3, <2>4
<1>7. workers' \in Seq(Positioned) /\ Len(workers') = n
  <2>1. workers' = [i \in 1 .. n |-> workers'[i]]
    BY <1>2, <1>3
  <2> HIDE DEF n
  <2>2. workers' \in [1 .. n -> Positioned]
    BY <1>6, <2>1
  <2> QED
    BY <1>2, <2>2
<1> HIDE DEF n
<1>8. \A s : WorkersOf(s)' = Now(s)
  BY DEF WorkersOf
<1>9. \A s : \A i \in 1 .. n : i \in Now(s) <=> o[i] \in WorkersOf(s)
  <2> TAKE s
  <2> TAKE i \in 1 .. n
  <2>1. workers'[i].stream = workers[o[i]].stream /\ o[i] \in 1 .. n
    BY <1>4, <1>6 DEF SameRange
  <2> QED
    BY <1>2, <1>5, <2>1 DEF WorkersOf
<1>10. \A s : Now(s) \subseteq 1 .. n /\ WorkersOf(s) \subseteq 1 .. n
  BY <1>2, <1>5 DEF WorkersOf
<1> HIDE DEF Now
<1>11. ReadOnce'
  BY <1>1 DEF ReadOnce
<1>12. Parted'
  <2> SUFFICES ASSUME NEW s \in Streams, Now(s) # {}, NEW ts \in 1 .. MaxTime
               PROVE  \E i \in Now(s) : \A j \in Now(s) : Within(workers'[j], ts) <=> j = i
    BY <1>8 DEF Parted, Within, From, To
  <2>1. WorkersOf(s) # {}
    BY <1>9, <1>10
  <2>2. PICK k \in WorkersOf(s) : \A j \in WorkersOf(s) : Within(workers[j], ts) <=> j = k
    BY <2>1 DEF SplitInv, Parted
  <2>3. PICK i \in 1 .. n : o[i] = k
    BY <1>4, <1>10, <2>2
  <2>4. i \in Now(s)
    BY <1>9, <2>2, <2>3
  <2>5. ASSUME NEW j \in Now(s) PROVE Within(workers'[j], ts) <=> j = i
    <3>1. j \in 1 .. n /\ o[j] \in WorkersOf(s)
      BY <1>9, <1>10
    <3>2. Within(workers'[j], ts) <=> Within(workers[o[j]], ts)
      BY <1>6, <3>1, SameWithin
    <3>3. o[j] = k <=> j = i
      BY <1>4, <2>3, <3>1
    <3> QED
      BY <2>2, <3>1, <3>2, <3>3
  <2> QED
    BY <2>4, <2>5
<1>13. Sorted'
  <2>1. ASSUME NEW i \in 1 .. n, NEW j \in 1 .. n, i < j
        PROVE  ~Before(workers'[j], workers'[i])
    <3>1. SameRange(workers'[j], workers[o[j]]) /\ SameRange(workers'[i], workers[o[i]])
      BY <1>6
    <3>2. ~Before(workers[o[j]], workers[o[i]])
      BY <1>4, <2>1
    <3> QED
      BY <3>1, <3>2 DEF Before, SameRange
  <2> QED
    BY <1>5, <2>1 DEF Sorted, Before
<1>14. PointersOwn'
  BY <1>5, <1>6, <1>7 DEF PointersOwn, Owns
<1> QED
  BY <1>1, <1>7, <1>11, <1>12, <1>13, <1>14, NoPackets DEF SplitInv, SplitTypes

(* ... in every step of the main thread, ...                               *)
LEMMA MainSplit ==
  ASSUME Inv, SplitInv, Main
  PROVE  SplitInv'
<1>1. CASE SplitStream \/ SortWorkers
  BY <1>1, SplitStreamKeeps, SortWorkersKeeps
<1>2. CASE MakeTmpDir /\ UNCHANGED splitVars
  <2>1. phase = "start" /\ phase' = "setup" /\ UNCHANGED <<listing, name, indices, workers>>
    BY <1>2 DEF MakeTmpDir, splitVars
  <2>2. ReadOnce'
    BY <2>1 DEF SplitInv, ReadOnce, WorkersOf
  <2> QED
    BY <2>1, <2>2, SameWorkers DEF SplitInv, SplitTypes
<1>3. CASE ListIndexFiles
  <2>1. phase = "setup" /\ phase' = "index" /\ UNCHANGED <<name, indices, workers>>
    BY <1>3 DEF ListIndexFiles, AllSetUp
  <2>2. name' = NULL /\ \A s : WorkersOf(s)' = {}
    BY <2>1 DEF SplitInv, ReadOnce, WorkersOf
  <2>3. ReadOnce'
    BY <2>1, <2>2 DEF ReadOnce
  <2> QED
    BY <2>1, <2>3, SameWorkers DEF SplitInv, SplitTypes
<1>4. ASSUME NEW f \in listing,
             \/ NoTraceSet(f)
             \/ CannotOpenIndex(f)
             \/ NoTrace(f)
             \/ RefuseIndex(f)
             \/ ReadIndex(f)
      PROVE  SplitInv'
  <2>1. phase = "index" /\ phase' \in {"index", "crashed"} /\ name = NULL /\ UNCHANGED workers
    BY <1>4 DEF NoTraceSet, CannotOpenIndex, NoTrace, RefuseIndex, ReadIndex, Read, Crash, Reading
  <2>2. \A s : WorkersOf(s)' = WorkersOf(s)
    BY <2>1 DEF WorkersOf
  <2>3. CASE NoTraceSet(f) \/ CannotOpenIndex(f) \/ NoTrace(f)
    <3>1. UNCHANGED <<listing, name, indices>>
      BY <2>3 DEF NoTraceSet, CannotOpenIndex, NoTrace, Crash
    <3>2. ReadOnce'
      BY <2>1, <2>2, <3>1 DEF SplitInv, ReadOnce
    <3> QED
      BY <2>1, <3>1, <3>2, SameWorkers DEF SplitInv, SplitTypes
  <2>4. CASE RefuseIndex(f) \/ ReadIndex(f)
    <3>1. f \in Streams
      BY <2>1, <2>4, AllInserted DEF Inv, RefuseIndex, ReadIndex
    <3>2. name' = f /\ listing' = listing \ {f} /\ indices' \in PacketLists
      BY <2>4, NoPackets DEF RefuseIndex, ReadIndex, Read
    <3>3. WorkersOf(f) = {}
      BY DEF SplitInv, ReadOnce
    <3>4. ReadOnce'
      <4>1. WorkersOf(name)' = {i \in DOMAIN workers : workers[i].stream = f}
        BY <2>1, <3>2 DEF WorkersOf
      <4>2. WorkersOf(name)' = {}
        BY <3>3, <4>1 DEF WorkersOf
      <4> QED
        BY <2>1, <2>2, <3>1, <3>2, <4>2 DEF SplitInv, ReadOnce
    <3> QED
      BY <2>1, <3>2, <3>4, SameWorkers
  <2> QED
    BY <1>4, <2>3, <2>4
<1>5. CASE DivideByZero
  <2>1. phase' = "crashed" /\ UNCHANGED <<listing, name, indices, workers>>
    BY <1>5 DEF DivideByZero, splitVars
  <2>2. ReadOnce'
    BY <2>1 DEF SplitInv, ReadOnce, WorkersOf
  <2> QED
    BY <2>1, <2>2, SameWorkers DEF SplitInv, SplitTypes
<1>6. CASE Report
  <2>1. phase = "sorted" /\ phase' = "done" /\ UNCHANGED <<listing, name, indices, workers>>
    BY <1>6 DEF Report, splitVars
  <2>2. ReadOnce'
    BY <2>1 DEF SplitInv, ReadOnce, WorkersOf
  <2> QED
    BY <2>1, <2>2, SameWorkers DEF SplitInv, SplitTypes
<1> QED
  BY <1>1, <1>2, <1>3, <1>4, <1>5, <1>6 DEF Main

(* ... and while the streams are set up, ...                               *)
LEMMA SetUpSplit ==
  ASSUME SplitInv, NEW s \in Streams, SetUp(s), UNCHANGED splitVars
  PROVE  SplitInv'
<1>1. phase = "setup" /\ phase' = "setup" /\ UNCHANGED <<listing, name, indices, workers>>
  BY DEF SetUp, MakeStreamDir, LinkStream, LinkMetadata, MakeIndexDir, LinkIndex, Lock, Emplace,
     AddTrace, At, splitVars
<1>2. ReadOnce'
  BY <1>1 DEF SplitInv, ReadOnce, WorkersOf
<1> QED
  BY <1>1, <1>2, SameWorkers DEF SplitInv, SplitTypes

(* ... so it holds always.                                                 *)
LEMMA SplitInvariant == Spec => []SplitInv
<1>1. ASSUME Inv, SplitInv, [Next]_vars PROVE SplitInv'
  <2>1. CASE UNCHANGED vars
    <3>1. UNCHANGED <<phase, listing, name, indices, workers>>
      BY <2>1 DEF vars, setupVars, splitVars
    <3>2. ReadOnce'
      BY <1>1, <3>1 DEF SplitInv, ReadOnce, WorkersOf
    <3> QED
      BY <1>1, <3>1, <3>2, SameWorkers DEF SplitInv, SplitTypes
  <2> QED
    BY <1>1, <2>1, MainSplit, SetUpSplit DEF Next, Finished
<1> QED
  BY <1>1, InitSplit, Invariant, PTL DEF Spec

(* Every pointer a worker hands out is to its own fields, however often    *)
(* the vector grew and whatever the sort exchanged.                        *)
THEOREM PointersAreOwn == Spec => []PointersOwn
<1>1. SplitInv => PointersOwn
  BY DEF SplitInv
<1> QED
  BY <1>1, SplitInvariant, PTL

(* The workers of a stream part its time: every event belongs to exactly   *)
(* one of them, also when packets end at the same time.                    *)
THEOREM EventsBelongOnce == Spec => []EveryEventOnce
<1>1. ASSUME SplitInv PROVE EveryEventOnce
  <2> SUFFICES ASSUME NEW s \in Streams, WorkersOf(s) # {}, NEW ts \in 1 .. MaxTime
               PROVE  Cardinality({i \in WorkersOf(s) :
                                     ts \in From(workers[i]) .. To(workers[i])}) = 1
    BY DEF EveryEventOnce
  <2>1. PICK i \in WorkersOf(s) : \A j \in WorkersOf(s) : Within(workers[j], ts) <=> j = i
    BY <1>1 DEF SplitInv, Parted
  <2>2. {j \in WorkersOf(s) : ts \in From(workers[j]) .. To(workers[j])} = {i}
    BY <2>1 DEF Within
  <2> QED
    BY <2>2, FS_Singleton
<1> QED
  BY <1>1, SplitInvariant, PTL

(* After the sort the workers of one stream that have any event follow     *)
(* each other in time.                                                     *)
THEOREM WorkersInOrder == Spec => []StreamsInOrder
<1>1. ASSUME SplitInv PROVE StreamsInOrder
  <2> SUFFICES ASSUME phase \in {"sorted", "done"},
                      NEW i \in DOMAIN workers, NEW j \in DOMAIN workers, i < j,
                      workers[i].stream = workers[j].stream,
                      From(workers[i]) <= To(workers[i]), From(workers[j]) <= To(workers[j])
               PROVE  To(workers[i]) < From(workers[j])
    BY DEF StreamsInOrder
  <2> DEFINE s == workers[i].stream
  <2>1. workers[i] \in Positioned /\ workers[j] \in Positioned /\ i # j
    BY <1>1, WorkersDomain DEF SplitInv
  <2>2. s \in Streams /\ i \in WorkersOf(s) /\ j \in WorkersOf(s)
    BY <2>1 DEF Positioned, WorkersOf
  <2>3. /\ From(workers[i]) \in Nat /\ To(workers[i]) \in Nat
        /\ From(workers[j]) \in Nat /\ To(workers[j]) \in Nat
        /\ From(workers[i]) >= 1 /\ From(workers[j]) >= 1 /\ To(workers[j]) <= MaxTime
    BY <2>1, RangeIs
  <2>4. From(workers[i]) <= From(workers[j])
    <3>1. ~Before(workers[j], workers[i])
      BY <1>1 DEF SplitInv, Sorted
    <3>2. \/ workers[i].beginPos = NULL
          \/ /\ workers[i].beginPos # NULL /\ workers[j].beginPos # NULL
             /\ ~(workers[j].beginPos < workers[i].beginPos)
      BY <3>1 DEF Before
    <3>3. CASE workers[i].beginPos = NULL
      <4>1. From(workers[i]) = 1
        BY <3>3 DEF From
      <4> QED
        BY <2>3, <4>1
    <3>4. CASE /\ workers[i].beginPos # NULL /\ workers[j].beginPos # NULL
               /\ ~(workers[j].beginPos < workers[i].beginPos)
      <4>1. From(workers[i]) = workers[i].beginPos /\ From(workers[j]) = workers[j].beginPos
        BY <3>4 DEF From
      <4> QED
        BY <2>3, <3>4, <4>1
    <3> QED
      BY <3>2, <3>3, <3>4
  <2>5. CASE From(workers[j]) <= To(workers[i])
    <3> DEFINE ts == From(workers[j])
    <3>1. ts \in 1 .. MaxTime /\ Within(workers[i], ts) /\ Within(workers[j], ts)
      <4>1. MaxTime \in Nat
        BY BalancedSplitAssumption
      <4> QED
        BY <2>3, <2>4, <2>5, <4>1 DEF Within
    <3> HIDE DEF ts, s
    <3>2. PICK k \in WorkersOf(s) : \A m \in WorkersOf(s) : Within(workers[m], ts) <=> m = k
      BY <1>1, <2>2, <3>1 DEF SplitInv, Parted
    <3> QED
      BY <2>1, <2>2, <3>1, <3>2
  <2> QED
    BY <2>3, <2>5
<1> QED
  BY <1>1, SplitInvariant, PTL

(* Every chunk but the last of a stream reaches the average size of its    *)
(* packets, and would not without its last packet unless it has no other:  *)
(* of any sizes, 0 included.                                               *)
THEOREM ChunksAreBalanced == Spec => []ChunksBalanced
<1>1. SplitInv => ChunksBalanced
  BY BalancedCuts DEF SplitInv, SplitTypes
<1> QED
  BY <1>1, SplitInvariant, PTL
===============================================================================
