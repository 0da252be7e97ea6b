------------------------ MODULE Diagnostics_proofs -------------------------
(***************************************************************************)
(* Proofs about what the Core tells: BootTrace, the checkpoints on the     *)
(* disk, and Notices, the queue of notifications to the user.              *)
(*                                                                         *)
(* BootTrace holds for any number of checkpoints and starts, and any size  *)
(* of the memory copy.  RouteInv says which files are open and which one   *)
(* is in use while a job runs; KeptInv that a line is in its file when it  *)
(* comes to be flushed, and that what was reported lies before the flushed *)
(* end of one of the files.  Notices holds for any depth of the queue and  *)
(* any number of phones; NoticesInv says what every thread, the queue and  *)
(* the driver's mask know of the notices of the phone that is plugged in.  *)
(***************************************************************************)
EXTENDS BootTrace, Notices, SequenceTheorems, WellFoundedInduction, TLAPS

Content == Lines \cup {Mark}

Jobs == [op : {"none", "line", "replay", "handoff"}, file : Files,
         at : {"write", "flush"}, chunks : Seq(Seq(Content))]

InUse == IF normalReady THEN "normal" ELSE "emergency"

\* Which files are open, by what the job is.
RouteInv ==
  /\ ReadyIsTrue
  /\ normalReady => booted /\ "emergency" \notin open
  /\ ~normalReady => ("normal" \in open <=> job.op \in {"replay", "handoff"})
  /\ job.op = "line" => job.file = InUse
  /\ job.op \in {"replay", "handoff"} => ~booted

\* A job has chunks; a line is one, which is in the file before the flush.
JobInv ==
  /\ job = None \/ (job.op # "none" /\ job.chunks # <<>>)
  /\ job.op = "line" =>
       \E l \in Lines :
         /\ job.chunks = << <<l>> >>
         /\ job.at = "flush" =>
              \E i \in 1..Len(disk[job.file]) : disk[job.file][i] = l

Flushed(l) == \E f \in Files : \E i \in 1..safe[f] : disk[f][i] = l

KeptInv == \A l \in reported : Flushed(l)

IInv == TypeOK /\ RouteInv /\ JobInv /\ KeptInv

-----------------------------------------------------------------------------
(* Types.                                                                  *)

LEMMA NoneType == None \in Jobs
<1>1. <<>> \in Seq(Seq(Content))
  OBVIOUS
<1> QED
  BY <1>1 DEF None, Jobs, Files

LEMMA JobType ==
  ASSUME NEW op \in {"line", "replay", "handoff"}, NEW file \in Files,
         NEW chunks \in Seq(Seq(Content))
  PROVE  Job(op, file, chunks) \in Jobs
BY DEF Job, Jobs

\* One line, or a line that only tells of the handoff.
LEMMA LineType ==
  ASSUME NEW l \in Content
  PROVE  << <<l>> >> \in Seq(Seq(Content))
<1>1. <<l>> \in Seq(Content)
  OBVIOUS
<1> QED
  BY <1>1

LEMMA CheckpointType ==
  ASSUME TypeOK, Checkpoint
  PROVE  lines' \in Lines /\ lines' \in 0..MaxLines
BY TraceAssumption DEF TypeOK, Checkpoint, Lines

LEMMA CapturedType ==
  ASSUME TypeOK, NEW l \in Lines, Captured(l)
  PROVE  /\ replay' \in Seq(Lines) /\ Len(replay') <= ReplayLines
         /\ overflow' \in BOOLEAN
<1>1. CASE overflow \/ Len(replay) = ReplayLines
  BY <1>1 DEF Captured, TypeOK
<1>2. CASE ~(overflow \/ Len(replay) = ReplayLines)
  <2>1. replay' = Append(replay, l) /\ overflow' = overflow
    BY <1>2 DEF Captured
  <2>2. Len(replay) \in Nat /\ Len(replay) < ReplayLines
    BY <1>2, TraceAssumption DEF TypeOK
  <2>3. replay' \in Seq(Lines) /\ Len(replay') = Len(replay) + 1
    BY <2>1, AppendProperties DEF TypeOK
  <2> QED
    BY <2>1, <2>2, <2>3, TraceAssumption DEF TypeOK
<1> QED
  BY <1>1, <1>2

LEMMA ReplayedType ==
  ASSUME TypeOK
  PROVE  Replayed \in Seq(Seq(Content)) /\ Replayed # <<>>
<1> DEFINE S == Seq(Seq(Content))
           m == << <<Mark>> >>
           r == IF replay = <<>> THEN <<>> ELSE <<replay>>
           o == IF overflow THEN << <<Mark>> >> ELSE <<>>
           e == << <<Mark>>, <<Mark>> >>
<1>1. <<Mark>> \in Seq(Content)
  BY DEF Content
<1>2. m \in S /\ e \in S /\ o \in S /\ Len(m) = 1
  BY <1>1
<1>3. replay \in Seq(Content)
  BY SeqMonotonic DEF TypeOK, Content
<1>4. r \in S
  BY <1>3
<1> HIDE DEF m, r, o, e
<1>5. m \o r \in S /\ Len(m \o r) = 1 + Len(r) /\ Len(r) \in Nat
  BY <1>2, <1>4, ConcatProperties, LenProperties
<1> DEFINE a == m \o r
<1>6. a \o o \in S /\ Len(a \o o) = Len(a) + Len(o) /\ Len(o) \in Nat
  BY <1>5, <1>2, ConcatProperties, LenProperties
<1> DEFINE b == a \o o
<1>7. b \o e \in S /\ Len(b \o e) = Len(b) + Len(e) /\ Len(e) \in Nat
  BY <1>6, <1>2, ConcatProperties, LenProperties
<1>8. Replayed = b \o e
  BY DEF Replayed, m, r, o, e
<1>9. Len(b \o e) # 0
  BY <1>5, <1>6, <1>7
<1> QED
  BY <1>7, <1>8, <1>9, EmptySeq

-----------------------------------------------------------------------------
(* The files.                                                              *)

\* What is written stays where it is, and what comes is behind it.
LEMMA GrownFacts ==
  ASSUME TypeOK, NEW c \in Seq(Content), disk' = Grown(c)
  PROVE  /\ disk' \in [Files -> Seq(Content)]
         /\ \A f \in Files : /\ Len(disk[f]) <= Len(disk'[f])
                             /\ \A i \in 1..Len(disk[f]) : disk'[f][i] = disk[f][i]
         /\ Len(disk'[job.file]) = Len(disk[job.file]) + Len(c)
         /\ \A i \in 1..Len(c) : disk'[job.file][Len(disk[job.file]) + i] = c[i]
<1>1. job.file \in Files /\ disk \in [Files -> Seq(Content)]
  BY DEF TypeOK, Content
<1>2. disk' = [disk EXCEPT ![job.file] = disk[job.file] \o c]
  BY DEF Grown
<1> DEFINE d == disk[job.file]
           g == d \o c
<1>3. d \in Seq(Content)
  BY <1>1
<1>4. /\ g \in Seq(Content) /\ Len(g) = Len(d) + Len(c)
      /\ \A i \in 1..Len(g) : g[i] = IF i <= Len(d) THEN d[i] ELSE c[i - Len(d)]
      /\ Len(d) \in Nat /\ Len(c) \in Nat
  BY <1>3, ConcatProperties, LenProperties
<1>5. disk'[job.file] = g /\ \A f \in Files : f # job.file => disk'[f] = disk[f]
  BY <1>1, <1>2
<1>6. disk' \in [Files -> Seq(Content)]
  BY <1>1, <1>2, <1>4
<1>7. \A f \in Files : Len(disk[f]) \in Nat
  BY <1>1, LenProperties
<1> HIDE DEF g
<1>8. \A f \in Files : /\ Len(disk[f]) <= Len(disk'[f])
                       /\ \A i \in 1..Len(disk[f]) : disk'[f][i] = disk[f][i]
  <2> SUFFICES ASSUME NEW f \in Files
               PROVE  /\ Len(disk[f]) <= Len(disk'[f])
                      /\ \A i \in 1..Len(disk[f]) : disk'[f][i] = disk[f][i]
    OBVIOUS
  <2>1. CASE f = job.file
    BY <2>1, <1>4, <1>5
  <2>2. CASE f # job.file
    BY <2>2, <1>5, <1>7
  <2> QED
    BY <2>1, <2>2
<1>9. \A i \in 1..Len(c) : g[Len(d) + i] = c[i]
  <2> SUFFICES ASSUME NEW i \in 1..Len(c)
               PROVE  g[Len(d) + i] = c[i]
    OBVIOUS
  <2>1. Len(d) + i \in 1..Len(g) /\ ~(Len(d) + i <= Len(d)) /\ (Len(d) + i) - Len(d) = i
    BY <1>4
  <2> QED
    BY <2>1, <1>4
<1> QED
  BY <1>4, <1>5, <1>6, <1>8, <1>9

\* The chunk that a job writes.
LEMMA ChunkType ==
  ASSUME IInv, job # None
  PROVE  /\ Head(job.chunks) \in Seq(Content) /\ Len(job.chunks) \in Nat
         /\ job.op \in {"line", "replay", "handoff"} /\ job.file \in Files
         /\ job.chunks \in Seq(Seq(Content)) /\ job.chunks # <<>>
         /\ Len(job.chunks) > 1 =>
              Tail(job.chunks) \in Seq(Seq(Content)) /\ Tail(job.chunks) # <<>>
<1>1. job.chunks \in Seq(Seq(Content)) /\ job.chunks # <<>> /\ job.file \in Files
      /\ job.op \in {"line", "replay", "handoff"}
  BY DEF IInv, TypeOK, JobInv, Content
<1>2. Head(job.chunks) \in Seq(Content) /\ Len(job.chunks) \in Nat
  BY <1>1, HeadTailProperties, LenProperties
<1>3. ASSUME Len(job.chunks) > 1
      PROVE  Tail(job.chunks) \in Seq(Seq(Content)) /\ Tail(job.chunks) # <<>>
  <2>1. Tail(job.chunks) \in Seq(Seq(Content))
        /\ Len(Tail(job.chunks)) = Len(job.chunks) - 1
    BY <1>1, HeadTailProperties
  <2> DEFINE t == Tail(job.chunks)
             n == Len(job.chunks)
  <2>2. n \in Nat /\ n > 1 /\ Len(t) = n - 1
    BY <1>2, <1>3, <2>1
  <2> HIDE DEF t, n
  <2>3. Len(t) # 0
    BY <2>2
  <2>4. t # <<>>
    BY <2>3
  <2> QED
    BY <2>1, <2>4 DEF t
<1> QED
  BY <1>1, <1>2, <1>3

FilesOK ==
  /\ disk \in [Files -> Seq(Content)]
  /\ safe \in [Files -> Nat] /\ \A f \in Files : safe[f] <= Len(disk[f])

\* What is flushed stays, through failures and power cuts.
FlushedStays ==
  \A f \in Files : /\ safe[f] <= safe'[f]
                   /\ \A i \in 1..safe[f] : disk'[f][i] = disk[f][i]

\* Only these three touch a file.
LEMMA UntouchedFiles ==
  ASSUME FilesOK, UNCHANGED <<disk, safe>>
  PROVE  FilesOK' /\ FlushedStays
<1>1. disk' = disk /\ safe' = safe
  OBVIOUS
<1> QED
  BY <1>1 DEF FilesOK, FlushedStays

LEMMA GrownFiles ==
  ASSUME TypeOK, NEW c \in Seq(Content), disk' = Grown(c), safe' = safe
  PROVE  FilesOK' /\ FlushedStays
<1>1. /\ disk' \in [Files -> Seq(Content)]
      /\ \A f \in Files : /\ Len(disk[f]) <= Len(disk'[f])
                          /\ \A i \in 1..Len(disk[f]) : disk'[f][i] = disk[f][i]
  BY GrownFacts
<1>2. /\ disk \in [Files -> Seq(Content)] /\ safe \in [Files -> Nat]
      /\ \A f \in Files : safe[f] <= Len(disk[f])
  BY DEF TypeOK, Content
<1>3. \A f \in Files : safe[f] \in Nat /\ Len(disk[f]) \in Nat /\ Len(disk'[f]) \in Nat
  BY <1>1, <1>2, LenProperties
<1>4. \A f \in Files : safe'[f] <= Len(disk'[f])
  BY <1>1, <1>2, <1>3
<1>5. FlushedStays
  BY <1>1, <1>2, <1>3 DEF FlushedStays
<1> QED
  BY <1>1, <1>2, <1>4, <1>5 DEF FilesOK

LEMMA FlushedFiles ==
  ASSUME TypeOK, disk' = disk,
         safe' = [safe EXCEPT ![job.file] = Len(disk[job.file])]
  PROVE  FilesOK' /\ FlushedStays
<1>1. /\ disk \in [Files -> Seq(Content)] /\ safe \in [Files -> Nat]
      /\ \A f \in Files : safe[f] <= Len(disk[f])
      /\ job.file \in Files
  BY DEF TypeOK, Content
<1>2. \A f \in Files : safe[f] \in Nat /\ Len(disk[f]) \in Nat
  BY <1>1, LenProperties
<1>3. \A f \in Files : safe'[f] = IF f = job.file THEN Len(disk[f]) ELSE safe[f]
  BY <1>1
<1>4. safe' \in [Files -> Nat]
  BY <1>1, <1>2
<1>5. \A f \in Files : safe[f] <= safe'[f] /\ safe'[f] <= Len(disk'[f])
  BY <1>1, <1>2, <1>3
<1> QED
  BY <1>1, <1>4, <1>5 DEF FilesOK, FlushedStays

LEMMA PowerCutFiles ==
  ASSUME TypeOK, PowerCut
  PROVE  FilesOK' /\ FlushedStays
<1>1. /\ disk \in [Files -> Seq(Content)] /\ safe \in [Files -> Nat]
      /\ \A f \in Files : safe[f] <= Len(disk[f])
  BY DEF TypeOK, Content
<1>2. \A f \in Files : safe[f] \in Nat /\ Len(disk[f]) \in Nat
  BY <1>1, LenProperties
<1>3. PICK e \in safe["emergency"]..Len(disk["emergency"]),
           n \in safe["normal"]..Len(disk["normal"]) :
        /\ safe' = [f \in Files |-> IF f = "emergency" THEN e ELSE n]
        /\ disk' = [f \in Files |-> SubSeq(disk[f], 1, safe'[f])]
  BY DEF PowerCut
<1>4. \A f \in Files : f = "emergency" \/ f = "normal"
  BY DEF Files
<1>5. /\ "emergency" \in Files /\ "normal" \in Files
      /\ safe["emergency"] \in Nat /\ Len(disk["emergency"]) \in Nat
      /\ safe["normal"] \in Nat /\ Len(disk["normal"]) \in Nat
  BY <1>2 DEF Files
<1>6. e \in Nat /\ n \in Nat
  BY <1>5
<1>7. safe' \in [Files -> Nat]
  BY <1>3, <1>6
<1>8. \A f \in Files : safe'[f] \in safe[f]..Len(disk[f])
  BY <1>3, <1>4
<1>9. \A f \in Files : safe'[f] \in Nat /\ safe[f] <= safe'[f] /\ safe'[f] <= Len(disk[f])
  BY <1>2, <1>7, <1>8
<1>10. \A f \in Files : /\ disk'[f] \in Seq(Content) /\ Len(disk'[f]) = safe'[f]
                        /\ \A i \in 1..safe'[f] : disk'[f][i] = disk[f][i]
  <2> SUFFICES ASSUME NEW f \in Files
               PROVE  /\ disk'[f] \in Seq(Content) /\ Len(disk'[f]) = safe'[f]
                      /\ \A i \in 1..safe'[f] : disk'[f][i] = disk[f][i]
    OBVIOUS
  <2> DEFINE d == disk[f]
             k == safe'[f]
  <2>1. d \in Seq(Content) /\ k \in Nat /\ Len(d) \in Nat /\ k <= Len(d)
    BY <1>1, <1>2, <1>9
  <2>2. disk'[f] = SubSeq(d, 1, k)
    BY <1>3
  <2> HIDE DEF d, k
  <2>3. /\ SubSeq(d, 1, k) \in Seq(Content) /\ Len(SubSeq(d, 1, k)) = k
        /\ \A i \in 1..k : SubSeq(d, 1, k)[i] = d[i]
    BY <2>1
  <2> QED
    BY <2>2, <2>3 DEF d, k
<1>11. disk' \in [Files -> Seq(Content)]
  BY <1>3, <1>10
<1>12. FlushedStays
  BY <1>2, <1>9, <1>10 DEF FlushedStays
<1> QED
  BY <1>7, <1>9, <1>10, <1>11, <1>12 DEF FilesOK

LEMMA FilesStep ==
  ASSUME IInv, [Next]_vars
  PROVE  FilesOK' /\ FlushedStays
<1>0. TypeOK /\ FilesOK
  BY DEF IInv, TypeOK, FilesOK, Content
<1>1. ASSUME UNCHANGED <<disk, safe>> PROVE FilesOK' /\ FlushedStays
  BY <1>0, <1>1, UntouchedFiles
<1>2. CASE Write
  <2>1. job # None /\ disk' = Grown(Head(job.chunks)) /\ safe' = safe
    BY <1>2 DEF Write
  <2>2. Head(job.chunks) \in Seq(Content)
    BY <2>1, ChunkType
  <2> QED
    BY <1>0, <2>1, <2>2, GrownFiles
<1>3. CASE Flush
  BY <1>0, <1>3, FlushedFiles DEF Flush
<1>4. CASE Fail
  <2>1. job # None /\ safe' = safe
    BY <1>4 DEF Fail
  <2>2. CASE job.at = "write"
    <3>1. PICK n \in 0..Len(Head(job.chunks)) :
            disk' = Grown(SubSeq(Head(job.chunks), 1, n))
      BY <1>4, <2>2 DEF Fail
    <3> DEFINE h == Head(job.chunks)
    <3>2. h \in Seq(Content)
      BY <2>1, ChunkType
    <3> HIDE DEF h
    <3>3. \A k \in 0..Len(h) : SubSeq(h, 1, k) \in Seq(Content)
      BY <3>2, LenProperties
    <3>4. SubSeq(h, 1, n) \in Seq(Content) /\ disk' = Grown(SubSeq(h, 1, n))
      BY <3>1, <3>3 DEF h
    <3> QED
      BY <1>0, <2>1, <3>4, GrownFiles
  <2>3. CASE job.at # "write"
    BY <1>1, <1>4, <2>1, <2>3 DEF Fail
  <2> QED
    BY <2>2, <2>3
<1>5. CASE PowerCut
  BY <1>0, <1>5, PowerCutFiles
<1>6. CASE \/ NoLock \/ PersistNormal \/ Configure \/ ConfigureFails
           \/ \E opens \in BOOLEAN : PersistEmergency(opens)
           \/ UNCHANGED vars
  <2>1. UNCHANGED <<disk, safe>>
    BY <1>6 DEF NoLock, PersistNormal, Configure, ConfigureFails,
                PersistEmergency, vars
  <2> QED
    BY <1>1, <2>1
<1> QED
  BY <1>2, <1>3, <1>4, <1>5, <1>6 DEF Next

-----------------------------------------------------------------------------
(* Which files are open.                                                   *)

LEMMA RouteStep ==
  ASSUME IInv, [Next]_vars
  PROVE  RouteInv'
<1>0. /\ RouteInv /\ open \subseteq Files
      /\ normalReady \in BOOLEAN /\ persistentReady \in BOOLEAN /\ job \in Jobs
      /\ job = None \/ job.op # "none"
  BY DEF IInv, TypeOK, JobInv, Jobs, Content
<1>1. None.op = "none"
  BY DEF None
<1> USE DEF RouteInv, ReadyIsTrue, InUse, Files
<1>2. ASSUME job' = job, UNCHANGED <<open, normalReady, persistentReady, booted>>
      PROVE  RouteInv'
  BY <1>0, <1>2
<1>3. CASE PersistNormal
  <2>1. job'.op = "line" /\ job'.file = "normal" /\ job = None /\ normalReady = TRUE
    BY <1>3 DEF PersistNormal, Persist, Job
  <2> QED
    BY <1>0, <1>1, <1>3, <2>1 DEF PersistNormal
<1>4. ASSUME NEW opens \in BOOLEAN, PersistEmergency(opens) PROVE RouteInv'
  <2>1. job = None /\ normalReady = FALSE /\ normalReady' = normalReady /\ booted' = booted
    BY <1>4 DEF PersistEmergency, Persist
  <2>2. CASE "emergency" \in open \/ opens
    <3>1. /\ job'.op = "line" /\ job'.file = "emergency"
          /\ open' = open \cup {"emergency"}
          /\ persistentReady' = (persistentReady \/ "emergency" \notin open)
      BY <1>4, <2>2 DEF PersistEmergency, Job, Opened
    <3>2. persistentReady' = TRUE
      BY <1>0, <2>1, <3>1
    <3> QED
      BY <1>0, <1>1, <2>1, <3>1, <3>2
  <2>3. CASE ~("emergency" \in open \/ opens)
    BY <1>2, <1>4, <2>1, <2>3 DEF PersistEmergency
  <2> QED
    BY <2>2, <2>3
<1>5. CASE Configure
  <2>1. /\ job'.op = "replay" /\ job = None /\ ~booted /\ open' = open \cup {"normal"}
        /\ UNCHANGED <<normalReady, persistentReady, booted>>
    BY <1>5 DEF Configure, Job, Opened
  <2> QED
    BY <1>0, <1>1, <2>1
<1>6. CASE ConfigureFails
  <2>1. /\ job = None /\ booted' = TRUE
        /\ UNCHANGED <<open, normalReady, persistentReady, job>>
    BY <1>6 DEF ConfigureFails
  <2> QED
    BY <1>0, <1>1, <2>1
<1>7. CASE Write
  <2>1. /\ job' = [job EXCEPT !.at = "flush"]
        /\ UNCHANGED <<open, normalReady, persistentReady, booted>>
    BY <1>7 DEF Write
  <2>2. job'.op = job.op /\ job'.file = job.file
    BY <1>0, <2>1 DEF Jobs
  <2> QED
    BY <1>0, <2>1, <2>2
\* Boot.log has taken over.
<1>8. ASSUME HandedOff, job.op \in {"replay", "handoff"} PROVE RouteInv'
  BY <1>0, <1>1, <1>8 DEF HandedOff
<1>9. CASE Flush
  <2>1. job # None
    BY <1>9 DEF Flush
  <2>2. CASE Len(job.chunks) > 1
    <3>1. /\ job' = Job(job.op, job.file, Tail(job.chunks))
          /\ UNCHANGED <<open, normalReady, persistentReady, booted>>
      BY <1>9, <2>2 DEF Flush
    <3>2. job'.op = job.op /\ job'.file = job.file
      BY <3>1 DEF Job
    <3> QED
      BY <1>0, <3>1, <3>2
  <2>3. CASE ~(Len(job.chunks) > 1)
    <3>1. Done
      BY <1>9, <2>3 DEF Flush
    <3>2. CASE job.op = "line"
      <4>1. LineDone
        BY <3>1, <3>2 DEF Done
      <4> QED
        BY <1>0, <1>1, <3>2, <4>1 DEF LineDone
    <3>3. CASE job.op = "replay"
      <4>1. ReplayDone
        BY <3>1, <3>3 DEF Done
      <4>2. CASE "emergency" \in open
        <5>1. /\ job' = Job("handoff", "emergency", << <<Mark>> >>)
              /\ UNCHANGED <<open, normalReady, persistentReady, booted>>
          BY <4>1, <4>2 DEF ReplayDone
        <5>2. job'.op = "handoff"
          BY <5>1 DEF Job
        <5> QED
          BY <1>0, <3>3, <5>1, <5>2
      <4>3. CASE "emergency" \notin open
        BY <1>8, <3>3, <4>1, <4>3 DEF ReplayDone
      <4> QED
        BY <4>2, <4>3
    <3>4. CASE job.op = "handoff"
      <4>1. HandedOff
        BY <3>1, <3>4 DEF Done
      <4> QED
        BY <1>8, <3>4, <4>1
    <3> QED
      BY <1>0, <2>1, <3>2, <3>3, <3>4 DEF Jobs
  <2> QED
    BY <2>2, <2>3
<1>10. CASE Fail
  <2>1. job # None
    BY <1>10 DEF Fail
  <2>2. CASE job.op = "line"
    <3>1. LineFails
      BY <1>10, <2>2 DEF Fail
    <3>2. job' = None /\ booted' = booted
          /\ open' = open \ {InUse} /\ normalReady' = FALSE
      BY <1>0, <2>2, <3>1 DEF LineFails
    <3>3. "normal" \notin open' /\ "emergency" \notin open'
      BY <1>0, <2>2, <3>2
    <3>4. persistentReady' = FALSE
      BY <1>0, <3>1, <3>2, <3>3 DEF LineFails
    <3> QED
      BY <1>0, <1>1, <3>2, <3>3, <3>4
  <2>3. CASE job.op = "replay"
    <3>1. ReplayFails
      BY <1>10, <2>3 DEF Fail
    <3> QED
      BY <1>0, <1>1, <2>3, <3>1 DEF ReplayFails
  <2>4. CASE job.op = "handoff"
    BY <1>8, <1>10, <2>4 DEF Fail
  <2> QED
    BY <1>0, <2>1, <2>2, <2>3, <2>4 DEF Jobs
<1>11. CASE PowerCut
  BY <1>1, <1>11 DEF PowerCut, Fresh
<1>12. CASE NoLock \/ UNCHANGED vars
  BY <1>2, <1>12 DEF NoLock, vars
<1> QED
  BY <1>3, <1>4, <1>5, <1>6, <1>7, <1>9, <1>10, <1>11, <1>12 DEF Next

-----------------------------------------------------------------------------
(* The job.                                                                *)

LEMMA NoJob == ASSUME job' = None PROVE job' \in Jobs /\ JobInv'
<1>1. None.op = "none"
  BY DEF None
<1> QED
  BY <1>1, NoneType DEF JobInv

LEMMA SameJob ==
  ASSUME IInv, job' = job, disk' = disk
  PROVE  job' \in Jobs /\ JobInv'
BY DEF IInv, TypeOK, JobInv, Jobs, Content

LEMMA NewJob ==
  ASSUME NEW op \in {"replay", "handoff"}, NEW file \in Files,
         NEW chunks \in Seq(Seq(Content)), chunks # <<>>,
         job' = Job(op, file, chunks)
  PROVE  job' \in Jobs /\ JobInv'
<1>1. job' \in Jobs
  BY JobType
<1>2. job'.op = op /\ job'.chunks = chunks
  BY DEF Job
<1> QED
  BY <1>1, <1>2 DEF JobInv

LEMMA NewLine ==
  ASSUME NEW l \in Lines, NEW file \in Files, job' = Job("line", file, << <<l>> >>)
  PROVE  job' \in Jobs /\ JobInv'
<1>1. job' \in Jobs
  BY JobType, LineType DEF Content
<1>2. job'.op = "line" /\ job'.chunks = << <<l>> >> /\ job'.at = "write"
  BY DEF Job
<1>3. << <<l>> >> # <<>>
  OBVIOUS
<1> QED
  BY <1>1, <1>2, <1>3 DEF JobInv

LEMMA JobStep ==
  ASSUME IInv, [Next]_vars
  PROVE  job' \in Jobs /\ JobInv'
<1>0. TypeOK /\ JobInv /\ job \in Jobs
  BY DEF IInv, TypeOK, Jobs, Content
<1>1. CASE PersistNormal
  <2>1. Checkpoint /\ job' = Job("line", "normal", << <<lines'>> >>)
    BY <1>1 DEF PersistNormal, Persist
  <2>2. lines' \in Lines /\ "normal" \in Files
    BY <1>0, <2>1, CheckpointType DEF Files
  <2> QED
    BY <2>1, <2>2, NewLine
<1>2. ASSUME NEW opens \in BOOLEAN, PersistEmergency(opens)
      PROVE  job' \in Jobs /\ JobInv'
  <2>1. Checkpoint /\ disk' = disk
    BY <1>2 DEF PersistEmergency, Persist
  <2>2. lines' \in Lines /\ "emergency" \in Files
    BY <1>0, <2>1, CheckpointType DEF Files
  <2>3. job' = job \/ job' = Job("line", "emergency", << <<lines'>> >>)
    BY <1>2 DEF PersistEmergency
  <2> QED
    BY <2>1, <2>2, <2>3, NewLine, SameJob
<1>3. CASE Configure
  <2>1. job' = Job("replay", "normal", Replayed)
    BY <1>3 DEF Configure
  <2> QED
    BY <1>0, <2>1, ReplayedType, NewJob DEF Files
<1>4. CASE Write
  <2>1. /\ job # None /\ job' = [job EXCEPT !.at = "flush"]
        /\ disk' = Grown(Head(job.chunks))
    BY <1>4 DEF Write
  <2>2. /\ job' \in Jobs /\ job'.op = job.op /\ job'.file = job.file
        /\ job'.chunks = job.chunks /\ job.op # "none" /\ job.chunks # <<>>
    BY <1>0, <2>1 DEF Jobs, JobInv
  <2>3. ASSUME NEW l \in Lines, job.chunks = << <<l>> >>
        PROVE  \E i \in 1..Len(disk'[job'.file]) : disk'[job'.file][i] = l
    <3> DEFINE c == <<l>>
    <3>1. Head(job.chunks) = c /\ c \in Seq(Content) /\ Len(c) = 1 /\ c[1] = l
      BY <2>3 DEF Content
    <3> HIDE DEF c
    <3>2. disk' = Grown(c)
      BY <2>1, <3>1
    <3>3. /\ Len(disk'[job.file]) = Len(disk[job.file]) + 1
          /\ disk'[job.file][Len(disk[job.file]) + 1] = l
      <4>1. /\ Len(disk'[job.file]) = Len(disk[job.file]) + Len(c)
            /\ \A i \in 1..Len(c) : disk'[job.file][Len(disk[job.file]) + i] = c[i]
        BY <1>0, <3>1, <3>2, GrownFacts
      <4> QED
        BY <3>1, <4>1
    <3>4. Len(disk[job.file]) \in Nat
      BY <1>0, LenProperties DEF TypeOK
    <3> DEFINE n == Len(disk[job.file]) + 1
    <3>5. n \in 1..n
      BY <3>4
    <3> QED
      BY <2>2, <3>3, <3>5
  <2> QED
    BY <1>0, <2>2, <2>3 DEF JobInv
<1>5. CASE Flush
  <2>1. job # None
    BY <1>5 DEF Flush
  <2>2. CASE Len(job.chunks) > 1
    <3>1. job' = Job(job.op, job.file, Tail(job.chunks))
      BY <1>5, <2>2 DEF Flush
    <3>2. job.op # "line"
      <4>1. SUFFICES ASSUME NEW l \in Lines, job.chunks = << <<l>> >>
                     PROVE  FALSE
        BY <1>0 DEF JobInv
      <4> QED
        BY <2>2, <4>1
    <3> QED
      BY <2>1, <2>2, <3>1, <3>2, ChunkType, NewJob
  <2>3. CASE ~(Len(job.chunks) > 1)
    <3>1. Done
      BY <1>5, <2>3 DEF Flush
    <3>2. job' = None \/ job' = Job("handoff", "emergency", << <<Mark>> >>)
      BY <2>1, <3>1, ChunkType DEF Done, LineDone, ReplayDone, HandedOff
    <3>3. << <<Mark>> >> \in Seq(Seq(Content)) /\ << <<Mark>> >> # <<>>
      BY LineType DEF Content
    <3> QED
      BY <3>2, <3>3, NoJob, NewJob DEF Files
  <2> QED
    BY <2>2, <2>3
<1>6. CASE Fail
  <2>1. job # None
    BY <1>6 DEF Fail
  <2>2. job' = None
    BY <1>6, <2>1, ChunkType DEF Fail, LineFails, ReplayFails, HandedOff
  <2> QED
    BY <2>2, NoJob
<1>7. CASE PowerCut
  BY <1>7, NoJob DEF PowerCut, Fresh
<1>8. CASE NoLock \/ ConfigureFails \/ UNCHANGED vars
  <2>1. job' = job /\ disk' = disk
    BY <1>8 DEF NoLock, ConfigureFails, vars
  <2> QED
    BY <2>1, SameJob
<1> QED
  BY <1>1, <1>2, <1>3, <1>4, <1>5, <1>6, <1>7, <1>8 DEF Next

-----------------------------------------------------------------------------
(* What was reported.                                                      *)

\* A line is reported when the end of its file is flushed.
LEMMA ReportedStep ==
  ASSUME IInv, [Next]_vars
  PROVE  \A l \in reported' \ reported : l \in Lines /\ Flushed(l)'
<1>1. CASE reported' = reported
  BY <1>1
<1>2. CASE reported' # reported
  <2>1. Flush
    <3>1. CASE Fail
      <4>1. job # None
        BY <3>1 DEF Fail
      <4> QED
        BY <1>2, <3>1, <4>1, ChunkType DEF Fail, HandedOff
    <3>2. CASE ~Fail /\ ~Flush
      BY <1>2, <3>2 DEF Next, NoLock, PersistNormal, PersistEmergency, Configure,
                        ConfigureFails, Write, PowerCut, vars
    <3> QED
      BY <3>1, <3>2
  <2>2. /\ job # None /\ job.at = "flush" /\ disk' = disk
        /\ safe' = [safe EXCEPT ![job.file] = Len(disk[job.file])]
        /\ Done
    BY <1>2, <2>1 DEF Flush
  <2>3. job.op = "line" /\ LineDone
    BY <1>2, <2>2, ChunkType DEF Done, ReplayDone, HandedOff
  <2>4. PICK l \in Lines :
          /\ job.chunks = << <<l>> >>
          /\ \E i \in 1..Len(disk[job.file]) : disk[job.file][i] = l
    BY <2>2, <2>3 DEF IInv, JobInv
  <2>5. Head(Head(job.chunks)) = l
    BY <2>4
  <2>6. reported' = reported \cup {l}
    BY <2>3, <2>5 DEF LineDone
  <2>7. job.file \in Files /\ safe \in [Files -> Nat]
    BY DEF IInv, TypeOK
  <2>8. safe'[job.file] = Len(disk[job.file])
    BY <2>2, <2>7
  <2>9. Flushed(l)'
    BY <2>2, <2>4, <2>7, <2>8 DEF Flushed
  <2> QED
    BY <2>6, <2>9
<1> QED
  BY <1>1, <1>2

LEMMA KeptStep ==
  ASSUME IInv, [Next]_vars
  PROVE  KeptInv'
<1>1. FlushedStays /\ FilesOK'
  BY FilesStep
<1>2. \A f \in Files : safe[f] \in Nat /\ safe'[f] \in Nat
  BY <1>1 DEF FilesOK, IInv, TypeOK
<1>3. ASSUME NEW l \in reported PROVE Flushed(l)'
  <2>1. PICK f \in Files : \E i \in 1..safe[f] : disk[f][i] = l
    BY DEF IInv, KeptInv, Flushed
  <2>2. PICK i \in 1..safe[f] : disk[f][i] = l
    BY <2>1
  <2>3. i \in 1..safe'[f] /\ disk'[f][i] = l
    BY <1>1, <1>2, <2>2 DEF FlushedStays
  <2> QED
    BY <2>3 DEF Flushed
<1>4. \A l \in reported' : Flushed(l)'
  BY <1>3, ReportedStep
<1> QED
  BY <1>4 DEF KeptInv

-----------------------------------------------------------------------------
(* The invariant.                                                          *)

LEMMA MemoryStep ==
  ASSUME IInv, [Next]_vars
  PROVE  /\ replay' \in Seq(Lines) /\ Len(replay') <= ReplayLines
         /\ overflow' \in BOOLEAN /\ early' \in Seq(Lines)
         /\ lines' \in 0..MaxLines /\ sessions' \in 1..MaxSessions
<1>0. TypeOK
  BY DEF IInv
<1>1. ASSUME UNCHANGED <<replay, overflow, early>>
      PROVE  /\ replay' \in Seq(Lines) /\ Len(replay') <= ReplayLines
             /\ overflow' \in BOOLEAN /\ early' \in Seq(Lines)
  BY <1>0, <1>1 DEF TypeOK
<1>2. ASSUME UNCHANGED <<lines, sessions>>
      PROVE  lines' \in 0..MaxLines /\ sessions' \in 1..MaxSessions
  BY <1>0, <1>2 DEF TypeOK
<1>3. ASSUME Checkpoint, UNCHANGED sessions
      PROVE  lines' \in 0..MaxLines /\ sessions' \in 1..MaxSessions
  BY <1>0, <1>3, CheckpointType DEF TypeOK
<1>4. CASE NoLock
  BY <1>1, <1>3, <1>4 DEF NoLock
<1>5. CASE PersistNormal
  BY <1>1, <1>3, <1>5 DEF PersistNormal, Persist
<1>6. ASSUME NEW opens \in BOOLEAN, PersistEmergency(opens)
      PROVE  /\ replay' \in Seq(Lines) /\ Len(replay') <= ReplayLines
             /\ overflow' \in BOOLEAN /\ early' \in Seq(Lines)
             /\ lines' \in 0..MaxLines /\ sessions' \in 1..MaxSessions
  <2>1. /\ Checkpoint /\ Captured(lines') /\ early' = Append(early, lines')
        /\ sessions' = sessions
    BY <1>6 DEF PersistEmergency, Persist
  <2>2. lines' \in Lines
    BY <1>0, <2>1, CheckpointType
  <2>3. early' \in Seq(Lines)
    BY <1>0, <2>1, <2>2, AppendProperties DEF TypeOK
  <2> QED
    BY <1>0, <1>3, <2>1, <2>2, <2>3, CapturedType
<1>7. CASE Configure \/ ConfigureFails \/ Write \/ Flush \/ Fail \/ UNCHANGED vars
  BY <1>1, <1>2, <1>7 DEF Configure, ConfigureFails, Write, Flush, Fail, vars
<1>8. CASE PowerCut
  <2>1. /\ replay' = <<>> /\ overflow' = FALSE /\ early' = <<>> /\ lines' = lines
        /\ sessions < MaxSessions /\ sessions' = sessions + 1
    BY <1>8 DEF PowerCut, Fresh
  <2>2. replay' \in Seq(Lines) /\ early' \in Seq(Lines) /\ Len(replay') <= ReplayLines
    BY <2>1, TraceAssumption
  <2>3. overflow' \in BOOLEAN
    BY <2>1
  <2>4. lines' \in 0..MaxLines /\ sessions' \in 1..MaxSessions
    BY <1>0, <2>1, TraceAssumption DEF TypeOK
  <2> QED
    BY <2>2, <2>3, <2>4
<1> QED
  BY <1>4, <1>5, <1>6, <1>7, <1>8 DEF Next

LEMMA FlagStep ==
  ASSUME IInv, [Next]_vars
  PROVE  /\ open' \subseteq Files
         /\ normalReady' \in BOOLEAN /\ persistentReady' \in BOOLEAN
         /\ booted' \in BOOLEAN
<1>0. TypeOK
  BY DEF IInv
<1> DEFINE Flags == /\ open' \subseteq Files
                   /\ normalReady' \in BOOLEAN /\ persistentReady' \in BOOLEAN
                   /\ booted' \in BOOLEAN
<1>1. ASSUME UNCHANGED <<open, normalReady, persistentReady>>,
             booted' = booted \/ booted' = TRUE
      PROVE  Flags
  <2>1. booted' \in BOOLEAN
    BY <1>0, <1>1 DEF TypeOK
  <2> QED
    BY <1>0, <1>1, <2>1 DEF TypeOK
<1>2. CASE NoLock \/ PersistNormal \/ Write \/ UNCHANGED vars
  <2>1. UNCHANGED <<open, normalReady, persistentReady, booted>>
    BY <1>2 DEF NoLock, PersistNormal, Write, vars
  <2> QED
    BY <1>1, <2>1
<1>3. CASE ConfigureFails
  <2>1. UNCHANGED <<open, normalReady, persistentReady>> /\ booted' = TRUE
    BY <1>3 DEF ConfigureFails
  <2> QED
    BY <1>1, <2>1
<1>4. ASSUME NEW opens \in BOOLEAN, PersistEmergency(opens) PROVE Flags
  <2>1. normalReady' = normalReady /\ booted' = booted
    BY <1>4 DEF PersistEmergency
  <2>2. open' \subseteq Files
    BY <1>0, <1>4 DEF PersistEmergency, Opened, TypeOK, Files
  <2>3. persistentReady' \in BOOLEAN
    BY <1>0, <1>4 DEF PersistEmergency, TypeOK
  <2> QED
    BY <1>0, <2>1, <2>2, <2>3 DEF TypeOK
<1>5. CASE Configure
  <2>1. /\ open' = open \cup {"normal"}
        /\ UNCHANGED <<normalReady, persistentReady, booted>>
    BY <1>5 DEF Configure, Opened
  <2> QED
    BY <1>0, <2>1 DEF TypeOK, Files
<1>6. ASSUME HandedOff PROVE Flags
  <2>1. open' \subseteq Files /\ normalReady' = TRUE /\ persistentReady' = TRUE
        /\ booted' = TRUE
    BY <1>0, <1>6 DEF HandedOff, TypeOK
  <2> QED
    BY <2>1
<1>7. CASE Flush
  <2>1. job # None
    BY <1>7 DEF Flush
  <2>2. UNCHANGED <<open, normalReady, persistentReady, booted>> \/ HandedOff
    BY <1>7, <2>1, ChunkType DEF Flush, Done, LineDone, ReplayDone
  <2> QED
    BY <1>1, <1>6, <2>2
<1>8. CASE Fail
  <2>1. job # None
    BY <1>8 DEF Fail
  <2>2. LineFails \/ ReplayFails \/ HandedOff
    BY <1>8, <2>1, ChunkType DEF Fail
  <2>3. CASE LineFails
    <3>1. open' \subseteq Files /\ booted' = booted
      BY <1>0, <2>3 DEF LineFails, TypeOK
    <3>2. normalReady' \in BOOLEAN
      BY <2>3 DEF LineFails
    <3>3. persistentReady' \in BOOLEAN
      BY <2>3 DEF LineFails
    <3> QED
      BY <1>0, <3>1, <3>2, <3>3 DEF TypeOK
  <2>4. CASE ReplayFails
    <3>1. open' \subseteq Files /\ booted' = TRUE
          /\ UNCHANGED <<normalReady, persistentReady>>
      BY <1>0, <2>4 DEF ReplayFails, TypeOK
    <3>2. booted' \in BOOLEAN
      BY <3>1
    <3> QED
      BY <1>0, <3>1, <3>2 DEF TypeOK
  <2> QED
    BY <1>6, <2>2, <2>3, <2>4
<1>9. CASE PowerCut
  <2>1. open' = {} /\ normalReady' = FALSE /\ persistentReady' = FALSE /\ booted' = FALSE
    BY <1>9 DEF PowerCut, Fresh
  <2> QED
    BY <2>1
<1> QED
  BY <1>2, <1>3, <1>4, <1>5, <1>7, <1>8, <1>9 DEF Next

LEMMA InitIInv == Init => IInv
<1> SUFFICES ASSUME Init PROVE IInv
  OBVIOUS
<1>1. None \in Jobs /\ job = None /\ None.op = "none"
  BY NoneType DEF Init, None
<1>2. /\ disk \in [Files -> Seq(Content)] /\ safe \in [Files -> Nat]
      /\ \A f \in Files : safe[f] <= Len(disk[f])
  BY DEF Init
<1>3. /\ replay \in Seq(Lines) /\ Len(replay) <= ReplayLines /\ early \in Seq(Lines)
      /\ lines \in 0..MaxLines /\ sessions \in 1..MaxSessions
  BY TraceAssumption DEF Init
<1>4. /\ normalReady \in BOOLEAN /\ persistentReady \in BOOLEAN
      /\ overflow \in BOOLEAN /\ booted \in BOOLEAN
  BY DEF Init
<1>5. open \subseteq Files /\ reported \subseteq Lines
  BY DEF Init
<1>6. TypeOK
  BY <1>1, <1>2, <1>3, <1>4, <1>5 DEF TypeOK, Jobs, Content
<1>7. RouteInv
  BY <1>1 DEF Init, RouteInv, ReadyIsTrue
<1>8. JobInv /\ KeptInv
  BY <1>1 DEF Init, JobInv, KeptInv
<1> QED
  BY <1>6, <1>7, <1>8 DEF IInv

LEMMA NextIInv == IInv /\ [Next]_vars => IInv'
<1> SUFFICES ASSUME IInv, [Next]_vars PROVE IInv'
  OBVIOUS
<1>1. reported' \subseteq Lines
  BY ReportedStep DEF IInv, TypeOK
<1>2. TypeOK'
  BY <1>1, FilesStep, JobStep, MemoryStep, FlagStep DEF TypeOK, FilesOK, Jobs, Content
<1> QED
  BY <1>2, RouteStep, JobStep, KeptStep DEF IInv

LEMMA Invariant == Spec => []IInv
BY InitIInv, NextIInv, PTL DEF Spec

-----------------------------------------------------------------------------
(* What follows.                                                           *)

\* The trace never leaves its types: no file has more flushed than was written.
THEOREM TypeCorrect == Spec => []TypeOK
<1>1. IInv => TypeOK
  BY DEF IInv
<1> QED
  BY <1>1, Invariant, PTL

\* gPersistentReady is up exactly while the file in use is open.
THEOREM ReadyTrue == Spec => []ReadyIsTrue
<1>1. IInv => ReadyIsTrue
  BY DEF IInv, RouteInv
<1> QED
  BY <1>1, Invariant, PTL

\* No failure, handoff or power cut takes from a file what a FlushFileBuffers had
\* put there.
THEOREM FlushedKept == Spec => [][FlushedStays]_vars
<1>1. IInv /\ [Next]_vars => [FlushedStays]_vars
  BY FilesStep
<1> QED
  BY <1>1, Invariant, PTL DEF Spec

\* A checkpoint reported as persistent is on the disk for good, in the emergency
\* file or in Boot.log.
THEOREM ReportedKept == Spec => []ReportedSurvives
<1>1. ASSUME IInv, NEW l \in reported
      PROVE  \E f \in Files : l \in LinesOf(Durable(f))
  <2>1. PICK f \in Files : \E i \in 1..safe[f] : disk[f][i] = l
    BY <1>1 DEF IInv, KeptInv, Flushed
  <2>2. PICK i \in 1..safe[f] : disk[f][i] = l
    BY <2>1
  <2> DEFINE d == disk[f]
             k == safe[f]
  <2>3. d \in Seq(Content) /\ k \in Nat /\ Len(d) \in Nat /\ k <= Len(d)
    BY <1>1, LenProperties DEF IInv, TypeOK, Content
  <2>4. i \in 1..k /\ d[i] = l
    BY <2>2
  <2> HIDE DEF d, k
  <2>5. Len(SubSeq(d, 1, k)) = k /\ SubSeq(d, 1, k)[i] = d[i]
        /\ SubSeq(d, 1, k) \in Seq(Content)
    BY <2>3, <2>4
  <2>6. i \in DOMAIN SubSeq(d, 1, k)
    BY <2>4, <2>5
  <2>7. l \in LinesOf(SubSeq(d, 1, k))
    BY <2>4, <2>5, <2>6 DEF LinesOf
  <2> QED
    BY <2>7 DEF Durable, d, k
<1>2. IInv => ReportedSurvives
  BY <1>1 DEF ReportedSurvives
<1> QED
  BY <1>2, Invariant, PTL

-----------------------------------------------------------------------------
(* Boot.log after a handoff.                                               *)

\* The checkpoints before the handoff, somewhere in the first n lines.
Within(n) ==
  \E i \in 0..(n - Len(early)) :
    \A k \in 1..Len(early) : disk["normal"][i + k] = early[k]

Contained == Within(safe["normal"])

\* The copy in memory is complete until it overflows.  While it is replayed it
\* is the second chunk, then the first, then in the file, then flushed; and
\* nothing takes it from there.
HandoffInv ==
  /\ ~overflow => replay = early
  /\ job.op = "replay" => job.file = "normal"
  /\ ~overflow /\ (normalReady \/ job.op = "handoff") => Contained
  /\ ~overflow /\ job.op = "replay" /\ ~Contained =>
       \/ Len(job.chunks) = 4 /\ job.chunks[2] = early
       \/ /\ Len(job.chunks) = 3 /\ job.chunks[1] = early
          /\ job.at = "flush" => Within(Len(disk["normal"]))

LEMMA HandoffTypes ==
  ASSUME IInv
  PROVE  /\ "normal" \in Files /\ Len(early) \in Nat /\ early \in Seq(Content)
         /\ safe["normal"] \in Nat /\ Len(disk["normal"]) \in Nat
         /\ safe["normal"] <= Len(disk["normal"])
<1>1. /\ "normal" \in Files /\ early \in Seq(Lines)
      /\ disk["normal"] \in Seq(Content)
      /\ safe["normal"] \in Nat /\ safe["normal"] <= Len(disk["normal"])
  BY DEF IInv, TypeOK, Files, Content
<1>2. early \in Seq(Content)
  BY <1>1, SeqMonotonic DEF Content
<1> QED
  BY <1>1, <1>2, LenProperties

\* Nothing to replay is replayed from the start.
LEMMA NothingEarly ==
  ASSUME IInv, early = <<>>
  PROVE  Contained
<1>1. Len(early) = 0 /\ safe["normal"] \in Nat
  BY HandoffTypes
<1>2. 0 \in 0..(safe["normal"] - Len(early))
  BY <1>1
<1> QED
  BY <1>1, <1>2 DEF Contained, Within

\* What is flushed stays.
LEMMA ContainedStays ==
  ASSUME IInv, [Next]_vars, early' = early, Contained
  PROVE  Contained'
<1>1. PICK i \in 0..(safe["normal"] - Len(early)) :
        \A k \in 1..Len(early) : disk["normal"][i + k] = early[k]
  BY DEF Contained, Within
<1>2. FlushedStays /\ safe'["normal"] \in Nat
  BY FilesStep, HandoffTypes DEF FilesOK
<1>3. /\ safe["normal"] <= safe'["normal"]
      /\ \A j \in 1..safe["normal"] : disk'["normal"][j] = disk["normal"][j]
  BY <1>2, HandoffTypes DEF FlushedStays
<1>4. i \in 0..(safe'["normal"] - Len(early))
  BY <1>1, <1>2, <1>3, HandoffTypes
<1>5. ASSUME NEW k \in 1..Len(early)
      PROVE  disk'["normal"][i + k] = early[k]
  <2>1. i + k \in 1..safe["normal"]
    BY <1>1, HandoffTypes
  <2> QED
    BY <1>1, <1>3, <2>1
<1> QED
  BY <1>4, <1>5 DEF Contained, Within

\* A flush at the end of Boot.log keeps what is in it.
LEMMA WithinFlushed ==
  ASSUME IInv, disk' = disk, early' = early, Within(Len(disk["normal"])),
         safe'["normal"] = Len(disk["normal"])
  PROVE  Contained'
BY DEF Contained, Within

\* The chunk that is the copy is in the file when it is written.
LEMMA CopyWritten ==
  ASSUME IInv, disk' = Grown(early), early' = early, job.file = "normal"
  PROVE  Within(Len(disk["normal"]))'
<1> DEFINE n == Len(disk["normal"])
<1>1. /\ Len(disk'["normal"]) = n + Len(early)
      /\ \A i \in 1..Len(early) : disk'["normal"][n + i] = early[i]
  <2>1. TypeOK
    BY DEF IInv
  <2> QED
    BY <2>1, HandoffTypes, GrownFacts
<1>2. n \in Nat /\ Len(early) \in Nat
  BY HandoffTypes
<1> HIDE DEF n
<1>3. n \in 0..(Len(disk'["normal"]) - Len(early))
  BY <1>1, <1>2
<1> QED
  BY <1>1, <1>3 DEF Within

\* Four chunks when there is something to replay and all of it was kept.
LEMMA ReplayedChunks ==
  ASSUME IInv, ~overflow, replay # <<>>
  PROVE  Len(Replayed) = 4 /\ Replayed[2] = replay
<1> DEFINE S == Seq(Content)
           m == <<Mark>>
           a == <<m>> \o <<replay>>
           b == a \o <<>>
           e == <<m, m>>
           c == b \o e
<1>1. m \in S /\ replay \in S
  BY SeqMonotonic DEF IInv, TypeOK, Content
<1>2. Replayed = c
  BY DEF Replayed
<1> HIDE DEF S, m
<1>3. a \in Seq(S) /\ Len(a) = 2 /\ a[2] = replay
  BY <1>1
<1> HIDE DEF a
<1>4. b = a
  BY <1>3
<1> HIDE DEF b
<1>5. e \in Seq(S) /\ Len(e) = 2
  BY <1>1
<1> HIDE DEF e
<1>6. /\ Len(c) = Len(b) + Len(e)
      /\ \A i \in 1..Len(b) + Len(e) :
           c[i] = IF i <= Len(b) THEN b[i] ELSE e[i - Len(b)]
  <2>1. b \in Seq(S) /\ e \in Seq(S)
    BY <1>3, <1>4, <1>5
  <2> QED
    BY <2>1, ConcatProperties
<1> HIDE DEF c
<1>7. Len(b) = 2 /\ b[2] = replay /\ Len(e) = 2
  BY <1>3, <1>4, <1>5
<1>8. Len(c) = 4 /\ c[2] = replay
  BY <1>6, <1>7
<1> QED
  BY <1>2, <1>8

LEMMA InitHandoff == Init => HandoffInv
BY DEF Init, HandoffInv, None

\* The step of a thread that leaves the copy alone, by what becomes of its job.
LEMMA HandoffKept ==
  ASSUME IInv, HandoffInv, [Next]_vars,
         UNCHANGED <<replay, overflow, early>>,
         job'.op # "replay",
         ~overflow /\ (normalReady' \/ job'.op = "handoff") => Contained
  PROVE  HandoffInv'
BY ContainedStays DEF HandoffInv

LEMMA HandoffStep == IInv /\ HandoffInv /\ [Next]_vars => HandoffInv'
<1> SUFFICES ASSUME IInv, HandoffInv, [Next]_vars PROVE HandoffInv'
  OBVIOUS
<1>0. None.op = "none"
  BY DEF None
<1>1. CASE NoLock \/ ConfigureFails \/ UNCHANGED vars
  <2>1. /\ disk' = disk /\ safe' = safe /\ early' = early /\ replay' = replay
        /\ overflow' = overflow /\ normalReady' = normalReady /\ job' = job
    BY <1>1 DEF NoLock, ConfigureFails, vars
  <2> QED
    BY <2>1 DEF HandoffInv, Contained, Within
<1>2. CASE PersistNormal
  <2>1. job'.op = "line" /\ UNCHANGED <<replay, overflow, early, normalReady>>
    BY <1>2 DEF PersistNormal, Job
  <2> QED
    BY <2>1, HandoffKept DEF HandoffInv
<1>3. ASSUME NEW opens \in BOOLEAN, PersistEmergency(opens) PROVE HandoffInv'
  <2>1. /\ normalReady' = FALSE /\ job'.op \in {"none", "line"}
        /\ early' = Append(early, lines') /\ Captured(lines')
    BY <1>0, <1>3 DEF PersistEmergency, Persist, Job
  <2>2. ~overflow' => replay' = early'
    BY <2>1 DEF Captured, HandoffInv
  <2> QED
    BY <2>1, <2>2 DEF HandoffInv
<1>4. CASE Configure
  <2>1. /\ job' = Job("replay", "normal", Replayed) /\ normalReady' = FALSE
        /\ UNCHANGED <<disk, safe, replay, overflow, early>>
    BY <1>4 DEF Configure, IInv, RouteInv, TypeOK
  <2>2. job'.op = "replay" /\ job'.file = "normal" /\ job'.chunks = Replayed
    BY <2>1 DEF Job
  <2>3. ~overflow /\ ~Contained => Len(Replayed) = 4 /\ Replayed[2] = early
    BY NothingEarly, ReplayedChunks DEF HandoffInv
  <2>4. Contained' <=> Contained
    BY <2>1 DEF Contained, Within
  <2> QED
    BY <2>1, <2>2, <2>3, <2>4 DEF HandoffInv
<1>5. CASE Write
  <2>1. /\ job # None /\ disk' = Grown(Head(job.chunks))
        /\ UNCHANGED <<normalReady, replay, overflow, early>>
        /\ job'.op = job.op /\ job'.file = job.file /\ job'.chunks = job.chunks
    BY <1>5 DEF Write, IInv, TypeOK
  <2>2. ASSUME job.op = "replay", Len(job.chunks) = 3, job.chunks[1] = early
        PROVE  Within(Len(disk["normal"]))'
    <3>1. Head(job.chunks) = early /\ job.file = "normal"
      BY <2>1, <2>2, ChunkType, HeadTailProperties DEF HandoffInv
    <3> QED
      BY <2>1, <3>1, CopyWritten
  <2> QED
    BY <2>1, <2>2, ContainedStays DEF HandoffInv
<1>6. CASE Flush
  <2>1. /\ job # None /\ job.at = "flush" /\ disk' = disk
        /\ safe' = [safe EXCEPT ![job.file] = Len(disk[job.file])]
        /\ UNCHANGED <<replay, overflow, early>>
    BY <1>6 DEF Flush
  <2>2. CASE Len(job.chunks) > 1
    <3>1. /\ job' = Job(job.op, job.file, Tail(job.chunks))
          /\ normalReady' = normalReady
      BY <1>6, <2>2 DEF Flush
    <3>2. job'.op = job.op /\ job'.file = job.file /\ job'.chunks = Tail(job.chunks)
          /\ job'.at = "write"
      BY <3>1 DEF Job
    <3>3. CASE job.op # "replay"
      BY <2>1, <3>1, <3>2, <3>3, HandoffKept DEF HandoffInv
    <3>4. CASE job.op = "replay"
      <4>1. safe'["normal"] = Len(disk["normal"])
        BY <2>1, <3>4, HandoffTypes DEF HandoffInv, IInv, TypeOK
      <4>2. job.chunks \in Seq(Seq(Content)) /\ job.chunks # <<>>
        BY <2>1, ChunkType
      <4>3. Len(job.chunks) = 4 =>
              Len(Tail(job.chunks)) = 3 /\ Tail(job.chunks)[1] = job.chunks[2]
        BY <4>2
      <4>4. ~overflow /\ Len(job.chunks) = 3 => Contained'
        BY <2>1, <3>4, <4>1, ContainedStays, WithinFlushed DEF HandoffInv
      <4> QED
        BY <2>1, <3>1, <3>2, <3>4, <4>3, <4>4, ContainedStays DEF HandoffInv
    <3> QED
      BY <3>3, <3>4
  <2>3. CASE ~(Len(job.chunks) > 1)
    <3>1. Done
      BY <1>6, <2>3 DEF Flush
    <3>2. ~overflow /\ job.op \in {"replay", "handoff"} => Contained
      <4>1. Len(job.chunks) \in Nat
        BY <2>1, ChunkType
      <4>2. Len(job.chunks) # 4 /\ Len(job.chunks) # 3
        <5> DEFINE n == Len(job.chunks)
        <5>1. n \in Nat /\ ~(n > 1)
          BY <2>3, <4>1
        <5> HIDE DEF n
        <5>2. n # 4 /\ n # 3
          BY <5>1
        <5> QED
          BY <5>2 DEF n
      <4> QED
        BY <4>2 DEF HandoffInv
    <3>3. job'.op \in {"none", "handoff"}
      <4>1. \/ job' = None
            \/ job' = Job("handoff", "emergency", << <<Mark>> >>)
        BY <2>1, <3>1, ChunkType DEF Done, LineDone, ReplayDone, HandedOff
      <4> QED
        BY <1>0, <4>1 DEF Job
    <3>4. CASE job.op = "line"
      <4>1. LineDone
        BY <3>1, <3>4 DEF Done
      <4> QED
        BY <1>0, <2>1, <3>3, <4>1, HandoffKept DEF HandoffInv, LineDone
    <3>5. CASE job.op \in {"replay", "handoff"}
      BY <2>1, <3>2, <3>3, <3>5, HandoffKept
    <3> QED
      BY <2>1, <3>4, <3>5, ChunkType
  <2> QED
    BY <2>2, <2>3
<1>7. CASE Fail
  <2>1. job # None /\ UNCHANGED <<replay, overflow, early>>
    BY <1>7 DEF Fail
  <2>2. job' = None /\ (normalReady' => normalReady \/ job.op = "handoff")
    BY <1>7, <2>1, ChunkType DEF Fail, LineFails, ReplayFails, HandedOff
  <2> QED
    BY <1>0, <2>1, <2>2, HandoffKept DEF HandoffInv
<1>8. CASE PowerCut
  <2>1. /\ normalReady' = FALSE /\ job' = None
        /\ replay' = <<>> /\ early' = <<>>
    BY <1>8 DEF PowerCut, Fresh
  <2> QED
    BY <1>0, <2>1 DEF HandoffInv
<1> QED
  BY <1>1, <1>2, <1>3, <1>4, <1>5, <1>6, <1>7, <1>8 DEF Next

\* Once Boot.log is in use it holds every checkpoint before the handoff, in
\* order and flushed, unless the memory copy overflowed.
THEOREM SelfContainedLog == Spec => []SelfContained
<1>1. IInv /\ HandoffInv => SelfContained
  <2> SUFFICES ASSUME IInv, HandoffInv, normalReady, ~overflow
               PROVE  \E i \in 0..(Len(Durable("normal")) - Len(early)) :
                        SubSeq(Durable("normal"), i + 1, i + Len(early)) = early
    BY DEF SelfContained
  <2> DEFINE d == disk["normal"]
             n == safe["normal"]
             e == early
  <2>1. PICK i \in 0..(n - Len(e)) : \A k \in 1..Len(e) : d[i + k] = e[k]
    BY DEF HandoffInv, Contained, Within
  <2>2. /\ d \in Seq(Content) /\ e \in Seq(Content) /\ n \in Nat
        /\ Len(d) \in Nat /\ Len(e) \in Nat /\ n <= Len(d)
    BY HandoffTypes DEF IInv, TypeOK, Content
  <2> HIDE DEF d, n, e
  <2> DEFINE u == SubSeq(d, 1, n)
  <2>3. /\ u \in Seq(Content) /\ Len(u) = n
        /\ \A k \in 1..n : u[k] = d[k]
    BY <2>2
  <2> HIDE DEF u
  <2> DEFINE v == SubSeq(u, i + 1, i + Len(e))
  <2>4. i \in Nat /\ i + Len(e) <= n
    BY <2>1, <2>2
  <2>5. /\ v \in Seq(Content) /\ Len(v) = Len(e)
        /\ \A k \in 1..Len(e) : v[k] = u[i + k]
    BY <2>2, <2>3, <2>4
  <2> HIDE DEF v
  <2>6. \A k \in 1..Len(e) : v[k] = e[k]
    <3> SUFFICES ASSUME NEW k \in 1..Len(e) PROVE v[k] = e[k]
      OBVIOUS
    <3>1. i + k \in 1..n
      BY <2>2, <2>4
    <3> QED
      BY <2>1, <2>3, <2>5, <3>1
  <2>7. v = e
    BY <2>2, <2>5, <2>6, SeqEqual
  <2> QED
    BY <2>1, <2>3, <2>7 DEF Durable, u, v, d, n, e
<1> QED
  BY InitHandoff, HandoffStep, <1>1, Invariant, PTL DEF Spec

-----------------------------------------------------------------------------
(* What the removals leave of a queue.                                     *)

LEMMA LeastNumber ==
  ASSUME NEW T \in SUBSET Nat, T # {}
  PROVE  \E x \in T : \A y \in Nat : y < x => y \notin T
<1>1. PICK x \in T : \A y \in T : <<y, x>> \notin OpToRel(<, Nat)
  BY NatLessThanWellFounded, WFMin
<1>2. ASSUME NEW y \in Nat, y < x
      PROVE  y \notin T
  <2>1. <<y, x>> \in Nat \X Nat /\ <<y, x>>[1] < <<y, x>>[2]
    BY <1>2
  <2>2. <<y, x>> \in OpToRel(<, Nat)
    BY <2>1 DEF OpToRel
  <2> QED
    BY <1>1, <2>2
<1> QED
  BY <1>2

\* f lists the places K of a queue in their order.
Lists(f, m, K) ==
  /\ f \in [1..m -> K]
  /\ \A a, b \in 1..m : a < b => f[a] < f[b]
  /\ \A i \in K : \E a \in 1..m : f[a] = i

\* One place more.
LEMMA ListsGrow ==
  ASSUME NEW n \in Nat, NEW K \in SUBSET (1..(n + 1)),
         NEW m \in 0..n, NEW f, Lists(f, m, K \cap 1..n)
  PROVE  \E l \in 0..(n + 1) : \E g : Lists(g, l, K)
<1>1. CASE n + 1 \notin K
  <2>1. \A x \in K : x \in 1..n
    <3> SUFFICES ASSUME NEW x \in K
                 PROVE  x \in 1..n
      OBVIOUS
    <3>1. x \in 1..(n + 1) /\ x # n + 1
      BY <1>1
    <3> QED
      BY <3>1
  <2>2. K \cap 1..n = K
    BY <2>1
  <2>3. Lists(f, m, K) /\ m \in 0..(n + 1)
    BY <2>2
  <2> QED
    BY <2>3
<1>2. CASE n + 1 \in K
  <2> DEFINE g == [a \in 1..(m + 1) |-> IF a = m + 1 THEN n + 1 ELSE f[a]]
  <2>1. m + 1 \in 0..(n + 1) /\ m \in Nat
    OBVIOUS
  <2>2. \A a \in 1..(m + 1) : a # m + 1 => a \in 1..m
    BY <2>1
  <2>3. \A a \in 1..m : f[a] \in K /\ f[a] \in 1..n
    BY DEF Lists
  <2>4. g \in [1..(m + 1) -> K]
    BY <1>2, <2>2, <2>3
  <2>5. ASSUME NEW a \in 1..(m + 1), NEW b \in 1..(m + 1), a < b
        PROVE  g[a] < g[b]
    <3>1. a \in 1..m /\ g[a] = f[a]
      BY <2>1, <2>2, <2>5
    <3>2. CASE b = m + 1
      BY <3>1, <3>2, <2>3
    <3>3. CASE b # m + 1
      BY <3>1, <3>3, <2>2, <2>5 DEF Lists
    <3> QED
      BY <3>2, <3>3
  <2>6. ASSUME NEW i \in K
        PROVE  \E a \in 1..(m + 1) : g[a] = i
    <3>1. CASE i = n + 1
      <4>1. m + 1 \in 1..(m + 1) /\ g[m + 1] = i
        BY <2>1, <3>1
      <4> QED
        BY <4>1
    <3>2. CASE i # n + 1
      <4>1. i \in K \cap 1..n
        BY <3>2
      <4>2. PICK a \in 1..m : f[a] = i
        BY <4>1 DEF Lists
      <4>3. a \in 1..(m + 1) /\ g[a] = i
        BY <2>1, <4>2
      <4> QED
        BY <4>3
    <3> QED
      BY <3>1, <3>2
  <2> HIDE DEF g
  <2>7. Lists(g, m + 1, K)
    BY <2>4, <2>5, <2>6 DEF Lists
  <2> QED
    BY <2>1, <2>7
<1> QED
  BY <1>1, <1>2

\* The places of any part of a queue can be listed.
LEMMA ListsExist ==
  \A n \in Nat : \A K \in SUBSET (1..n) : \E m \in 0..n : \E f : Lists(f, m, K)
<1> DEFINE P(n) == \A K \in SUBSET (1..n) : \E m \in 0..n : \E f : Lists(f, m, K)
           Bad  == {n \in Nat : ~P(n)}
<1>1. P(0)
  <2> SUFFICES ASSUME NEW K \in SUBSET (1..0)
               PROVE  \E m \in 0..0 : \E f : Lists(f, m, K)
    OBVIOUS
  <2>1. K = {} /\ 1..0 = {} /\ 0 \in 0..0
    OBVIOUS
  <2>2. Lists([a \in 1..0 |-> a], 0, K)
    BY <2>1 DEF Lists
  <2> QED
    BY <2>1, <2>2
<1>2. ASSUME NEW n \in Nat, P(n)
      PROVE  P(n + 1)
  <2> SUFFICES ASSUME NEW K \in SUBSET (1..(n + 1))
               PROVE  \E m \in 0..(n + 1) : \E f : Lists(f, m, K)
    OBVIOUS
  <2>1. K \cap 1..n \in SUBSET (1..n)
    OBVIOUS
  <2>2. PICK m \in 0..n : \E f : Lists(f, m, K \cap 1..n)
    BY <1>2, <2>1
  <2>3. PICK f : Lists(f, m, K \cap 1..n)
    BY <2>2
  <2> QED
    BY <2>3, ListsGrow
<1> HIDE DEF P
<1>3. Bad = {}
  <2> SUFFICES ASSUME Bad # {}
               PROVE  FALSE
    OBVIOUS
  <2>1. Bad \in SUBSET Nat
    OBVIOUS
  <2>2. PICK x \in Bad : \A y \in Nat : y < x => y \notin Bad
    BY <2>1, LeastNumber
  <2>3. x \in Nat /\ ~P(x)
    OBVIOUS
  <2>4. x # 0
    BY <1>1, <2>3
  <2>5. x - 1 \in Nat /\ x - 1 < x /\ (x - 1) + 1 = x
    BY <2>3, <2>4
  <2>6. P(x - 1)
    BY <2>2, <2>5
  <2>7. P((x - 1) + 1)
    BY <1>2, <2>5, <2>6
  <2> QED
    BY <2>3, <2>5, <2>7
<1> QED
  BY <1>3 DEF P

\* w is what is left of q, in its order.
Leaves(w, q) ==
  \E f \in [1..Len(w) -> 1..Len(q)] :
    /\ \A a, b \in 1..Len(w) : a < b => f[a] < f[b]
    /\ \A a \in 1..Len(w) : w[a] = q[f[a]]

\* Without leaves exactly what is not removed, and in its order.
LEMMA WithoutFacts ==
  ASSUME NEW S, NEW q \in Seq(S), NEW removed,
         NEW w, w = Without(q, removed)
  PROVE  /\ w \in Seq(S) /\ Len(w) <= Len(q)
         /\ Leaves(w, q)
         /\ \A a \in 1..Len(w) : w[a] \notin removed
         /\ \A i \in 1..Len(q) : q[i] \notin removed =>
              \E a \in 1..Len(w) : w[a] = q[i]
<1> DEFINE n    == Len(q)
           kept == {i \in DOMAIN q : q[i] \notin removed}
           Is(f) == /\ \A a, b \in DOMAIN f : a < b => f[a] < f[b]
                    /\ \A i \in kept : \E a \in DOMAIN f : f[a] = i
           all  == UNION {[1..l -> kept] : l \in 0..Len(q)}
           from == CHOOSE f \in all : Is(f)
<1>1. n \in Nat /\ DOMAIN q = 1..n /\ kept \in SUBSET (1..n)
  BY LenProperties
<1>2. PICK l \in 0..n : \E f : Lists(f, l, kept)
  BY <1>1, ListsExist
<1>0. PICK g : Lists(g, l, kept)
  BY <1>2
<1>3. g \in all /\ DOMAIN g = 1..l
  BY <1>0 DEF Lists
<1>4. Is(g)
  BY <1>0, <1>3 DEF Lists
<1>5. from \in all /\ Is(from)
  BY <1>3, <1>4
<1>6. PICK m \in 0..n : from \in [1..m -> kept]
  BY <1>5
<1>7. DOMAIN from = 1..m /\ m \in Nat
  BY <1>6
<1>8. w = [a \in DOMAIN from |-> q[from[a]]]
  BY DEF Without
<1>9. \A a \in 1..m : from[a] \in 1..n /\ q[from[a]] \in S /\ q[from[a]] \notin removed
  BY <1>1, <1>6, ElementOfSeq
<1> HIDE DEF from
<1>10. w = [a \in 1..m |-> q[from[a]]]
  BY <1>7, <1>8
<1>11. w \in [1..m -> S]
  BY <1>9, <1>10
<1>12. w \in Seq(S) /\ Len(w) = m
  BY <1>7, <1>11, SeqDef, LenProperties
<1>13. from \in [1..Len(w) -> 1..Len(q)]
  BY <1>6, <1>9, <1>12
<1>14. \A a \in 1..m : w[a] = q[from[a]]
  BY <1>10
<1>15. Leaves(w, q)
  BY <1>5, <1>7, <1>12, <1>13, <1>14 DEF Leaves
<1>16. \A i \in 1..n : q[i] \notin removed => \E a \in 1..m : w[a] = q[i]
  <2> SUFFICES ASSUME NEW i \in 1..n, q[i] \notin removed
               PROVE  \E a \in 1..m : w[a] = q[i]
    OBVIOUS
  <2>1. i \in kept
    BY <1>1
  <2>2. PICK a \in 1..m : from[a] = i
    BY <1>5, <1>7, <2>1
  <2> QED
    BY <1>14, <2>2
<1> QED
  BY <1>9, <1>12, <1>14, <1>15, <1>16

-----------------------------------------------------------------------------
(* What is in a queue.                                                     *)

KindsIn(q, p) == {q[i].kind : i \in {j \in DOMAIN q : q[j].phone = p}}
PhonesIn(q)   == {q[i].phone : i \in DOMAIN q}

\* No kind is queued twice, and no phone's data path fails before it works.
InOrder(q) ==
  /\ \A i, j \in DOMAIN q : q[i].kind = q[j].kind => i = j
  /\ \A i, j \in DOMAIN q :
       i < j /\ q[i].phone = q[j].phone =>
         ~(q[i].kind = "DataNotWorking" /\ q[j].kind = "DataWorking")

Good(q) == q \in Seq(Notice) /\ Len(q) <= NotifyDepth /\ InOrder(q)

LEMMA NoticeFacts ==
  ASSUME NEW n \in Notice
  PROVE  /\ n = [phone |-> n.phone, kind |-> n.kind]
         /\ n.kind \in Kinds \cup {"other"}
         /\ n.phone \in 0..MaxPhones \/ n.phone = 0
         /\ n.phone = 0 <=> n.kind = "other"
BY DEF Notice, Phones, NoPhone, Kinds

LEMMA KindsInFacts ==
  ASSUME NEW q \in Seq(Notice), NEW p
  PROVE  /\ \A k : k \in KindsIn(q, p) <=>
              \E i \in 1..Len(q) : q[i].phone = p /\ q[i].kind = k
         /\ \A x : x \in PhonesIn(q) <=> \E i \in 1..Len(q) : q[i].phone = x
         /\ p # 0 => KindsIn(q, p) \subseteq Kinds
<1>1. DOMAIN q = 1..Len(q) /\ \A i \in 1..Len(q) : q[i] \in Notice
  BY LenProperties, ElementOfSeq
<1>2. \A i \in 1..Len(q) : q[i].phone # 0 => q[i].kind \in Kinds
  BY <1>1, NoticeFacts
<1> QED
  BY <1>1, <1>2 DEF KindsIn, PhonesIn

LEMMA LeavesFacts ==
  ASSUME NEW q \in Seq(Notice), NEW w \in Seq(Notice), Leaves(w, q)
  PROVE  /\ InOrder(q) => InOrder(w)
         /\ \A p : KindsIn(w, p) \subseteq KindsIn(q, p)
         /\ PhonesIn(w) \subseteq PhonesIn(q)
<1>1. /\ DOMAIN q = 1..Len(q) /\ DOMAIN w = 1..Len(w)
      /\ Len(w) \in Nat /\ Len(q) \in Nat
  BY LenProperties
<1>2. PICK f \in [1..Len(w) -> 1..Len(q)] :
        /\ \A a, b \in 1..Len(w) : a < b => f[a] < f[b]
        /\ \A a \in 1..Len(w) : w[a] = q[f[a]]
  BY DEF Leaves
<1>3. \A a, b \in 1..Len(w) : f[a] = f[b] => a = b
  <2> SUFFICES ASSUME NEW a \in 1..Len(w), NEW b \in 1..Len(w), a # b
               PROVE  f[a] # f[b]
    OBVIOUS
  <2>1. a < b \/ b < a
    BY <1>1
  <2>2. f[a] < f[b] \/ f[b] < f[a]
    BY <1>2, <2>1
  <2>3. f[a] \in Nat /\ f[b] \in Nat
    BY <1>1, <1>2
  <2> QED
    BY <2>2, <2>3
<1>4. ASSUME InOrder(q)
      PROVE  InOrder(w)
  <2>1. \A a, b \in 1..Len(w) : w[a].kind = w[b].kind => a = b
    BY <1>1, <1>2, <1>3, <1>4 DEF InOrder
  <2>2. \A a, b \in 1..Len(w) :
          a < b /\ w[a].phone = w[b].phone =>
            ~(w[a].kind = "DataNotWorking" /\ w[b].kind = "DataWorking")
    <3> SUFFICES ASSUME NEW a \in 1..Len(w), NEW b \in 1..Len(w), a < b,
                        w[a].phone = w[b].phone
                 PROVE  ~(w[a].kind = "DataNotWorking" /\ w[b].kind = "DataWorking")
      OBVIOUS
    <3>1. f[a] \in DOMAIN q /\ f[b] \in DOMAIN q /\ f[a] < f[b]
          /\ w[a] = q[f[a]] /\ w[b] = q[f[b]]
      BY <1>1, <1>2
    <3> QED
      BY <3>1, <1>4 DEF InOrder
  <2> QED
    BY <1>1, <2>1, <2>2 DEF InOrder
<1>5. \A a \in DOMAIN w : \E i \in DOMAIN q : w[a] = q[i]
  BY <1>1, <1>2
<1>6. \A p : KindsIn(w, p) \subseteq KindsIn(q, p)
  BY <1>5 DEF KindsIn
<1>7. PhonesIn(w) \subseteq PhonesIn(q)
  BY <1>5 DEF PhonesIn
<1> QED
  BY <1>4, <1>6, <1>7

\* R has a phone's notices of some kinds.
Names(R, p, K) ==
  \A n \in Notice : n \in R <=> n.phone = p /\ n.kind \in K

LEMMA NoticesOf ==
  ASSUME NEW p, NEW K
  PROVE  Names([phone : {p}, kind : K], p, K)
<1> SUFFICES ASSUME NEW n \in Notice
             PROVE  n \in [phone : {p}, kind : K] <=> n.phone = p /\ n.kind \in K
  BY DEF Names
<1>1. n = [phone |-> n.phone, kind |-> n.kind]
  BY NoticeFacts
<1> QED
  BY <1>1

\* Removing the notices of a phone that are of some kinds.
LEMMA WithoutKinds ==
  ASSUME NoticesConstants, NEW q, Good(q), NEW p, NEW K,
         NEW R, Names(R, p, K),
         NEW w, w = Without(q, R)
  PROVE  /\ Good(w)
         /\ PhonesIn(w) \subseteq PhonesIn(q)
         /\ \A x : KindsIn(w, x) = KindsIn(q, x) \ (IF x = p THEN K ELSE {})
<1>1. q \in Seq(Notice) /\ InOrder(q) /\ Len(q) <= NotifyDepth
  BY DEF Good
<1>2. /\ w \in Seq(Notice) /\ Len(w) <= Len(q)
      /\ Leaves(w, q)
      /\ \A a \in 1..Len(w) : w[a] \notin R
      /\ \A i \in 1..Len(q) : q[i] \notin R => \E a \in 1..Len(w) : w[a] = q[i]
  <2>1. q \in Seq(Notice)
    BY <1>1
  <2>3. Leaves(w, q)
    BY <2>1, WithoutFacts
  <2>4. w \in Seq(Notice) /\ Len(w) <= Len(q)
    BY <2>1, WithoutFacts
  <2>5. \A a \in 1..Len(w) : w[a] \notin R
    BY <2>1, WithoutFacts
  <2>6. \A i \in 1..Len(q) : q[i] \notin R => \E a \in 1..Len(w) : w[a] = q[i]
    BY <2>1, WithoutFacts
  <2> QED
    BY <2>3, <2>4, <2>5, <2>6
<1>4. InOrder(w) /\ PhonesIn(w) \subseteq PhonesIn(q)
      /\ \A x : KindsIn(w, x) \subseteq KindsIn(q, x)
  BY <1>1, <1>2, LeavesFacts
<1>5. Len(w) \in Nat /\ Len(q) \in Nat
  BY <1>1, <1>2, LenProperties
<1>6. Len(w) <= NotifyDepth /\ \A i \in 1..Len(q) : q[i] \in Notice
  BY <1>1, <1>2, <1>5, ElementOfSeq DEF NoticesConstants
<1>7. \A a \in 1..Len(w) : w[a] \in Notice
  BY <1>2, ElementOfSeq
<1>8. ASSUME NEW x, NEW k
      PROVE  k \in KindsIn(w, x) <=> k \in KindsIn(q, x) /\ ~(x = p /\ k \in K)
  <2>1. ASSUME k \in KindsIn(w, x)
        PROVE  k \in KindsIn(q, x) /\ ~(x = p /\ k \in K)
    <3>1. PICK a \in 1..Len(w) : w[a].phone = x /\ w[a].kind = k
      BY <1>2, <2>1, KindsInFacts
    <3>2. ~(w[a].phone = p /\ w[a].kind \in K)
      BY <1>2, <1>7 DEF Names
    <3> QED
      BY <1>4, <2>1, <3>1, <3>2
  <2>2. ASSUME k \in KindsIn(q, x), ~(x = p /\ k \in K)
        PROVE  k \in KindsIn(w, x)
    <3>1. PICK i \in 1..Len(q) : q[i].phone = x /\ q[i].kind = k
      BY <1>1, <2>2, KindsInFacts
    <3>2. q[i] \notin R
      BY <1>6, <2>2, <3>1 DEF Names
    <3>3. PICK a \in 1..Len(w) : w[a] = q[i]
      BY <1>2, <3>2
    <3> QED
      BY <1>2, <3>1, <3>3, KindsInFacts
  <2> QED
    BY <2>1, <2>2
<1>9. ASSUME NEW x
      PROVE  KindsIn(w, x) = KindsIn(q, x) \ (IF x = p THEN K ELSE {})
  <2>1. \A k : k \in KindsIn(w, x) <=> k \in KindsIn(q, x) \ (IF x = p THEN K ELSE {})
    BY <1>8
  <2> QED
    BY <2>1
<1> QED
  BY <1>1, <1>2, <1>4, <1>6, <1>9 DEF Good


\* The oldest notice leaves.
LEMMA TailLeaves ==
  ASSUME NoticesConstants, NEW q, Good(q), q # <<>>
  PROVE  /\ Head(q) \in Notice
         /\ Good(Tail(q)) /\ Len(Tail(q)) = Len(q) - 1
         /\ PhonesIn(Tail(q)) \subseteq PhonesIn(q)
         /\ Head(q).phone \in PhonesIn(q)
         /\ KindsIn(Tail(q), Head(q).phone)
              = KindsIn(q, Head(q).phone) \ {Head(q).kind}
         /\ Head(q).kind \in KindsIn(q, Head(q).phone)
         /\ \A x : x # Head(q).phone => KindsIn(Tail(q), x) = KindsIn(q, x)
<1> DEFINE n == Len(q)
           w == Tail(q)
           f == [a \in 1..(n - 1) |-> a + 1]
           h == Head(q)
<1>1. q \in Seq(Notice) /\ InOrder(q) /\ Len(q) <= NotifyDepth
  BY DEF Good
<1>2. /\ w \in Seq(Notice) /\ Len(w) = n - 1 /\ n \in Nat /\ n > 0
      /\ \A a \in 1..(n - 1) : w[a] = q[a + 1]
      /\ h = q[1] /\ h \in Notice
  <2>1. n \in Nat /\ n > 0
    BY <1>1, LenProperties, EmptySeq
  <2>2. w \in Seq(Notice) /\ Len(w) = n - 1 /\ h \in Notice /\ h = q[1]
    BY <1>1, HeadTailProperties
  <2>3. \A a \in 1..(n - 1) : w[a] = q[a + 1]
    BY <1>1, <2>1
  <2> QED
    BY <2>1, <2>2, <2>3
<1> HIDE DEF w, h
<1>3. Leaves(w, q)
  <2>1. f \in [1..Len(w) -> 1..Len(q)]
    BY <1>2
  <2>2. \A a, b \in 1..Len(w) : a < b => f[a] < f[b]
    BY <1>2
  <2>3. \A a \in 1..Len(w) : w[a] = q[f[a]]
    BY <1>2
  <2> QED
    BY <2>1, <2>2, <2>3 DEF Leaves
<1>4. InOrder(w) /\ PhonesIn(w) \subseteq PhonesIn(q)
      /\ \A x : KindsIn(w, x) \subseteq KindsIn(q, x)
  BY <1>1, <1>2, <1>3, LeavesFacts
<1>5. 1 \in 1..Len(q)
  BY <1>2
<1>6. h.phone \in PhonesIn(q) /\ h.kind \in KindsIn(q, h.phone)
  BY <1>1, <1>2, <1>5, KindsInFacts
<1>7. ASSUME NEW x, NEW k
      PROVE  k \in KindsIn(w, x) <=> k \in KindsIn(q, x) /\ ~(x = h.phone /\ k = h.kind)
  <2>1. ASSUME k \in KindsIn(w, x), k = h.kind
        PROVE  FALSE
    <3>1. PICK a \in 1..Len(w) : w[a].phone = x /\ w[a].kind = k
      BY <1>2, <2>1, KindsInFacts
    <3>2. a + 1 \in 1..n /\ a + 1 # 1 /\ q[a + 1].kind = q[1].kind
      BY <1>2, <2>1, <3>1
    <3>3. DOMAIN q = 1..n
      BY <1>1, LenProperties
    <3> QED
      BY <1>1, <1>5, <3>2, <3>3 DEF InOrder
  <2>2. ASSUME k \in KindsIn(q, x), ~(x = h.phone /\ k = h.kind)
        PROVE  k \in KindsIn(w, x)
    <3>1. PICK i \in 1..n : q[i].phone = x /\ q[i].kind = k
      BY <1>1, <2>2, KindsInFacts
    <3>2. i # 1
      BY <1>2, <2>2, <3>1
    <3>3. i - 1 \in 1..Len(w) /\ w[i - 1] = q[i]
      BY <1>2, <3>1, <3>2
    <3> QED
      BY <1>2, <3>1, <3>3, KindsInFacts
  <2> QED
    BY <1>4, <2>1, <2>2
<1>8. KindsIn(w, h.phone) = KindsIn(q, h.phone) \ {h.kind}
  <2>1. \A k : k \in KindsIn(w, h.phone) <=> k \in KindsIn(q, h.phone) \ {h.kind}
    BY <1>7
  <2> QED
    BY <2>1
<1>9. ASSUME NEW x, x # h.phone
      PROVE  KindsIn(w, x) = KindsIn(q, x)
  <2>1. \A k : k \in KindsIn(w, x) <=> k \in KindsIn(q, x)
    BY <1>7, <1>9
  <2> QED
    BY <2>1
<1>10. Good(w)
  <2>1. n <= NotifyDepth /\ Len(w) = n - 1 /\ n \in Nat
    BY <1>1, <1>2
  <2>2. n - 1 <= NotifyDepth
    BY <2>1 DEF NoticesConstants
  <2> QED
    BY <1>2, <1>4, <2>2 DEF Good
<1> QED
  BY <1>2, <1>4, <1>6, <1>8, <1>9, <1>10 DEF w, h

\* A notice of a kind that is not queued goes behind the others.
LEMMA AppendKinds ==
  ASSUME NoticesConstants,
         NEW q, Good(q), Len(q) < NotifyDepth, NEW n \in Notice,
         \A i \in 1..Len(q) : q[i].kind # n.kind,
         n.kind = "DataWorking" => "DataNotWorking" \notin KindsIn(q, n.phone)
  PROVE  /\ Good(Append(q, n))
         /\ PhonesIn(Append(q, n)) \subseteq PhonesIn(q) \cup {n.phone}
         /\ KindsIn(Append(q, n), n.phone) = KindsIn(q, n.phone) \cup {n.kind}
         /\ \A x : x # n.phone => KindsIn(Append(q, n), x) = KindsIn(q, x)
<1> DEFINE l == Len(q)
           w == Append(q, n)
<1>1. q \in Seq(Notice) /\ InOrder(q) /\ l \in Nat /\ DOMAIN q = 1..l
  BY LenProperties DEF Good
<1>2. /\ w \in Seq(Notice) /\ Len(w) = l + 1
      /\ \A a \in 1..l : w[a] = q[a]
      /\ w[l + 1] = n
  BY <1>1, AppendProperties
<1> HIDE DEF w
<1>3. DOMAIN w = 1..(l + 1)
  BY <1>2, LenProperties
<1>4. \A a \in 1..(l + 1) : a = l + 1 \/ a \in 1..l
  BY <1>1
<1>5. InOrder(w)
  <2>1. ASSUME NEW a \in 1..(l + 1), NEW b \in 1..(l + 1), w[a].kind = w[b].kind
        PROVE  a = b
    <3>1. CASE a = l + 1 /\ b # l + 1
      BY <1>2, <1>4, <2>1, <3>1
    <3>2. CASE a # l + 1 /\ b = l + 1
      BY <1>2, <1>4, <2>1, <3>2
    <3>3. CASE a # l + 1 /\ b # l + 1
      BY <1>1, <1>2, <1>4, <2>1, <3>3 DEF InOrder
    <3> QED
      BY <3>1, <3>2, <3>3
  <2>2. ASSUME NEW a \in 1..(l + 1), NEW b \in 1..(l + 1), a < b,
               w[a].phone = w[b].phone,
               w[a].kind = "DataNotWorking", w[b].kind = "DataWorking"
        PROVE  FALSE
    <3>1. a \in 1..l /\ w[a] = q[a]
      BY <1>1, <1>2, <2>2
    <3>2. CASE b = l + 1
      <4>1. w[b] = n /\ n.kind = "DataWorking" /\ q[a].phone = n.phone
            /\ q[a].kind = "DataNotWorking"
        BY <1>2, <2>2, <3>1, <3>2
      <4>2. "DataNotWorking" \in KindsIn(q, n.phone)
        BY <1>1, <3>1, <4>1, KindsInFacts
      <4> QED
        BY <4>1, <4>2
    <3>3. CASE b # l + 1
      BY <1>1, <1>2, <1>4, <2>2, <3>1, <3>3 DEF InOrder
    <3> QED
      BY <3>2, <3>3
  <2> QED
    BY <1>3, <2>1, <2>2 DEF InOrder
<1>6. Good(w)
  BY <1>1, <1>2, <1>5 DEF Good, NoticesConstants
<1>7. ASSUME NEW x, NEW k
      PROVE  k \in KindsIn(w, x) <=> k \in KindsIn(q, x) \/ (x = n.phone /\ k = n.kind)
  <2>1. ASSUME k \in KindsIn(w, x)
        PROVE  k \in KindsIn(q, x) \/ (x = n.phone /\ k = n.kind)
    <3>1. PICK a \in 1..Len(w) : w[a].phone = x /\ w[a].kind = k
      BY <1>2, <2>1, KindsInFacts
    <3>2. CASE a = l + 1
      BY <1>2, <3>1, <3>2
    <3>3. CASE a # l + 1
      BY <1>1, <1>2, <1>4, <3>1, <3>3, KindsInFacts
    <3> QED
      BY <3>2, <3>3
  <2>2. ASSUME k \in KindsIn(q, x)
        PROVE  k \in KindsIn(w, x)
    <3>1. PICK a \in 1..l : q[a].phone = x /\ q[a].kind = k
      BY <1>1, <2>2, KindsInFacts
    <3>2. a \in 1..Len(w) /\ w[a] = q[a]
      BY <1>1, <1>2, <3>1
    <3> QED
      BY <1>2, <3>1, <3>2, KindsInFacts
  <2>3. ASSUME x = n.phone, k = n.kind
        PROVE  k \in KindsIn(w, x)
    <3>1. l + 1 \in 1..Len(w)
      BY <1>1, <1>2
    <3> QED
      BY <1>2, <2>3, <3>1, KindsInFacts
  <2> QED
    BY <2>1, <2>2, <2>3
<1>8. KindsIn(w, n.phone) = KindsIn(q, n.phone) \cup {n.kind}
  <2>1. \A k : k \in KindsIn(w, n.phone) <=> k \in KindsIn(q, n.phone) \cup {n.kind}
    BY <1>7
  <2> QED
    BY <2>1
<1>9. ASSUME NEW x, x # n.phone
      PROVE  KindsIn(w, x) = KindsIn(q, x)
  <2>1. \A k : k \in KindsIn(w, x) <=> k \in KindsIn(q, x)
    BY <1>7, <1>9
  <2> QED
    BY <2>1
<1>10. ASSUME NEW x \in PhonesIn(w)
       PROVE  x \in PhonesIn(q) \cup {n.phone}
  <2>1. PICK a \in 1..Len(w) : w[a].phone = x
    BY <1>2, KindsInFacts
  <2>2. CASE a = l + 1
    BY <1>2, <2>1, <2>2
  <2>3. CASE a # l + 1
    BY <1>1, <1>2, <1>4, <2>1, <2>3, KindsInFacts
  <2> QED
    BY <2>2, <2>3
<1> QED
  BY <1>6, <1>8, <1>9, <1>10 DEF w


KindsOf(s, x) == {n.kind : n \in {m \in s : m.phone = x}}

LEMMA EvictedFacts ==
  ASSUME NoticesConstants, NEW q, Good(q)
  PROVE  LET r == IF Evicted(q) = {} THEN q ELSE Tail(q) IN
         /\ Good(r) /\ Len(r) < NotifyDepth
         /\ PhonesIn(r) \subseteq PhonesIn(q)
         /\ \A x : /\ KindsIn(r, x) = KindsIn(q, x) \ KindsOf(Evicted(q), x)
                   /\ KindsOf(Evicted(q), x) \subseteq KindsIn(q, x)
<1>1. q \in Seq(Notice) /\ Len(q) \in Nat /\ Len(q) <= NotifyDepth
      /\ NotifyDepth \in Nat /\ NotifyDepth > 0
  BY LenProperties DEF Good, NoticesConstants
<1>2. CASE Len(q) # NotifyDepth
  <2>1. Evicted(q) = {} /\ Len(q) < NotifyDepth
    BY <1>1, <1>2 DEF Evicted
  <2>2. \A x : KindsOf({}, x) = {}
    BY DEF KindsOf
  <2>3. \A x : /\ KindsIn(q, x) = KindsIn(q, x) \ KindsOf({}, x)
               /\ KindsOf({}, x) \subseteq KindsIn(q, x)
    BY <2>2
  <2> QED
    BY <2>1, <2>3
<1>3. CASE Len(q) = NotifyDepth
  <2>1. Evicted(q) = {Head(q)} /\ {Head(q)} # {}
    BY <1>3 DEF Evicted
  <2>2. q # <<>>
    BY <1>1, <1>3
  <2>3. /\ Good(Tail(q)) /\ Len(Tail(q)) = Len(q) - 1
        /\ PhonesIn(Tail(q)) \subseteq PhonesIn(q)
        /\ KindsIn(Tail(q), Head(q).phone)
             = KindsIn(q, Head(q).phone) \ {Head(q).kind}
        /\ Head(q).kind \in KindsIn(q, Head(q).phone)
        /\ \A x : x # Head(q).phone => KindsIn(Tail(q), x) = KindsIn(q, x)
    BY <2>2, TailLeaves
  <2> DEFINE h == Head(q)
             t == Tail(q)
  <2>4. KindsOf({h}, h.phone) = {h.kind}
    BY DEF KindsOf
  <2>5. \A x : x # h.phone => KindsOf({h}, x) = {}
    BY DEF KindsOf
  <2> HIDE DEF h, t
  <2>6. ASSUME NEW x
        PROVE  /\ KindsIn(t, x) = KindsIn(q, x) \ KindsOf({h}, x)
               /\ KindsOf({h}, x) \subseteq KindsIn(q, x)
    <3>1. CASE x = h.phone
      BY <2>3, <2>4, <3>1 DEF h, t
    <3>2. CASE x # h.phone
      <4>1. KindsIn(t, x) = KindsIn(q, x) /\ KindsOf({h}, x) = {}
        BY <2>3, <2>5, <3>2 DEF h, t
      <4> QED
        BY <4>1
    <3> QED
      BY <3>1, <3>2
  <2>7. Len(t) < NotifyDepth
    BY <1>1, <1>3, <2>3 DEF t
  <2> QED
    BY <2>1, <2>3, <2>6, <2>7 DEF h, t
<1> QED
  BY <1>2, <1>3

\* A notice is put behind the others, and the oldest leaves if it must.
LEMMA PutKinds ==
  ASSUME NoticesConstants,
         NEW q, Good(q), NEW p, NEW k, [phone |-> p, kind |-> k] \in Notice,
         ~Duplicate(q, k),
         k = "DataWorking" => "DataNotWorking" \notin KindsIn(q, p)
  PROVE  /\ Good(Put(q, p, k))
         /\ PhonesIn(Put(q, p, k)) \subseteq PhonesIn(q) \cup {p}
         /\ KindsIn(Put(q, p, k), p)
              = (KindsIn(q, p) \ KindsOf(Evicted(q), p)) \cup {k}
         /\ \A x : x # p => KindsIn(Put(q, p, k), x)
                              = KindsIn(q, x) \ KindsOf(Evicted(q), x)
<1> DEFINE r == IF Evicted(q) = {} THEN q ELSE Tail(q)
           n == [phone |-> p, kind |-> k]
<1>1. /\ Good(r) /\ Len(r) < NotifyDepth
      /\ PhonesIn(r) \subseteq PhonesIn(q)
      /\ \A x : /\ KindsIn(r, x) = KindsIn(q, x) \ KindsOf(Evicted(q), x)
                /\ KindsOf(Evicted(q), x) \subseteq KindsIn(q, x)
  BY EvictedFacts
<1>2. Put(q, p, k) = Append(r, n)
  BY DEF Put
<1>3. n \in Notice /\ n.phone = p /\ n.kind = k
  OBVIOUS
<1>4. q \in Seq(Notice) /\ DOMAIN q = 1..Len(q)
  BY LenProperties DEF Good
<1>5. \A i \in 1..Len(q) : q[i].kind # k
  BY <1>4 DEF Duplicate
<1> HIDE DEF r, n
<1>6. r \in Seq(Notice)
  BY <1>1 DEF Good
<1>7. \A i \in 1..Len(r) : r[i].kind # k
  <2> SUFFICES ASSUME NEW i \in 1..Len(r), r[i].kind = k
               PROVE  FALSE
    OBVIOUS
  <2>1. k \in KindsIn(r, r[i].phone)
    BY <1>6, KindsInFacts
  <2>2. k \in KindsIn(q, r[i].phone)
    BY <1>1, <2>1
  <2> QED
    BY <1>4, <1>5, <2>2, KindsInFacts
<1>8. k = "DataWorking" => "DataNotWorking" \notin KindsIn(r, p)
  BY <1>1
<1>9. /\ Good(Append(r, n))
      /\ PhonesIn(Append(r, n)) \subseteq PhonesIn(r) \cup {p}
      /\ KindsIn(Append(r, n), p) = KindsIn(r, p) \cup {k}
      /\ \A x : x # p => KindsIn(Append(r, n), x) = KindsIn(r, x)
  <2>1. \A i \in 1..Len(r) : r[i].kind # n.kind
    BY <1>3, <1>7
  <2>2. n.kind = "DataWorking" => "DataNotWorking" \notin KindsIn(r, n.phone)
    BY <1>3, <1>8
  <2>3. /\ Good(Append(r, n))
        /\ PhonesIn(Append(r, n)) \subseteq PhonesIn(r) \cup {n.phone}
        /\ KindsIn(Append(r, n), n.phone) = KindsIn(r, n.phone) \cup {n.kind}
        /\ \A x : x # n.phone => KindsIn(Append(r, n), x) = KindsIn(r, x)
    BY <1>1, <1>3, <2>1, <2>2, AppendKinds
  <2> QED
    BY <1>3, <2>3
<1> QED
  BY <1>1, <1>2, <1>9


\* What DataWorking removes.
Drops(k) == IF k = "DataWorking" THEN {"DataNotWorking"} ELSE {}

LEMMA RecoveredKinds ==
  ASSUME NoticesConstants, NEW q, Good(q), NEW p, NEW k
  PROVE  /\ Good(Recovered(q, p, k))
         /\ PhonesIn(Recovered(q, p, k)) \subseteq PhonesIn(q)
         /\ KindsIn(Recovered(q, p, k), p) = KindsIn(q, p) \ Drops(k)
         /\ \A x : x # p => KindsIn(Recovered(q, p, k), x) = KindsIn(q, x)
<1>1. CASE k = "DataWorking"
  <2> DEFINE K == {"DataNotWorking"}
             R == [phone : {p}, kind : K]
             w == Without(q, R)
  <2>1. Recovered(q, p, k) = w /\ Drops(k) = {"DataNotWorking"}
    BY <1>1 DEF Recovered, Drops
  <2>3. Names(R, p, K)
    BY NoticesOf
  <2>4. w = Without(q, R)
    OBVIOUS
  <2> HIDE DEF w, R, K
  <2>2. Good(w) /\ PhonesIn(w) \subseteq PhonesIn(q)
    BY <2>3, <2>4, WithoutKinds
  <2>5. \A x : KindsIn(w, x) = KindsIn(q, x) \ (IF x = p THEN K ELSE {})
    BY <2>3, <2>4, WithoutKinds
  <2>6. KindsIn(w, p) = KindsIn(q, p) \ K
    BY <2>5
  <2>7. \A x : x # p => KindsIn(w, x) = KindsIn(q, x)
    BY <2>5
  <2> QED
    BY <2>1, <2>2, <2>6, <2>7 DEF K
<1>2. CASE k # "DataWorking"
  BY <1>2 DEF Recovered, Drops
<1> QED
  BY <1>1, <1>2

LEMMA EmptyKinds ==
  \A x : KindsIn(<<>>, x) = {}
BY DEF KindsIn

\* The queue after NotifyPhone, where the notice was given before, and where it
\* is queued.
LEMMA KeptKinds ==
  ASSUME NoticesConstants, Good(queue), NEW p, NEW k, Kept(p, k)
  PROVE  /\ Good(queue')
         /\ PhonesIn(queue') \subseteq PhonesIn(queue)
         /\ KindsIn(queue', p) = KindsIn(queue, p) \ Drops(k)
         /\ \A x : x # p => KindsIn(queue', x) = KindsIn(queue, x)
         /\ k \in seen' \/ \E x \in PhonesIn(queue') : k \in KindsIn(queue', x)
<1>1. queue' = Recovered(queue, p, k) /\ Again(p, k)
      /\ seen' = seen \ Renewed(k)
  BY DEF Kept
<1>2. /\ Good(queue')
      /\ PhonesIn(queue') \subseteq PhonesIn(queue)
      /\ KindsIn(queue', p) = KindsIn(queue, p) \ Drops(k)
      /\ \A x : x # p => KindsIn(queue', x) = KindsIn(queue, x)
  BY <1>1, RecoveredKinds
<1>3. k \in seen' \/ \E i \in DOMAIN queue' : queue'[i].kind = k
  BY <1>1 DEF Again, Duplicate
<1>4. (\E i \in DOMAIN queue' : queue'[i].kind = k) =>
        \E x \in PhonesIn(queue') : k \in KindsIn(queue', x)
  BY DEF PhonesIn, KindsIn
<1> QED
  BY <1>2, <1>3, <1>4

LEMMA AddedKinds ==
  ASSUME NoticesConstants, Good(queue), NEW p \in Phones,
         NEW k \in Kinds, Added(p, k)
  PROVE  \E e \in SUBSET Notice :
         /\ Good(queue')
         /\ PhonesIn(queue') \subseteq PhonesIn(queue) \cup {p}
         /\ KindsIn(queue', p)
              = ((KindsIn(queue, p) \ Drops(k)) \ KindsOf(e, p)) \cup {k}
         /\ \A x : x # p => KindsIn(queue', x) = KindsIn(queue, x) \ KindsOf(e, x)
         /\ KindsOf(e, p) \subseteq KindsIn(queue, p) \ Drops(k)
         /\ \A x : KindsOf(e, x) \subseteq KindsIn(queue, x)
         /\ seen' = (seen \ Renewed(k)) \cup {k}
         /\ k \notin seen \ Renewed(k)
         /\ k \notin KindsIn(queue, p) \ Drops(k)
         /\ Owes(p, k, e)
<1> DEFINE q == Recovered(queue, p, k)
           e == Evicted(q)
<1>1. /\ queue' = Put(q, p, k) /\ ~Again(p, k)
      /\ seen' = (seen \ Renewed(k)) \cup {k}
      /\ Owes(p, k, e)
  BY DEF Added, Marked
<1>2. k \notin seen \ Renewed(k) /\ ~Duplicate(q, k)
  BY <1>1 DEF Again
<1>3. /\ Good(q)
      /\ PhonesIn(q) \subseteq PhonesIn(queue)
      /\ KindsIn(q, p) = KindsIn(queue, p) \ Drops(k)
      /\ \A x : x # p => KindsIn(q, x) = KindsIn(queue, x)
  BY RecoveredKinds
<1>4. [phone |-> p, kind |-> k] \in Notice
  BY DEF Notice
<1>5. k = "DataWorking" => "DataNotWorking" \notin KindsIn(q, p)
  BY <1>3 DEF Drops
<1>6. \A x : KindsOf(e, x) \subseteq KindsIn(q, x)
  BY <1>3, EvictedFacts
<1>7. e \in SUBSET Notice
  <2>1. q \in Seq(Notice) /\ NotifyDepth > 0 /\ Len(q) \in Nat
    BY <1>3, LenProperties DEF Good, NoticesConstants
  <2>2. Len(q) = NotifyDepth => q # <<>>
    BY <2>1
  <2>3. q # <<>> => Head(q) \in Notice
    BY <1>3, TailLeaves
  <2> QED
    BY <2>2, <2>3 DEF Evicted
<1> HIDE DEF q, e
<1>8. k \notin KindsIn(q, p)
  <2>1. q \in Seq(Notice) /\ DOMAIN q = 1..Len(q)
    BY <1>3, LenProperties DEF Good
  <2>2. \A i \in 1..Len(q) : q[i].kind # k
    BY <1>2, <2>1 DEF Duplicate
  <2> QED
    BY <2>1, <2>2, KindsInFacts
<1>9. /\ Good(queue')
      /\ PhonesIn(queue') \subseteq PhonesIn(q) \cup {p}
      /\ KindsIn(queue', p) = (KindsIn(q, p) \ KindsOf(e, p)) \cup {k}
      /\ \A x : x # p => KindsIn(queue', x) = KindsIn(q, x) \ KindsOf(e, x)
  BY <1>1, <1>2, <1>3, <1>4, <1>5, PutKinds DEF e
<1>10. \A x : x # p => KindsIn(queue', x) = KindsIn(queue, x) \ KindsOf(e, x)
  BY <1>3, <1>9
<1>11. \A x : KindsOf(e, x) \subseteq KindsIn(queue, x)
  BY <1>3, <1>6
<1>12. KindsIn(queue', p)
         = ((KindsIn(queue, p) \ Drops(k)) \ KindsOf(e, p)) \cup {k}
  BY <1>3, <1>9
<1>13. KindsOf(e, p) \subseteq KindsIn(queue, p) \ Drops(k)
       /\ k \notin KindsIn(queue, p) \ Drops(k)
  BY <1>3, <1>6, <1>8
<1>14. PhonesIn(queue') \subseteq PhonesIn(queue) \cup {p}
  BY <1>3, <1>9
<1> QED
  BY <1>1, <1>2, <1>7, <1>9, <1>10, <1>11, <1>12, <1>13, <1>14


-----------------------------------------------------------------------------
(* The inductive invariant of Notices.                                     *)

Present == plugged \in {"begun", "present", "removed"}
Waiting == KindsIn(queue, phone)

\* The word names the phone that is plugged in; those that are gone have ended.
PhoneInv ==
  /\ active = IF Present THEN phone ELSE 0
  /\ plugged # "absent" => phone # 0
  /\ gone \subseteq 1..phone
  /\ phone \in gone <=> phone # 0 /\ plugged \in {"ended", "absent"}

\* The call that has the lock is about a phone that was plugged in.
CallerInv ==
  call # Nothing =>
    /\ call.phone \in 0..phone /\ call.saw \in 0..phone \cup {Nothing}
    /\ call.op = "notify" => call.kind \in Progress
    /\ call.op \in {"notify", "reset"} => call.phone # 0

\* What it read may be stale: then the phone plugged in since has no notices.
SawInv ==
  call # Nothing /\ call.saw # Nothing =>
    /\ plugged = "added" => call.saw # phone
    /\ Present /\ call.saw # phone => leaky /\ told = {} /\ Waiting = {}
    /\ call.saw = phone /\ phone \in gone => told = {}
    /\ call.op = "pop" => call.saw \notin before /\ queue # <<>>

QueueInv == Good(queue) /\ PhonesIn(queue) \subseteq 0..phone

ShownInv == before \subseteq gone /\ NothingOfTheDeparted

\* The mask is of what was shown and what is queued.
MaskInv ==
  /\ told \cap Waiting = {}
  /\ Present => told \cup Waiting \subseteq seen
  /\ ~Present => owed = {}
  /\ plugged = "added" => Waiting = {}
  /\ Present /\ ~leaky => /\ seen \subseteq told \cup Waiting
                          /\ owed \subseteq Waiting
                          /\ PhonesIn(queue) \subseteq {0, phone}

NoticesInv ==
  /\ NoticesTypeOK /\ PhoneInv /\ CallerInv /\ SawInv
  /\ QueueInv /\ ShownInv /\ MaskInv

LEMMA NoticesProperties ==
  ASSUME NoticesConstants, NoticesInv
  PROVE  NoticeReachesUser /\ GivenOnce /\ NothingOfTheDeparted
<1>1. Queued(phone) = Waiting
  BY DEF Queued, Waiting, KindsIn
<1>2. NoticeReachesUser
  BY <1>1 DEF NoticeReachesUser, NoticesInv, MaskInv
<1>3. InOrder(queue) /\ told \cap Waiting = {}
  BY DEF NoticesInv, QueueInv, Good, MaskInv
<1>4. GivenOnce
  <2>1. \A i, j \in DOMAIN queue : queue[i] = queue[j] => i = j
    BY <1>3 DEF InOrder
  <2> QED
    BY <1>1, <1>3, <2>1 DEF GivenOnce, InOrder
<1> QED
  BY <1>2, <1>4 DEF NoticesInv, ShownInv

LEMMA NoticesInitially ==
  ASSUME NoticesConstants, NoticesInit
  PROVE  NoticesInv
<1>1. /\ call = Nothing /\ active = 0 /\ seen = {} /\ queue = <<>>
      /\ phone = 0 /\ plugged = "absent" /\ hand = Nothing
      /\ owed = {} /\ told = {} /\ gone = {} /\ before = {} /\ leaky = FALSE
  BY DEF NoticesInit
<1>2. Good(<<>>) /\ Waiting = {} /\ PhonesIn(<<>>) = {}
  <2>1. <<>> \in Seq(Notice) /\ Len(<<>>) = 0 /\ DOMAIN <<>> = {}
    BY EmptySeq
  <2> QED
    BY <1>1, <2>1, EmptyKinds DEF Good, InOrder, PhonesIn, Waiting,
       NoticesConstants
<1>3. NoticesTypeOK
  <2>1. <<>> \in Seq(Notice) /\ Len(<<>>) <= NotifyDepth
    BY <1>2 DEF Good
  <2>2. MaxPhones \in Nat /\ 0 \in 0..MaxPhones
    BY DEF NoticesConstants
  <2>3. queue \in Seq(Notice) /\ Len(queue) <= NotifyDepth
    BY <1>1, <2>1
  <2>4. active \in 0..MaxPhones /\ phone \in 0..MaxPhones /\ leaky \in BOOLEAN
    BY <1>1, <2>2
  <2> QED
    BY <1>1, <2>3, <2>4 DEF NoticesTypeOK
<1>4. PhoneInv /\ CallerInv /\ SawInv /\ ShownInv
  BY <1>1 DEF PhoneInv, Present, CallerInv, SawInv, ShownInv, NothingOfTheDeparted
<1>5. QueueInv
  BY <1>1, <1>2 DEF QueueInv
<1>6. MaskInv
  BY <1>1, <1>2 DEF MaskInv, Present
<1> QED
  BY <1>3, <1>4, <1>5, <1>6 DEF NoticesInv

LEMMA NoticesFacts ==
  ASSUME NoticesConstants, NoticesInv
  PROVE  /\ phone \in Nat /\ phone <= MaxPhones /\ MaxPhones \in Nat
         /\ Nothing \notin 0..MaxPhones
         /\ Good(queue) /\ PhonesIn(queue) \subseteq 0..phone
         /\ phone # 0 => Waiting \subseteq Kinds
         /\ phone = 0 => Waiting \cap Kinds = {}
         /\ Present => phone # 0
         /\ \A x \in PhonesIn(queue) : x # 0 => x \in Phones
<1>1. /\ phone \in 0..MaxPhones /\ MaxPhones \in Nat
      /\ Nothing \notin 0..MaxPhones
      /\ Good(queue) /\ PhonesIn(queue) \subseteq 0..phone
  BY DEF NoticesConstants, NoticesInv, NoticesTypeOK, QueueInv
<1>2. queue \in Seq(Notice) /\ \A i \in 1..Len(queue) : queue[i] \in Notice
  BY <1>1, ElementOfSeq DEF Good
<1>3. phone # 0 => Waiting \subseteq Kinds
  BY <1>2, KindsInFacts DEF Waiting
<1>4. phone = 0 => Waiting \cap Kinds = {}
  <2> SUFFICES ASSUME phone = 0, NEW k \in Waiting, k \in Kinds
               PROVE  FALSE
    OBVIOUS
  <2>1. PICK i \in 1..Len(queue) : queue[i].phone = phone /\ queue[i].kind = k
    BY <1>2, KindsInFacts DEF Waiting
  <2> QED
    BY <1>2, <2>1, NoticeFacts DEF Kinds
<1>5. Present => phone # 0
  BY DEF NoticesInv, PhoneInv, Present
<1> QED
  BY <1>1, <1>3, <1>4, <1>5 DEF Phones

\* What Lose takes out of the accounts.
LEMMA OfFacts ==
  ASSUME NEW e
  PROVE  Of(e) = KindsOf(e, phone) \cap Kinds
BY DEF Of, KindsOf


-----------------------------------------------------------------------------
(* Every step keeps it: what queues a notice of a phone.                   *)

\* NotifyPhone for the phone that is plugged in.
LEMMA NotifyPresent ==
  ASSUME NoticesConstants, NoticesInv, Present, NEW k \in Kinds,
         Kept(phone, k) \/ Added(phone, k),
         Present', UNCHANGED <<phone, leaky>>
  PROVE  /\ QueueInv' /\ MaskInv'
         /\ owed' \subseteq Kinds /\ told' \subseteq Kinds
         /\ seen' \subseteq Kinds
<1> DEFINE W == KindsIn(queue, phone)
           X == KindsIn(queue', phone)
           V == Renewed(k)
<1>1. /\ phone \in Nat /\ phone # 0 /\ phone <= MaxPhones /\ MaxPhones \in Nat
      /\ Good(queue) /\ PhonesIn(queue) \subseteq 0..phone
      /\ W \subseteq Kinds
  BY NoticesFacts DEF Waiting
<1>2. phone \notin gone
  BY DEF NoticesInv, PhoneInv, Present
<1>3. /\ told \subseteq Kinds /\ owed \subseteq Kinds
      /\ seen \subseteq Kinds
  BY DEF NoticesInv, NoticesTypeOK
<1>4. /\ told \cap W = {}
      /\ told \cup W \subseteq seen
      /\ ~leaky => /\ seen \subseteq told \cup W
                   /\ owed \subseteq W
                   /\ PhonesIn(queue) \subseteq {0, phone}
  BY DEF NoticesInv, MaskInv, Waiting
<1>5. /\ V \subseteq Drops(k) /\ k \notin Drops(k)
      /\ W \ Drops(k) = W \ V
  <2>1. queue = <<>> => W = {}
    BY EmptyKinds
  <2> QED
    BY <2>1 DEF Renewed, Drops
<1>6. phone' = phone /\ leaky' = leaky /\ Present'
  OBVIOUS
<1>7. ASSUME Kept(phone, k)
      PROVE  /\ Good(queue') /\ PhonesIn(queue') \subseteq PhonesIn(queue)
             /\ X = W \ V
             /\ seen' = seen \ V /\ told' = told \ V
             /\ owed' = ((owed \ V) \cup {k}) \ (told \ V)
             /\ ~leaky => k \in seen' \/ k \in X
  <2>1. /\ Good(queue')
        /\ PhonesIn(queue') \subseteq PhonesIn(queue)
        /\ X = W \ Drops(k)
        /\ k \in seen' \/ \E x \in PhonesIn(queue') : k \in KindsIn(queue', x)
    BY <1>1, <1>7, KeptKinds
  <2>2. seen' = seen \ V /\ Owes(phone, k, {})
    BY <1>7 DEF Kept
  <2>3. Of({}) = {}
    BY DEF Of
  <2>4. told' = told \ V /\ owed' = ((owed \ V) \cup {k}) \ (told \ V)
    BY <1>2, <2>2, <2>3 DEF Owes
  <2>5. ASSUME ~leaky, NEW x \in PhonesIn(queue'), k \in KindsIn(queue', x)
        PROVE  k \in X
    <3>1. CASE x = 0
      <4>1. queue' \in Seq(Notice)
        BY <2>1 DEF Good
      <4>2. PICK i \in 1..Len(queue') : queue'[i].phone = 0 /\ queue'[i].kind = k
        BY <2>5, <3>1, <4>1, KindsInFacts
      <4>3. queue'[i] \in Notice
        BY <4>1, ElementOfSeq
      <4> QED
        BY <4>2, <4>3, NoticeFacts DEF Kinds
    <3>2. CASE x = phone
      BY <2>5, <3>2
    <3> QED
      BY <1>4, <2>1, <2>5, <3>1, <3>2
  <2> QED
    BY <1>5, <2>1, <2>2, <2>4, <2>5
<1>8. ASSUME Added(phone, k)
      PROVE  \E z \in SUBSET Kinds :
             /\ Good(queue') /\ PhonesIn(queue') \subseteq PhonesIn(queue) \cup {phone}
             /\ X = ((W \ V) \ z) \cup {k} /\ z \subseteq W \ V
             /\ k \notin seen \ V /\ k \notin W \ V
             /\ seen' = (seen \ V) \cup {k} /\ told' = (told \ V) \cup z
             /\ owed' = ((owed \ V) \cup {k}) \ ((told \ V) \cup z)
  <2>1. phone \in Phones
    BY <1>1 DEF Phones
  <2>2. PICK e \in SUBSET Notice :
         /\ Good(queue')
         /\ PhonesIn(queue') \subseteq PhonesIn(queue) \cup {phone}
         /\ X = ((W \ Drops(k)) \ KindsOf(e, phone)) \cup {k}
         /\ KindsOf(e, phone) \subseteq W \ Drops(k)
         /\ seen' = (seen \ V) \cup {k}
         /\ k \notin seen \ V
         /\ k \notin W \ Drops(k)
         /\ Owes(phone, k, e)
    BY <1>1, <1>8, <2>1, AddedKinds
  <2> DEFINE z == KindsOf(e, phone)
  <2>3. z \subseteq Kinds /\ z \subseteq W \ V
    BY <1>1, <1>5, <2>2
  <2>4. Of(e) = z
    BY <2>3, OfFacts
  <2>5. told' = (told \ V) \cup z /\ owed' = ((owed \ V) \cup {k}) \ ((told \ V) \cup z)
    BY <1>2, <2>2, <2>4 DEF Owes
  <2> HIDE DEF z
  <2>6. X = ((W \ V) \ z) \cup {k} /\ k \notin W \ V
    BY <1>5, <2>2 DEF z
  <2> QED
    BY <2>2, <2>3, <2>5, <2>6
<1> HIDE DEF W, X, V
<1>9. QueueInv'
  <2>1. Good(queue') /\ PhonesIn(queue') \subseteq PhonesIn(queue) \cup {phone}
    BY <1>7, <1>8
  <2>2. PhonesIn(queue') \subseteq 0..phone
    BY <1>1, <2>1
  <2> QED
    BY <1>6, <2>1, <2>2 DEF QueueInv
<1>10. Waiting' = X /\ Present'
  BY <1>6 DEF Waiting, X, Present
<1>11. CASE Kept(phone, k)
  <2>1. /\ X = W \ V
        /\ seen' = seen \ V /\ told' = told \ V
        /\ owed' = ((owed \ V) \cup {k}) \ (told \ V)
        /\ ~leaky => k \in seen' \/ k \in X
        /\ PhonesIn(queue') \subseteq PhonesIn(queue)
    BY <1>7, <1>11
  <2>2. told' \cap X = {} /\ told' \cup X \subseteq seen'
    BY <1>4, <2>1
  <2>3. ~leaky => /\ seen' \subseteq told' \cup X
                  /\ owed' \subseteq X
                  /\ PhonesIn(queue') \subseteq {0, phone}
    BY <1>4, <2>1
  <2>4. MaskInv'
    BY <1>6, <1>10, <2>2, <2>3 DEF MaskInv, Present
  <2> QED
    BY <1>3, <1>9, <2>1, <2>4
<1>12. CASE Added(phone, k)
  <2>1. PICK z \in SUBSET Kinds :
             /\ PhonesIn(queue') \subseteq PhonesIn(queue) \cup {phone}
             /\ X = ((W \ V) \ z) \cup {k} /\ z \subseteq W \ V
             /\ k \notin seen \ V /\ k \notin W \ V
             /\ seen' = (seen \ V) \cup {k} /\ told' = (told \ V) \cup z
             /\ owed' = ((owed \ V) \cup {k}) \ ((told \ V) \cup z)
    BY <1>8, <1>12
  <2>2. told' \cap X = {} /\ told' \cup X \subseteq seen'
    BY <1>4, <2>1
  <2>3. ~leaky => /\ seen' \subseteq told' \cup X
                  /\ owed' \subseteq X
                  /\ PhonesIn(queue') \subseteq {0, phone}
    BY <1>4, <2>1
  <2>4. MaskInv'
    BY <1>6, <1>10, <2>2, <2>3 DEF MaskInv, Present
  <2> QED
    BY <1>3, <1>9, <2>1, <2>4
<1> QED
  BY <1>11, <1>12


\* NotifyPhone for a phone that is gone, or for one before.
LEMMA NotifyStale ==
  ASSUME NoticesConstants, NoticesInv,
         NEW p \in 1..phone, NEW k \in Kinds,
         Kept(p, k) \/ Added(p, k),
         UNCHANGED <<phone, plugged, leaky>>,
         p # phone \/ p \in gone,
         Present => leaky /\ told = {} /\ Waiting = {},
         plugged = "added" => p # phone,
         p = phone => told = {}
  PROVE  /\ QueueInv' /\ MaskInv'
         /\ owed' \subseteq Kinds /\ told' \subseteq Kinds
         /\ seen' \subseteq Kinds
<1> DEFINE W == KindsIn(queue, phone)
           X == KindsIn(queue', phone)
<1>1. /\ phone \in Nat /\ phone <= MaxPhones /\ MaxPhones \in Nat
      /\ Good(queue) /\ PhonesIn(queue) \subseteq 0..phone
  BY NoticesFacts
<1>2. p \in Phones
  BY <1>1 DEF Phones
<1>3. /\ told \subseteq Kinds /\ owed \subseteq Kinds
      /\ seen \subseteq Kinds
  BY DEF NoticesInv, NoticesTypeOK
<1>4. phone' = phone /\ leaky' = leaky /\ plugged' = plugged
  OBVIOUS
<1>5. ASSUME Kept(p, k)
      PROVE  /\ Good(queue') /\ PhonesIn(queue') \subseteq PhonesIn(queue)
             /\ p # phone => X = W
             /\ seen' \subseteq Kinds /\ UNCHANGED <<owed, told>>
  <2>1. seen' \subseteq seen /\ Owes(p, k, {})
    BY <1>5 DEF Kept
  <2>2. UNCHANGED <<owed, told>>
    BY <2>1 DEF Owes
  <2> QED
    BY <1>1, <1>3, <1>5, <2>1, <2>2, KeptKinds
<1>6. ASSUME Added(p, k)
      PROVE  /\ Good(queue') /\ PhonesIn(queue') \subseteq PhonesIn(queue) \cup {p}
             /\ p # phone => X \subseteq W
             /\ seen' \subseteq Kinds /\ UNCHANGED <<owed, told>>
  <2>1. PICK e \in SUBSET Notice :
         /\ Good(queue')
         /\ PhonesIn(queue') \subseteq PhonesIn(queue) \cup {p}
         /\ \A x : x # p => KindsIn(queue', x) = KindsIn(queue, x) \ KindsOf(e, x)
         /\ seen' = (seen \ Renewed(k)) \cup {k}
         /\ Owes(p, k, e)
    BY <1>1, <1>2, <1>6, AddedKinds
  <2>2. UNCHANGED <<owed, told>>
    BY <2>1 DEF Owes
  <2>3. p # phone => X = W \ KindsOf(e, phone)
    BY <2>1
  <2> QED
    BY <1>3, <2>1, <2>2, <2>3
<1> HIDE DEF W, X
<1>7. /\ Good(queue') /\ PhonesIn(queue') \subseteq PhonesIn(queue) \cup {p}
      /\ p # phone => X \subseteq W
      /\ seen' \subseteq Kinds /\ UNCHANGED <<owed, told>>
  BY <1>5, <1>6
<1>8. QueueInv'
  <2>1. PhonesIn(queue') \subseteq 0..phone
    BY <1>1, <1>7
  <2> QED
    BY <1>4, <1>7, <2>1 DEF QueueInv
<1>9. Waiting' = X /\ Waiting = W /\ (Present' <=> Present)
  BY <1>4 DEF Waiting, X, W, Present
<1>10. /\ told \cap W = {}
       /\ ~Present => owed = {}
       /\ plugged = "added" => W = {}
  BY <1>9 DEF NoticesInv, MaskInv
<1>11. Present => phone \notin gone
  BY DEF NoticesInv, PhoneInv, Present
<1>12. MaskInv'
  <2>1. told' \cap X = {} /\ owed' = owed
    BY <1>7, <1>10
  <2>2. Present => leaky /\ told' \cup X \subseteq seen'
    BY <1>7, <1>9, <1>11
  <2>3. plugged = "added" => X = {}
    BY <1>7, <1>10
  <2> QED
    BY <1>4, <1>9, <1>10, <2>1, <2>2, <2>3 DEF MaskInv
<1> QED
  BY <1>3, <1>7, <1>8, <1>12

LEMMA CallFacts ==
  ASSUME NoticesConstants, NoticesInv, call # Nothing
  PROVE  /\ call \in Call
         /\ call.phone \in 0..phone /\ call.saw \in 0..phone \cup {Nothing}
         /\ call.op \in {"notify", "reset", "pop"}
BY DEF NoticesInv, CallerInv, NoticesTypeOK, Call

\* The call that has the lock is over.
LEMMA CallOver ==
  ASSUME call' = Nothing
  PROVE  CallerInv' /\ SawInv'
BY DEF CallerInv, SawInv

LEMMA PhoneSame ==
  ASSUME PhoneInv, UNCHANGED <<active, phone, plugged, gone>>
  PROVE  PhoneInv' /\ (Present' <=> Present)
BY DEF PhoneInv, Present

LEMMA ShownSame ==
  ASSUME ShownInv, UNCHANGED <<hand, gone, before>>
  PROVE  ShownInv'
BY DEF ShownInv, NothingOfTheDeparted

LEMMA NoticesTypeStep ==
  ASSUME NoticesConstants, NoticesTypeOK, QueueInv',
         call' \in Call \cup {Nothing}, UNCHANGED <<active, phone, plugged>>,
         hand' \in Notice \cup {Nothing},
         owed' \subseteq Kinds, told' \subseteq Kinds,
         seen' \subseteq Kinds, UNCHANGED <<gone, leaky>>,
         before' \subseteq Phones
  PROVE  NoticesTypeOK'
<1>1. queue' \in Seq(Notice) /\ Len(queue') <= NotifyDepth
  BY DEF QueueInv, Good
<1> QED
  BY <1>1 DEF NoticesTypeOK

LEMMA NotifyStep ==
  ASSUME NoticesConstants, NoticesInv, Notify
  PROVE  NoticesInv'
<1>1. /\ call # Nothing /\ call.op = "notify" /\ call.saw # Nothing
      /\ call.saw = call.phone
      /\ Kept(call.phone, call.kind) \/ Added(call.phone, call.kind)
      /\ call' = Nothing
      /\ UNCHANGED <<active, phone, plugged, hand, gone, before, leaky>>
  BY DEF Notify, Goes
<1>3. /\ call.phone \in 1..phone /\ call.kind \in Kinds /\ phone \in Nat
  BY <1>1, NoticesFacts DEF NoticesInv, CallerInv, Kinds, Progress
<1>4. /\ plugged = "added" => call.phone # phone
      /\ Present /\ call.phone # phone => leaky /\ told = {} /\ Waiting = {}
      /\ call.phone = phone /\ phone \in gone => told = {}
  BY <1>1 DEF NoticesInv, SawInv
<1>5. /\ QueueInv' /\ MaskInv'
      /\ owed' \subseteq Kinds /\ told' \subseteq Kinds
      /\ seen' \subseteq Kinds
  <2>1. CASE call.phone = phone /\ phone \notin gone
    <3>1. Present
      BY <1>3, <1>4, <2>1 DEF NoticesInv, PhoneInv, NoticesTypeOK, Present
    <3> QED
      BY <1>1, <1>3, <2>1, <3>1, NotifyPresent DEF Present
  <2>2. CASE call.phone # phone \/ phone \in gone
    <3>1. Present => phone \notin gone
      BY DEF NoticesInv, PhoneInv, Present
    <3>2. /\ call.phone # phone \/ call.phone \in gone
          /\ Present => leaky /\ told = {} /\ Waiting = {}
          /\ call.phone = phone => told = {}
      BY <1>4, <2>2, <3>1
    <3> QED
      BY <1>1, <1>3, <1>4, <3>2, NotifyStale
  <2> QED
    BY <2>1, <2>2
<1>6. PhoneInv' /\ ShownInv' /\ CallerInv' /\ SawInv'
  BY <1>1, PhoneSame, ShownSame, CallOver DEF NoticesInv
<1>7. NoticesTypeOK'
  <2>1. hand' \in Notice \cup {Nothing} /\ before' \subseteq Phones
        /\ NoticesTypeOK
    BY <1>1 DEF NoticesInv, NoticesTypeOK
  <2> QED
    BY <1>1, <1>5, <2>1, NoticesTypeStep
<1> QED
  BY <1>5, <1>6, <1>7 DEF NoticesInv


LEMMA DetectedStep ==
  ASSUME NoticesConstants, NoticesInv, Detected
  PROVE  NoticesInv'
<1>1. /\ plugged = "begun" /\ plugged' = "present" /\ call = Nothing
      /\ Kept(phone, "Detected") \/ Added(phone, "Detected")
      /\ UNCHANGED <<call, active, phone, hand, gone, before, leaky>>
  BY DEF Detected
<1>2. Present /\ Present' /\ call' = Nothing /\ "Detected" \in Kinds
  BY <1>1 DEF Present, Kinds
<1>3. /\ QueueInv' /\ MaskInv'
      /\ owed' \subseteq Kinds /\ told' \subseteq Kinds
      /\ seen' \subseteq Kinds
  BY <1>1, <1>2, NotifyPresent
<1>4. PhoneInv'
  BY <1>1, <1>2 DEF NoticesInv, PhoneInv
<1>5. ShownInv' /\ CallerInv' /\ SawInv'
  BY <1>1, <1>2, ShownSame, CallOver DEF NoticesInv
<1>6. NoticesTypeOK'
  <2>1. queue' \in Seq(Notice) /\ Len(queue') <= NotifyDepth
    BY <1>3 DEF QueueInv, Good
  <2> QED
    BY <1>1, <1>3, <2>1 DEF NoticesInv, NoticesTypeOK
<1> QED
  BY <1>3, <1>4, <1>5, <1>6 DEF NoticesInv

-----------------------------------------------------------------------------
(* Every step keeps it: the other steps of a call.                         *)

LEMMA ResetStep ==
  ASSUME NoticesConstants, NoticesInv, Reset
  PROVE  NoticesInv'
<1> DEFINE p == call.phone
           R == [phone : {p}, kind : Progress]
           W == KindsIn(queue, phone)
           X == KindsIn(queue', phone)
<1>1. /\ call # Nothing /\ call.op = "reset" /\ call.saw # Nothing
      /\ call.saw = p /\ call' = Nothing
      /\ seen' = seen \ Progress
      /\ queue' = Without(queue, R)
      /\ IF p = phone THEN owed' = owed \ Progress /\ told' = told \ Progress
                      ELSE UNCHANGED <<owed, told>>
      /\ UNCHANGED <<active, phone, plugged, hand, gone, before, leaky>>
  BY DEF Reset, Goes, ResetMask, WithoutProgress
<1>2. Names(R, p, Progress)
  BY NoticesOf
<1> HIDE DEF R
<1>3. /\ phone \in Nat /\ Good(queue) /\ PhonesIn(queue) \subseteq 0..phone
  BY NoticesFacts
<1>4. /\ Good(queue') /\ PhonesIn(queue') \subseteq PhonesIn(queue)
      /\ \A x : KindsIn(queue', x)
                  = KindsIn(queue, x) \ (IF x = p THEN Progress ELSE {})
  <2> DEFINE w == queue'
  <2>1. w = Without(queue, R)
    BY <1>1
  <2> HIDE DEF w
  <2>2. /\ Good(w) /\ PhonesIn(w) \subseteq PhonesIn(queue)
        /\ \A x : KindsIn(w, x)
                    = KindsIn(queue, x) \ (IF x = p THEN Progress ELSE {})
    BY <1>2, <1>3, <2>1, WithoutKinds
  <2> QED
    BY <2>2 DEF w
<1>5. X = W \ (IF phone = p THEN Progress ELSE {})
  BY <1>4
<1> HIDE DEF X, W
<1>6. QueueInv'
  BY <1>1, <1>3, <1>4 DEF QueueInv
<1>7. PhoneInv' /\ ShownInv' /\ CallerInv' /\ SawInv' /\ (Present' <=> Present)
  BY <1>1, PhoneSame, ShownSame, CallOver DEF NoticesInv
<1>8. Waiting' = X /\ Waiting = W
  BY <1>1 DEF Waiting, X, W
<1>9. /\ Present /\ p # phone => leaky /\ told = {} /\ W = {}
      /\ MaskInv
  BY <1>1, <1>8 DEF NoticesInv, SawInv
<1>10. MaskInv'
  <2>1. CASE p = phone
    <3>1. X = W \ Progress /\ owed' = owed \ Progress
          /\ told' = told \ Progress /\ seen' = seen \ Progress
      BY <1>1, <1>5, <2>1
    <3> QED
      BY <1>1, <1>4, <1>7, <1>8, <1>9, <3>1 DEF MaskInv
  <2>2. CASE p # phone
    <3>1. X = W /\ owed' = owed /\ told' = told
      BY <1>1, <1>5, <2>2
    <3> QED
      BY <1>1, <1>4, <1>7, <1>8, <1>9, <2>2, <3>1 DEF MaskInv
  <2> QED
    BY <2>1, <2>2
<1>11. NoticesTypeOK'
  <2>1. /\ hand' \in Notice \cup {Nothing} /\ before' \subseteq Phones
        /\ owed' \subseteq Kinds /\ told' \subseteq Kinds
        /\ seen' \subseteq Kinds /\ NoticesTypeOK
    BY <1>1 DEF NoticesInv, NoticesTypeOK
  <2> QED
    BY <1>1, <1>6, <2>1, NoticesTypeStep
<1> QED
  BY <1>6, <1>7, <1>10, <1>11 DEF NoticesInv

\* Notices that leave the queue leave the accounts, or count as shown.
LEMMA LoseFacts ==
  ASSUME NoticesConstants, NoticesInv, NEW e, Lose(e),
         KindsOf(e, phone) \subseteq Waiting,
         Good(queue'), PhonesIn(queue') \subseteq PhonesIn(queue) \cup {0},
         UNCHANGED <<phone, seen, leaky, plugged>>,
         \/ Waiting' = Waiting \ KindsOf(e, phone)
         \/ phone = 0 /\ Waiting' \cap Kinds = {}
  PROVE  /\ QueueInv' /\ MaskInv'
         /\ owed' \subseteq Kinds /\ told' \subseteq Kinds
<1> DEFINE z == KindsOf(e, phone) \cap Kinds
<1>1. owed' = owed \ z /\ told' = told \cup z
  BY OfFacts DEF Lose
<1>2. /\ told \subseteq Kinds /\ owed \subseteq Kinds /\ z \subseteq Kinds
  BY DEF NoticesInv, NoticesTypeOK
<1>3. /\ phone \in Nat /\ PhonesIn(queue) \subseteq 0..phone
      /\ phone # 0 => Waiting \subseteq Kinds
      /\ Present => phone # 0
  BY NoticesFacts
<1>4. PhonesIn(queue') \subseteq 0..phone
  BY <1>3
<1>5. QueueInv'
  BY <1>4 DEF QueueInv
<1>6. phone # 0 => z = KindsOf(e, phone) /\ Waiting' = Waiting \ z
  BY <1>3
<1> HIDE DEF z
<1>7. Present' <=> Present
  BY DEF Present
<1>8. plugged = "added" => phone # 0
  BY DEF NoticesInv, PhoneInv
<1>9. MaskInv
  BY DEF NoticesInv
<1>10. MaskInv'
  <2>1. CASE phone # 0
    <3>1. Waiting' = Waiting \ z /\ z \subseteq Waiting
      BY <1>6, <2>1
    <3> QED
      BY <1>1, <1>4, <1>7, <1>9, <3>1 DEF MaskInv
  <2>2. CASE phone = 0
    <3>1. told' \cap Waiting' = {} \/ Waiting' = Waiting \ KindsOf(e, phone)
      BY <1>1, <1>2, <2>2
    <3>2. told' \cap Waiting' = {}
      BY <1>1, <1>9, <3>1 DEF MaskInv, z
    <3>3. ~Present /\ plugged # "added" /\ owed = {}
      BY <1>3, <1>8, <1>9, <2>2 DEF MaskInv
    <3> QED
      BY <1>1, <1>7, <3>2, <3>3 DEF MaskInv
  <2> QED
    BY <2>1, <2>2
<1> QED
  BY <1>1, <1>2, <1>5, <1>10

LEMMA QueueNotificationStep ==
  ASSUME NoticesConstants, NoticesInv, QueueNotification
  PROVE  NoticesInv'
<1> DEFINE e == Evicted(queue)
<1>1. /\ call = Nothing /\ ~Duplicate(queue, "other")
      /\ queue' = Put(queue, 0, "other") /\ Lose(e)
      /\ UNCHANGED <<call, active, seen, phone, plugged, hand, gone, before, leaky>>
  BY DEF QueueNotification, NoPhone
<1>2. Good(queue)
  BY NoticesFacts
<1>3. [phone |-> 0, kind |-> "other"] \in Notice
  BY DEF Notice, NoPhone
<1>4. /\ Good(queue')
      /\ PhonesIn(queue') \subseteq PhonesIn(queue) \cup {0}
      /\ KindsIn(queue', 0) = (KindsIn(queue, 0) \ KindsOf(e, 0)) \cup {"other"}
      /\ \A x : x # 0 => KindsIn(queue', x) = KindsIn(queue, x) \ KindsOf(e, x)
  BY <1>1, <1>2, <1>3, PutKinds
<1>5. KindsOf(e, phone) \subseteq Waiting
  BY <1>2, EvictedFacts DEF Waiting
<1> HIDE DEF e
<1>6. \/ Waiting' = Waiting \ KindsOf(e, phone)
      \/ phone = 0 /\ Waiting' \cap Kinds = {}
  <2>1. CASE phone # 0
    BY <1>1, <1>4, <2>1 DEF Waiting
  <2>2. CASE phone = 0
    <3>1. Waiting \cap Kinds = {} /\ "other" \notin Kinds
      BY <2>2, NoticesFacts DEF Kinds
    <3>2. Waiting' = (Waiting \ KindsOf(e, 0)) \cup {"other"}
      BY <1>1, <1>4, <2>2 DEF Waiting
    <3> QED
      BY <2>2, <3>1, <3>2
  <2> QED
    BY <2>1, <2>2
<1>7. /\ QueueInv' /\ MaskInv'
      /\ owed' \subseteq Kinds /\ told' \subseteq Kinds
  BY <1>1, <1>4, <1>5, <1>6, LoseFacts
<1>8. PhoneInv' /\ ShownInv' /\ CallerInv' /\ SawInv'
  BY <1>1, PhoneSame, ShownSame, CallOver DEF NoticesInv
<1>9. NoticesTypeOK'
  <2>1. /\ hand' \in Notice \cup {Nothing} /\ before' \subseteq Phones
        /\ call' \in Call \cup {Nothing}
        /\ seen' \subseteq Kinds /\ NoticesTypeOK
    BY <1>1 DEF NoticesInv, NoticesTypeOK
  <2> QED
    BY <1>1, <1>7, <2>1, NoticesTypeStep
<1> QED
  BY <1>7, <1>8, <1>9 DEF NoticesInv

\* The call has not looked yet.
LEMMA CallBegins ==
  ASSUME call' # Nothing => call'.saw = Nothing
  PROVE  SawInv'
BY DEF SawInv

LEMMA PopTakesStep ==
  ASSUME NoticesConstants, NoticesInv, PopTakes
  PROVE  NoticesInv'
<1> DEFINE h == Head(queue)
<1>1. /\ call # Nothing /\ call.op = "pop" /\ call.saw # Nothing
      /\ h.phone \in {0, call.saw}
      /\ hand' = h /\ queue' = Tail(queue) /\ call' = Nothing /\ Lose({h})
      /\ UNCHANGED <<active, seen, phone, plugged, gone, before, leaky>>
  BY DEF PopTakes, Goes, Stale, NoPhone
<1>2. Good(queue) /\ queue # <<>> /\ call.saw \notin before
  BY <1>1, NoticesFacts DEF NoticesInv, SawInv
<1>3. /\ h \in Notice /\ Good(queue')
      /\ PhonesIn(queue') \subseteq PhonesIn(queue)
      /\ KindsIn(queue', h.phone) = KindsIn(queue, h.phone) \ {h.kind}
      /\ h.kind \in KindsIn(queue, h.phone)
      /\ \A x : x # h.phone => KindsIn(queue', x) = KindsIn(queue, x)
  BY <1>1, <1>2, TailLeaves
<1> HIDE DEF h
<1>4. KindsOf({h}, phone) \subseteq Waiting /\ Waiting' = Waiting \ KindsOf({h}, phone)
  <2>1. CASE h.phone = phone
    <3>1. KindsOf({h}, phone) = {h.kind}
      BY <2>1 DEF KindsOf
    <3> QED
      BY <1>1, <1>3, <2>1, <3>1 DEF Waiting
  <2>2. CASE h.phone # phone
    <3>1. KindsOf({h}, phone) = {}
      BY <2>2 DEF KindsOf
    <3> QED
      BY <1>1, <1>3, <2>2, <3>1 DEF Waiting
  <2> QED
    BY <2>1, <2>2
<1>5. /\ QueueInv' /\ MaskInv'
      /\ owed' \subseteq Kinds /\ told' \subseteq Kinds
  BY <1>1, <1>3, <1>4, LoseFacts
<1>6. ShownInv'
  <2>1. 0 \notin before /\ before \subseteq gone
    BY NoticesFacts DEF NoticesInv, ShownInv, PhoneInv
  <2> QED
    BY <1>1, <1>2, <2>1 DEF ShownInv, NothingOfTheDeparted
<1>7. PhoneInv' /\ CallerInv' /\ SawInv'
  BY <1>1, PhoneSame, CallOver DEF NoticesInv
<1>8. NoticesTypeOK'
  <2>1. /\ before' \subseteq Phones
        /\ seen' \subseteq Kinds /\ NoticesTypeOK
    BY <1>1 DEF NoticesInv, NoticesTypeOK
  <2> QED
    BY <1>1, <1>3, <1>5, <2>1, NoticesTypeStep
<1> QED
  BY <1>5, <1>6, <1>7, <1>8 DEF NoticesInv

LEMMA PopDropsStep ==
  ASSUME NoticesConstants, NoticesInv, PopDrops
  PROVE  NoticesInv'
<1> DEFINE h == Head(queue)
<1>1. /\ call # Nothing /\ call.op = "pop" /\ call.saw # Nothing
      /\ h.phone \notin {0, call.saw}
      /\ queue' = Tail(queue) /\ call' = [call EXCEPT !.saw = Nothing]
      /\ UNCHANGED <<active, seen, phone, plugged, hand, owed, told, gone,
                     before, leaky>>
  BY DEF PopDrops, Goes, Stale, NoPhone
<1>2. Good(queue) /\ queue # <<>> /\ phone \in Nat /\ PhonesIn(queue) \subseteq 0..phone
  BY <1>1, NoticesFacts DEF NoticesInv, SawInv
<1>3. /\ Good(queue')
      /\ PhonesIn(queue') \subseteq PhonesIn(queue)
      /\ KindsIn(queue', h.phone) = KindsIn(queue, h.phone) \ {h.kind}
      /\ h.kind \in KindsIn(queue, h.phone)
      /\ \A x : x # h.phone => KindsIn(queue', x) = KindsIn(queue, x)
  BY <1>1, <1>2, TailLeaves
<1> HIDE DEF h
<1>4. /\ Waiting' \subseteq Waiting
      /\ h.phone # phone => Waiting' = Waiting
      /\ h.phone = phone => Waiting # {}
  BY <1>1, <1>3 DEF Waiting
<1>5. Present /\ h.phone = phone => FALSE
  BY <1>1, <1>4 DEF NoticesInv, SawInv
<1>6. QueueInv'
  BY <1>1, <1>2, <1>3 DEF QueueInv
<1>7. PhoneInv' /\ ShownInv' /\ (Present' <=> Present)
  BY <1>1, PhoneSame, ShownSame DEF NoticesInv
<1>8. MaskInv'
  BY <1>1, <1>3, <1>4, <1>5, <1>7 DEF NoticesInv, MaskInv
<1>9. call' \in Call /\ call'.saw = Nothing /\ call'.phone = call.phone
      /\ call'.op = call.op /\ call'.kind = call.kind
  BY <1>1, CallFacts DEF Call
<1>10. CallerInv' /\ SawInv'
  BY <1>1, <1>9, CallBegins DEF NoticesInv, CallerInv
<1>11. NoticesTypeOK'
  <2>1. /\ hand' \in Notice \cup {Nothing} /\ before' \subseteq Phones
        /\ owed' \subseteq Kinds /\ told' \subseteq Kinds
        /\ seen' \subseteq Kinds /\ NoticesTypeOK
    BY <1>1 DEF NoticesInv, NoticesTypeOK
  <2> QED
    BY <1>1, <1>6, <1>9, <2>1, NoticesTypeStep
<1> QED
  BY <1>6, <1>7, <1>8, <1>10, <1>11 DEF NoticesInv


\* The queue and what is accounted of it are left alone.
QueueSame == UNCHANGED <<seen, queue, phone, owed, told, leaky>>

LEMMA MaskSame ==
  ASSUME NoticesInv, QueueSame, Present' <=> Present, plugged' = "added" => plugged = "added"
  PROVE  QueueInv' /\ MaskInv'
BY DEF NoticesInv, QueueInv, MaskInv, QueueSame, Waiting

\* A call begins, for a phone that was plugged in.
LEMMA CallsStep ==
  ASSUME NoticesConstants, NoticesInv,
         NEW op \in {"notify", "reset", "pop"}, NEW p \in 0..phone,
         NEW k \in Kinds \cup {"other"}, Calls(op, p, k),
         op = "notify" => k \in Progress,
         op \in {"notify", "reset"} => p # 0,
         \/ UNCHANGED before
         \/ hand = Nothing /\ before' = gone
  PROVE  NoticesInv'
<1>1. /\ call' = [op |-> op, phone |-> p, kind |-> k, saw |-> Nothing]
      /\ UNCHANGED <<active, seen, queue, phone, plugged, hand, owed, told, gone,
                     leaky>>
  BY DEF Calls
<1>2. /\ call'.op = op /\ call'.phone = p /\ call'.kind = k /\ call'.saw = Nothing
  BY <1>1
<1>3. phone \in Nat /\ phone <= MaxPhones /\ MaxPhones \in Nat
  BY NoticesFacts
<1>4. call' \in Call
  BY <1>1, <1>3 DEF Call
<1>5. PhoneInv' /\ (Present' <=> Present)
  BY <1>1, PhoneSame DEF NoticesInv
<1>6. QueueInv' /\ MaskInv'
  BY <1>1, <1>5, MaskSame DEF QueueSame
<1>7. ShownInv'
  BY <1>1 DEF NoticesInv, ShownInv, NothingOfTheDeparted
<1>8. SawInv'
  BY <1>2, CallBegins
<1>9. CallerInv'
  BY <1>1, <1>2 DEF CallerInv
<1>10. NoticesTypeOK'
  BY <1>1, <1>4 DEF NoticesInv, NoticesTypeOK
<1> QED
  BY <1>5, <1>6, <1>7, <1>8, <1>9, <1>10 DEF NoticesInv

LEMMA CallSteps ==
  ASSUME NoticesConstants, NoticesInv,
         CallNotify \/ CallReset \/ CallPop
  PROVE  NoticesInv'
<1>1. phone \in Nat
  BY NoticesFacts
<1>2. CASE CallNotify
  <2>1. PICK p \in 1..phone, k \in Progress : Calls("notify", p, k)
    BY <1>2 DEF CallNotify
  <2>2. UNCHANGED before /\ p \in 0..phone /\ p # 0 /\ k \in Kinds \cup {"other"}
    BY <1>1, <1>2 DEF CallNotify, Kinds, Progress
  <2> QED
    BY <2>1, <2>2, CallsStep
<1>3. CASE CallReset
  <2>1. PICK p \in 1..phone : Calls("reset", p, "other")
    BY <1>3 DEF CallReset
  <2>2. UNCHANGED before /\ p \in 0..phone /\ p # 0
    BY <1>1, <1>3 DEF CallReset
  <2> QED
    BY <2>1, <2>2, CallsStep
<1>4. CASE CallPop
  <2>1. Calls("pop", 0, "other") /\ hand = Nothing /\ before' = gone /\ 0 \in 0..phone
    BY <1>1, <1>4 DEF CallPop
  <2> QED
    BY <2>1, CallsStep
<1> QED
  BY <1>2, <1>3, <1>4

LEMMA LooksStep ==
  ASSUME NoticesConstants, NoticesInv, Looks
  PROVE  NoticesInv'
<1>1. /\ call # Nothing /\ call.op = "pop" => queue # <<>>
      /\ call' = [call EXCEPT !.saw = active]
      /\ UNCHANGED <<active, seen, queue, phone, plugged, hand, owed, told, gone,
                     before, leaky>>
  BY DEF Looks
<1>2. call # Nothing
  BY DEF Looks
<1>3. /\ phone \in Nat /\ phone <= MaxPhones /\ MaxPhones \in Nat
      /\ Present => phone # 0
  BY NoticesFacts
<1>4. /\ active = IF Present THEN phone ELSE 0
      /\ plugged = "added" => phone # 0
      /\ Present => phone \notin gone
      /\ 0 \notin gone /\ before \subseteq gone
  BY <1>3 DEF NoticesInv, PhoneInv, ShownInv, Present
<1>5. call \in Call /\ active \in 0..phone
  BY <1>2, <1>3, <1>4, CallFacts
<1>6. /\ call' \in Call /\ call'.saw = active /\ call'.phone = call.phone
      /\ call'.op = call.op /\ call'.kind = call.kind
  BY <1>1, <1>3, <1>5 DEF Call
<1>7. PhoneInv' /\ ShownInv' /\ (Present' <=> Present)
  BY <1>1, PhoneSame, ShownSame DEF NoticesInv
<1>8. QueueInv' /\ MaskInv'
  BY <1>1, <1>7, MaskSame DEF QueueSame
<1>9. CallerInv'
  BY <1>1, <1>2, <1>5, <1>6 DEF NoticesInv, CallerInv
<1>10. SawInv'
  <2>1. /\ plugged = "added" => active # phone
        /\ Present => active = phone
        /\ active \notin before
        /\ ~(active = phone /\ phone \in gone)
    BY <1>3, <1>4 DEF Present
  <2>2. call'.op = "pop" => queue' # <<>>
    BY <1>1, <1>6 DEF Looks
  <2> QED
    BY <1>1, <1>6, <1>7, <2>1, <2>2 DEF SawInv
<1>11. NoticesTypeOK'
  BY <1>1, <1>6 DEF NoticesInv, NoticesTypeOK
<1> QED
  BY <1>7, <1>8, <1>9, <1>10, <1>11 DEF NoticesInv

\* Ignored, PopEnds and Show.
LEMMA OverSteps ==
  ASSUME NoticesConstants, NoticesInv,
         Ignored \/ PopEnds \/ Show
  PROVE  NoticesInv'
<1>1. /\ UNCHANGED <<active, seen, queue, phone, plugged, owed, told, gone, leaky>>
      /\ \/ call' = Nothing /\ hand' = hand /\ before' \in {before, {}}
         \/ call' = call /\ hand' = Nothing /\ before' = {}
  BY DEF Ignored, PopEnds, Show
<1>2. PhoneInv' /\ (Present' <=> Present)
  BY <1>1, PhoneSame DEF NoticesInv
<1>3. QueueInv' /\ MaskInv'
  BY <1>1, <1>2, MaskSame DEF QueueSame
<1>4. ShownInv'
  BY <1>1 DEF NoticesInv, ShownInv, NothingOfTheDeparted
<1>5. CallerInv' /\ SawInv'
  <2>1. CASE call' = Nothing
    BY <2>1, CallOver
  <2>2. CASE call' = call /\ before' = {}
    BY <1>1, <1>2, <2>2 DEF NoticesInv, CallerInv, SawInv, Waiting
  <2> QED
    BY <1>1, <2>1, <2>2
<1>6. NoticesTypeOK'
  BY <1>1 DEF NoticesInv, NoticesTypeOK
<1> QED
  BY <1>2, <1>3, <1>4, <1>5, <1>6 DEF NoticesInv


-----------------------------------------------------------------------------
(* Every step keeps it: the USB thread.                                    *)

LEMMA NoKinds ==
  ASSUME NEW q \in Seq(Notice), NEW x, x \notin PhonesIn(q)
  PROVE  KindsIn(q, x) = {}
<1>1. \A k : k \notin KindsIn(q, x)
  BY KindsInFacts
<1> QED
  BY <1>1

LEMMA AddStep ==
  ASSUME NoticesConstants, NoticesInv, Add
  PROVE  NoticesInv'
<1>1. /\ plugged = "absent" /\ phone < MaxPhones
      /\ phone' = phone + 1 /\ plugged' = "added"
      /\ UNCHANGED <<call, active, seen, queue, hand, owed, told, gone, before, leaky>>
  BY DEF Add
<1>2. /\ phone \in Nat /\ MaxPhones \in Nat /\ Nothing \notin 0..MaxPhones
      /\ Good(queue) /\ PhonesIn(queue) \subseteq 0..phone
  BY NoticesFacts
<1>3. PhoneInv' /\ ~Present /\ ~Present'
  BY <1>1, <1>2 DEF NoticesInv, PhoneInv, Present
<1>4. QueueInv'
  BY <1>1, <1>2 DEF QueueInv
<1>5. Waiting' = {}
  <2>1. queue \in Seq(Notice) /\ phone + 1 \notin PhonesIn(queue)
    BY <1>2 DEF Good
  <2> QED
    BY <1>1, <2>1, NoKinds DEF Waiting
<1>6. MaskInv'
  BY <1>1, <1>3, <1>5 DEF NoticesInv, MaskInv
<1>7. CallerInv'
  <2> SUFFICES ASSUME call # Nothing
               PROVE  CallerInv'
    BY <1>1 DEF CallerInv
  <2>1. call.phone \in 0..phone /\ call.saw \in 0..phone \cup {Nothing}
    BY CallFacts
  <2>2. call.phone \in 0..(phone + 1) /\ call.saw \in 0..(phone + 1) \cup {Nothing}
    BY <1>2, <2>1
  <2> QED
    BY <1>1, <2>2 DEF NoticesInv, CallerInv
<1>8. SawInv'
  <2> SUFFICES ASSUME call # Nothing, call.saw # Nothing
               PROVE  SawInv'
    BY <1>1 DEF SawInv
  <2>1. call.saw # phone + 1
    BY <1>2, CallFacts
  <2> QED
    BY <1>1, <1>3, <2>1 DEF NoticesInv, SawInv
<1>9. ShownInv'
  BY <1>1, ShownSame DEF NoticesInv
<1>10. NoticesTypeOK'
  <2>1. phone' \in 0..MaxPhones
    BY <1>1, <1>2
  <2> QED
    BY <1>1, <2>1 DEF NoticesInv, NoticesTypeOK
<1> QED
  BY <1>3, <1>4, <1>6, <1>7, <1>8, <1>9, <1>10 DEF NoticesInv

LEMMA BeginSteps ==
  ASSUME NoticesConstants, NoticesInv, Begin \/ BeginGivesUp
  PROVE  NoticesInv'
<1>1. /\ phone \in Nat /\ phone <= MaxPhones /\ MaxPhones \in Nat
      /\ Good(queue) /\ PhonesIn(queue) \subseteq 0..phone
  BY NoticesFacts
<1>2. /\ plugged = "added" /\ plugged' = "begun" /\ active' = phone
      /\ owed' = {} /\ told' = {}
      /\ UNCHANGED <<call, phone, hand, gone, before>>
  BY DEF Begin, BeginGivesUp
<1>3. active = 0 /\ phone # 0 /\ Waiting = {} /\ ~Present /\ Present'
  BY <1>2 DEF NoticesInv, PhoneInv, MaskInv, Present
<1>4. PhoneInv'
  BY <1>2, <1>3 DEF NoticesInv, PhoneInv, Present
<1>5. CallerInv' /\ ShownInv'
  BY <1>2, ShownSame DEF NoticesInv, CallerInv
<1>6. CASE Begin
  <2>1. /\ call = Nothing /\ queue' = queue /\ seen' = {}
        /\ leaky' = \E i \in DOMAIN queue' : queue'[i].phone # 0
    BY <1>3, <1>6 DEF Begin, NoPhone
  <2>2. ~leaky' => PhonesIn(queue') \subseteq {0, phone}
    BY <2>1 DEF PhonesIn
  <2>3. QueueInv' /\ Waiting' = {}
    BY <1>1, <1>2, <1>3, <2>1 DEF QueueInv, Waiting
  <2>4. MaskInv'
    BY <1>2, <1>3, <2>1, <2>2, <2>3 DEF MaskInv
  <2>5. SawInv'
    BY <1>2, <2>1 DEF SawInv
  <2>6. NoticesTypeOK'
    <3>1. active' \in 0..MaxPhones /\ leaky' \in BOOLEAN
      BY <1>1, <1>2, <2>1
    <3> QED
      BY <1>2, <2>1, <3>1 DEF NoticesInv, NoticesTypeOK
  <2> QED
    BY <1>4, <1>5, <2>3, <2>4, <2>5, <2>6 DEF NoticesInv
<1>7. CASE BeginGivesUp
  <2>1. UNCHANGED <<seen, queue>> /\ leaky' = TRUE
    BY <1>7 DEF BeginGivesUp
  <2>2. QueueInv' /\ Waiting' = {}
    BY <1>1, <1>2, <1>3, <2>1 DEF QueueInv, Waiting
  <2>3. MaskInv'
    BY <1>2, <1>3, <2>1, <2>2 DEF MaskInv
  <2>4. SawInv'
    BY <1>2, <2>1, <2>2 DEF NoticesInv, SawInv
  <2>5. NoticesTypeOK'
    <3>1. active' \in 0..MaxPhones
      BY <1>1, <1>2
    <3> QED
      BY <1>2, <2>1, <3>1 DEF NoticesInv, NoticesTypeOK
  <2> QED
    BY <1>4, <1>5, <2>2, <2>3, <2>4, <2>5 DEF NoticesInv
<1> QED
  BY <1>6, <1>7

\* DetectedGivesUp, Remove and Removed.
LEMMA PluggedSteps ==
  ASSUME NoticesConstants, NoticesInv,
         DetectedGivesUp \/ Remove \/ Removed
  PROVE  NoticesInv'
<1>1. /\ UNCHANGED <<call, active, seen, queue, phone, hand, owed, told, gone,
                     before, leaky>>
      /\ \/ plugged = "begun" /\ plugged' = "present"
         \/ plugged = "present" /\ plugged' = "removed"
         \/ plugged = "ended" /\ plugged' = "absent"
  BY DEF DetectedGivesUp, Remove, Removed
<1>2. (Present' <=> Present) /\ plugged' # "added"
  BY <1>1 DEF Present
<1>3. PhoneInv'
  BY <1>1, <1>2 DEF NoticesInv, PhoneInv
<1>4. QueueInv' /\ MaskInv'
  BY <1>1, <1>2, MaskSame DEF QueueSame
<1>5. CallerInv' /\ ShownInv'
  BY <1>1, ShownSame DEF NoticesInv, CallerInv
<1>6. SawInv'
  BY <1>1, <1>2 DEF NoticesInv, SawInv, Waiting
<1>7. NoticesTypeOK'
  BY <1>1 DEF NoticesInv, NoticesTypeOK
<1> QED
  BY <1>3, <1>4, <1>5, <1>6, <1>7 DEF NoticesInv

LEMMA EndSteps ==
  ASSUME NoticesConstants, NoticesInv, End \/ EndGivesUp
  PROVE  NoticesInv'
<1>1. /\ phone \in Nat /\ phone <= MaxPhones /\ MaxPhones \in Nat
      /\ Good(queue) /\ PhonesIn(queue) \subseteq 0..phone
  BY NoticesFacts
<1>2. /\ plugged = "removed" /\ plugged' = "ended"
      /\ owed' = {} /\ told' = {} /\ gone' = gone \cup {phone}
      /\ UNCHANGED <<call, phone, hand, before, leaky>>
  BY DEF End, EndGivesUp
<1>3. active = phone /\ phone # 0 /\ gone \subseteq 1..phone /\ ~Present'
  BY <1>2 DEF NoticesInv, PhoneInv, Present
<1>4. active' = 0 /\ seen' \subseteq seen
  BY <1>2, <1>3 DEF End, EndGivesUp
<1>5. PhoneInv'
  BY <1>1, <1>2, <1>3, <1>4 DEF PhoneInv
<1>6. Good(queue') /\ PhonesIn(queue') \subseteq PhonesIn(queue)
  <2>1. CASE End
    <3> DEFINE R == [phone : {phone}, kind : Kinds]
               w == queue'
    <3>1. w = Without(queue, R)
      BY <2>1 DEF End, WithoutPhone
    <3>2. Names(R, phone, Kinds)
      BY NoticesOf
    <3> HIDE DEF R, w
    <3>3. Good(w) /\ PhonesIn(w) \subseteq PhonesIn(queue)
      BY <1>1, <3>1, <3>2, WithoutKinds
    <3> QED
      BY <3>3 DEF w
  <2>2. CASE EndGivesUp
    BY <1>1, <2>2 DEF EndGivesUp
  <2> QED
    BY <2>1, <2>2
<1>7. QueueInv'
  BY <1>1, <1>2, <1>6 DEF QueueInv
<1>8. MaskInv'
  BY <1>2, <1>3 DEF MaskInv
<1>9. CallerInv'
  BY <1>2 DEF NoticesInv, CallerInv
<1>10. ShownInv'
  BY <1>2 DEF NoticesInv, ShownInv, NothingOfTheDeparted
<1>11. SawInv'
  <2>1. call = Nothing \/ queue' = queue
    BY DEF End, EndGivesUp
  <2> QED
    BY <1>2, <1>3, <2>1 DEF NoticesInv, SawInv
<1>12. NoticesTypeOK'
  <2>1. /\ queue' \in Seq(Notice) /\ Len(queue') <= NotifyDepth
        /\ active' \in 0..MaxPhones
    BY <1>1, <1>4, <1>6 DEF Good
  <2>2. gone' \subseteq Phones
    BY <1>1, <1>2, <1>3 DEF Phones
  <2> QED
    BY <1>2, <1>4, <2>1, <2>2 DEF NoticesInv, NoticesTypeOK
<1> QED
  BY <1>5, <1>7, <1>8, <1>9, <1>10, <1>11, <1>12 DEF NoticesInv

LEMMA NoticesSame ==
  ASSUME NoticesInv, UNCHANGED noticesVars
  PROVE  NoticesInv'
<1>1. UNCHANGED <<call, active, seen, queue, phone, plugged, hand, owed, told, gone,
                  before, leaky>>
  BY DEF noticesVars
<1>2. PhoneInv' /\ ShownInv' /\ (Present' <=> Present)
  BY <1>1, PhoneSame, ShownSame DEF NoticesInv
<1>3. QueueInv' /\ MaskInv'
  BY <1>1, <1>2, MaskSame DEF QueueSame
<1>4. CallerInv' /\ SawInv'
  BY <1>1, <1>2 DEF NoticesInv, CallerInv, SawInv, Waiting
<1>5. NoticesTypeOK'
  BY <1>1 DEF NoticesInv, NoticesTypeOK
<1> QED
  BY <1>2, <1>3, <1>4, <1>5 DEF NoticesInv

LEMMA NoticesKept ==
  ASSUME NoticesConstants, NoticesInv, [NoticesNext]_noticesVars
  PROVE  NoticesInv'
<1>1. CASE CallNotify \/ CallReset \/ CallPop
  BY <1>1, CallSteps
<1>2. CASE QueueNotification
  BY <1>2, QueueNotificationStep
<1>3. CASE Work
  BY <1>3, LooksStep, OverSteps, ResetStep, NotifyStep, PopDropsStep, PopTakesStep
     DEF Work
<1>4. CASE Show
  BY <1>4, OverSteps
<1>5. CASE Add \/ Begin \/ BeginGivesUp \/ Detected
           \/ DetectedGivesUp
  BY <1>5, AddStep, BeginSteps, DetectedStep, PluggedSteps
<1>6. CASE Remove \/ End \/ EndGivesUp \/ Removed
  BY <1>6, PluggedSteps, EndSteps
<1>7. CASE UNCHANGED noticesVars
  BY <1>7, NoticesSame
<1> QED
  BY <1>1, <1>2, <1>3, <1>4, <1>5, <1>6, <1>7 DEF NoticesNext

\* The inductive invariant of the notifications of diag.cpp, whichever threads
\* call them and whichever calls do not get the lock.
THEOREM NoticesInvariant == NoticesSpec => []NoticesInv
<1>1. NoticesInit => NoticesInv
  BY NoticesInitially, NoticesAssumption
<1>2. NoticesInv /\ [NoticesNext]_noticesVars => NoticesInv'
  BY NoticesKept, NoticesAssumption
<1> QED
  BY <1>1, <1>2, PTL DEF NoticesSpec

\* Notices keeps its variables in their types, for any number of phones and any
\* depth of the queue: which is never longer than the slots it has.
THEOREM NoticesTypes == NoticesSpec => []NoticesTypeOK
<1>1. NoticesInv => NoticesTypeOK
  BY DEF NoticesInv
<1> QED
  BY <1>1, NoticesInvariant, PTL

\* A notice that NotifyPhone took is queued until it is shown, whichever threads
\* notify, reset, evict and pop, and whichever calls do not get the lock; unless
\* Begin gave up or found notices of a phone before.
THEOREM NoticesReach == NoticesSpec => []NoticeReachesUser
<1>1. NoticesInv => NoticeReachesUser
  BY NoticesProperties, NoticesAssumption
<1> QED
  BY <1>1, NoticesInvariant, PTL

\* The queue has no notice twice, nor one that was shown since the last reset,
\* nor "the data path works" behind its opposite.
THEOREM NoticesGivenOnce == NoticesSpec => []GivenOnce
<1>1. NoticesInv => GivenOnce
  BY NoticesProperties, NoticesAssumption
<1> QED
  BY <1>1, NoticesInvariant, PTL

\* What the logger shows is not of a phone that had gone before it began to pop,
\* although End may not have got the lock that it needs to empty the queue.
THEOREM DepartedAreSilent == NoticesSpec => []NothingOfTheDeparted
<1>1. NoticesInv => NothingOfTheDeparted
  BY NoticesProperties, NoticesAssumption
<1> QED
  BY <1>1, NoticesInvariant, PTL
=============================================================================
