----------------------------- MODULE BootTrace -----------------------------
(***************************************************************************)
(* The boot trace (early_trace.cpp).  Checkpoints are flushed, one by one, *)
(* to an emergency file on the hard disk, and kept in memory, until the    *)
(* application's directory is known; then Boot.log is opened, the kept     *)
(* checkpoints are replayed into it, and it takes over.                    *)
(*                                                                         *)
(* All of it runs under gLock.  What makes it hard are the failures: every *)
(* file operation may fail on either side of the handoff, a call may not   *)
(* get the lock in its 100000 attempts, and the console may be switched    *)
(* off, or hang, between any two operations, whereupon what was written    *)
(* and not flushed may be lost and the Core starts again on the same files.*)
(***************************************************************************)
EXTENDS Naturals, Sequences

CONSTANTS
  ReplayLines,  \* checkpoints that gReplay holds, 8192 bytes in the code
  MaxLines,     \* bound: checkpoints
  MaxSessions   \* bound: starts of the Core

ASSUME TraceAssumption ==
  ReplayLines \in Nat /\ MaxLines \in Nat /\ MaxSessions \in Nat \ {0}

Files == {"emergency", "normal"}
Lines == 1..MaxLines
Mark  == 0      \* a line that only tells of the handoff

VARIABLES
  disk,      \* what was written to each file
  safe,      \* how much of it is flushed
  open,      \* gEmergencyFile and gNormalFile are open
  normalReady, persistentReady,  \* gNormalReady, gPersistentReady
  replay,    \* gReplay
  overflow,  \* gReplayOverflow
  job,       \* what the thread that has gLock is writing, and where to
  booted,    \* ConfigureApplicationPaths has returned: there are threads now
  lines,     \* checkpoints so far
  sessions,  \* starts of the Core
  reported,  \* history: checkpoints reported as persistent
  early      \* history: checkpoints of this session before the handoff

vars == <<disk, safe, open, normalReady, persistentReady, replay, overflow, job,
          booted, lines, sessions, reported, early>>

\* A job writes chunks to a file, each with a flush behind it.
None == [op |-> "none", file |-> "emergency", at |-> "write", chunks |-> <<>>]
Job(op, file, chunks) ==
  [op |-> op, file |-> file, at |-> "write", chunks |-> chunks]

TypeOK ==
  /\ disk \in [Files -> Seq(Lines \cup {Mark})]
  /\ safe \in [Files -> Nat] /\ \A f \in Files : safe[f] <= Len(disk[f])
  /\ open \subseteq Files
  /\ normalReady \in BOOLEAN /\ persistentReady \in BOOLEAN
  /\ replay \in Seq(Lines) /\ Len(replay) <= ReplayLines /\ overflow \in BOOLEAN
  /\ job \in [op : {"none", "line", "replay", "handoff"}, file : Files,
              at : {"write", "flush"}, chunks : Seq(Seq(Lines \cup {Mark}))]
  /\ booted \in BOOLEAN
  /\ lines \in 0..MaxLines /\ sessions \in 1..MaxSessions
  /\ reported \subseteq Lines /\ early \in Seq(Lines)

\* The words of a Core that was just loaded.
Fresh ==
  /\ open' = {} /\ normalReady' = FALSE /\ persistentReady' = FALSE
  /\ replay' = <<>> /\ overflow' = FALSE /\ job' = None /\ booted' = FALSE
  /\ early' = <<>>

Init ==
  /\ disk = [f \in Files |-> <<>>] /\ safe = [f \in Files |-> 0]
  /\ open = {} /\ normalReady = FALSE /\ persistentReady = FALSE
  /\ replay = <<>> /\ overflow = FALSE /\ job = None /\ booted = FALSE
  /\ lines = 0 /\ sessions = 1 /\ reported = {} /\ early = <<>>

-----------------------------------------------------------------------------
(* Persist.                                                                *)

\* Mutant of Captured: a checkpoint is kept only if it can also be written.
CapturedIfOpen(l) ==
  IF "emergency" \notin open THEN UNCHANGED <<replay, overflow>>
  ELSE IF overflow \/ Len(replay) = ReplayLines
       THEN overflow' = TRUE /\ UNCHANGED replay
       ELSE replay' = Append(replay, l) /\ UNCHANGED overflow

\* CaptureReplay: once a checkpoint did not fit, none is kept.
Captured(l) ==
  IF overflow \/ Len(replay) = ReplayLines
  THEN overflow' = TRUE /\ UNCHANGED replay
  ELSE replay' = Append(replay, l) /\ UNCHANGED overflow

Checkpoint == lines < MaxLines /\ lines' = lines + 1

\* Persist, with the lock: the file in use is chosen.
Persist(normal) == Checkpoint /\ job = None /\ normalReady = normal

\* NativeOpenAppend.
Opened(file) == open' = open \cup {file}

\* The lock is not free in time: the checkpoint is lost.
NoLock ==
  /\ Checkpoint /\ booted /\ job # None
  /\ UNCHANGED <<disk, safe, open, normalReady, persistentReady, replay,
                 overflow, job, booted, sessions, reported, early>>

\* The line goes to the emergency file, which is opened when it is not open.
PersistEmergency(opens) ==
  /\ Persist(FALSE)
  /\ Captured(lines') /\ early' = Append(early, lines')
  /\ IF "emergency" \in open \/ opens
     THEN /\ job' = Job("line", "emergency", << <<lines'>> >>)
          /\ Opened("emergency")
          /\ persistentReady' = (persistentReady \/ "emergency" \notin open)
     ELSE UNCHANGED <<job, open, persistentReady>>
  /\ UNCHANGED <<disk, safe, normalReady, booted, sessions, reported>>

\* Boot.log is open while it is in use.
PersistNormal ==
  /\ Persist(TRUE)
  /\ job' = Job("line", "normal", << <<lines'>> >>)
  /\ UNCHANGED <<disk, safe, open, normalReady, persistentReady, replay,
                 overflow, booted, sessions, reported, early>>

-----------------------------------------------------------------------------
(* ConfigureApplicationPaths, before there is a second thread.             *)

\* The directory is not found, or Boot.log cannot be opened.
ConfigureFails ==
  /\ ~booted /\ job = None
  /\ booted' = TRUE
  /\ UNCHANGED <<disk, safe, open, normalReady, persistentReady, replay,
                 overflow, job, lines, sessions, reported, early>>

Replayed == << <<Mark>> >>
            \o (IF replay = <<>> THEN <<>> ELSE <<replay>>)
            \o (IF overflow THEN << <<Mark>> >> ELSE <<>>)
            \o << <<Mark>>, <<Mark>> >>

Configure ==
  /\ ~booted /\ job = None
  /\ Opened("normal")
  /\ job' = Job("replay", "normal", Replayed)
  /\ UNCHANGED <<disk, safe, normalReady, persistentReady, replay, overflow,
                 booted, lines, sessions, reported, early>>

-----------------------------------------------------------------------------
(* PersistHandleUnlocked.                                                  *)

Grown(chunk) == [disk EXCEPT ![job.file] = @ \o chunk]

Write ==
  /\ job # None /\ job.at = "write"
  /\ disk' = Grown(Head(job.chunks)) /\ job' = [job EXCEPT !.at = "flush"]
  /\ UNCHANGED <<safe, open, normalReady, persistentReady, replay, overflow,
                 booted, lines, sessions, reported, early>>

\* What follows when everything is written.
LineDone ==
  /\ job' = None
  /\ reported' = reported \cup {Head(Head(job.chunks))}
  /\ UNCHANGED <<open, normalReady, persistentReady, booted>>

\* Boot.log takes over, and the emergency file is closed.
HandedOff ==
  /\ job' = None /\ booted' = TRUE
  /\ open' = open \ {"emergency"}
  /\ normalReady' = TRUE /\ persistentReady' = TRUE
  /\ UNCHANGED reported

\* Its last line tells where the trace goes on.
ReplayDone ==
  IF "emergency" \in open
  THEN /\ job' = Job("handoff", "emergency", << <<Mark>> >>)
       /\ UNCHANGED <<open, normalReady, persistentReady, booted, reported>>
  ELSE HandedOff

Done == CASE job.op = "line"    -> LineDone
          [] job.op = "replay"  -> ReplayDone
          [] job.op = "handoff" -> HandedOff

\* Mutant of Flush: the flush is left out.
FlushNothing ==
  /\ job # None /\ job.at = "flush"
  /\ IF Len(job.chunks) > 1
     THEN /\ job' = Job(job.op, job.file, Tail(job.chunks))
          /\ UNCHANGED <<open, normalReady, persistentReady, booted, reported>>
     ELSE Done
  /\ UNCHANGED <<disk, safe, replay, overflow, lines, sessions, early>>

Flush ==
  /\ job # None /\ job.at = "flush"
  /\ safe' = [safe EXCEPT ![job.file] = Len(disk[job.file])]
  /\ IF Len(job.chunks) > 1
     THEN /\ job' = Job(job.op, job.file, Tail(job.chunks))
          /\ UNCHANGED <<open, normalReady, persistentReady, booted, reported>>
     ELSE Done
  /\ UNCHANGED <<disk, replay, overflow, lines, sessions, early>>

\* The file is closed; only the emergency file is opened again, for the next
\* checkpoint.
LineFails ==
  /\ job' = None
  /\ open' = open \ {job.file}
  /\ normalReady' = (normalReady /\ job.file # "normal")
  /\ persistentReady' = (persistentReady /\ open' # {})
  /\ UNCHANGED booted

\* The emergency file stays in use.
ReplayFails ==
  /\ job' = None /\ booted' = TRUE
  /\ open' = open \ {"normal"}
  /\ UNCHANGED <<normalReady, persistentReady>>

\* A write or a flush fails; a write may have written some of it.
Fail ==
  /\ job # None
  /\ IF job.at = "write"
     THEN \E n \in 0..Len(Head(job.chunks)) :
            disk' = Grown(SubSeq(Head(job.chunks), 1, n))
     ELSE UNCHANGED disk
  /\ CASE job.op = "line"    -> LineFails /\ UNCHANGED reported
       [] job.op = "replay"  -> ReplayFails /\ UNCHANGED reported
       [] job.op = "handoff" -> HandedOff
  /\ UNCHANGED <<safe, replay, overflow, lines, sessions, early>>

-----------------------------------------------------------------------------
\* The console is switched off and on again.
PowerCut ==
  /\ sessions < MaxSessions /\ sessions' = sessions + 1
  /\ \E e \in safe["emergency"]..Len(disk["emergency"]),
        n \in safe["normal"]..Len(disk["normal"]) :
       /\ safe' = [f \in Files |-> IF f = "emergency" THEN e ELSE n]
       /\ disk' = [f \in Files |-> SubSeq(disk[f], 1, safe'[f])]
  /\ Fresh
  /\ UNCHANGED <<lines, reported>>

Next ==
  \/ NoLock \/ PersistNormal \/ \E opens \in BOOLEAN : PersistEmergency(opens)
  \/ Configure \/ ConfigureFails
  \/ Write \/ Flush \/ Fail
  \/ PowerCut

Spec == Init /\ [][Next]_vars

-----------------------------------------------------------------------------
(* Properties.                                                             *)

Durable(f) == SubSeq(disk[f], 1, safe[f])
LinesOf(s) == {s[i] : i \in DOMAIN s}

\* A checkpoint reported as persistent is on the disk, in one of the files,
\* wherever the console stops and whatever fails: what the trace is for.
ReportedSurvives == reported \subseteq UNION {LinesOf(Durable(f)) : f \in Files}

\* "A successful handoff produces a self-contained app-local Boot.log": it has all
\* checkpoints before the handoff, in order and flushed, those included that the
\* emergency file could not take.  A full buffer is the exception, and said so.
SelfContained ==
  normalReady /\ ~overflow =>
    \E i \in 0..(Len(Durable("normal")) - Len(early)) :
      SubSeq(Durable("normal"), i + 1, i + Len(early)) = early

\* gPersistentReady is up exactly while the file in use is open, through every
\* failure: each boot reports it.
ReadyIsTrue ==
  persistentReady <=> (IF normalReady THEN "normal" ELSE "emergency") \in open
=============================================================================
