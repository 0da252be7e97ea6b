-------------------------- MODULE LicenceAttempts ---------------------------
(***************************************************************************)
(* What license_runtime.h promises about licence attempts, without         *)
(* threads: phones are numbered as they come, at most one attempt is in    *)
(* flight, and each phone gets at most one.  An attempt may be made for a  *)
(* phone that has already left.                                            *)
(***************************************************************************)
EXTENDS Integers

CONSTANT MaxConnection

VARIABLES
  latest,    \* id of the newest phone
  tried,     \* phones an attempt was made for
  checking   \* the phone of the attempt in flight, 0 if none

avars == <<latest, tried, checking>>

Init ==
  /\ latest = 0
  /\ tried = {}
  /\ checking = 0

NewPhone ==
  /\ latest < MaxConnection
  /\ latest' = latest + 1
  /\ UNCHANGED <<tried, checking>>

\* The attempt starts, or its thread cannot be created and it is over.
Attempt(c) ==
  /\ checking = 0
  /\ c \notin tried
  /\ tried' = tried \cup {c}
  /\ checking' \in {0, c}
  /\ UNCHANGED latest

AttemptEnds ==
  /\ checking # 0
  /\ checking' = 0
  /\ UNCHANGED <<latest, tried>>

Next == NewPhone \/ (\E c \in 1..latest : Attempt(c)) \/ AttemptEnds

Spec == Init /\ [][Next]_avars
=============================================================================
