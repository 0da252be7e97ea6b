--------------------------- MODULE Licence_proofs ---------------------------
(***************************************************************************)
(* Safety of the licence check: LicenceRuntime for every number of iPhone  *)
(* connections, and the stream it fetches over, TlsStream, for requests,   *)
(* answers and rings of every size.                                        *)
(*                                                                         *)
(* The inductive invariant of LicenceRuntime is the conjunction of TypeOK  *)
(* and five named parts, each one inductive relative to the ones before    *)
(* it:                                                                     *)
(*   ThreadInv   who may be where while a check runs,                      *)
(*   AttemptInv  how the ids of the tether Worker's attempts are ordered,  *)
(*   GateInv     which outcome stands behind every pending gate write,     *)
(*   UsbInv      an attached phone is the current connection,              *)
(*   SerialInv   what holds as long as no phone event met a check.         *)
(*                                                                         *)
(* That of TlsStream is the conjunction of StreamTypeOK and                *)
(*   FreshInv    nothing is there before a SYN has left,                   *)
(*   AskedInv    the next number and what Write has sent,                  *)
(*   HolderInv   who has the ring's lock,                                  *)
(*   ServerInv   the server answers what it has got,                       *)
(*   SegmentInv  what the Worker has in hand was sent,                     *)
(*   RingInv     what was read and what is in the ring are units,          *)
(*   NumberInv   the first units, in their order,                          *)
(*   CountInv    recv_seq_ counts them and the FIN behind them,            *)
(*   EndInv      where the fetch may be when the stream has ended, and how.*)
(***************************************************************************)
EXTENDS LicenceRuntime, TlsStream, SequenceTheorems, TLAPS

\* From the check_active test to the end of MaybeStartCheck no check runs.
ThreadInv ==
  /\ checkActive <=> checker.pc # "none"
  /\ tether.pc \in {"configure", "arm", "launch", "failState", "failGate"}
       => checker.pc = "none"

Called == tether.pc \notin {"idle", "call"}

\* Connection ids only grow, and last_attempt_connection follows them: a
\* connection above it has had no attempt, the one being armed included.
AttemptInv ==
  /\ tether.pc = "call" => connectionId \in Connections
  /\ Called => tether.id \in 1..connectionId /\ lastAttempt <= tether.id
  /\ lastAttempt <= connectionId
  /\ tether.pc \in {"configure", "arm"} => lastAttempt # tether.id
  /\ tether.pc = "launch" => /\ lastAttempt = tether.id
                             /\ checkConnection = tether.id
                             /\ attempted[tether.id] = 0
  /\ checkActive => checkConnection \in 1..connectionId
  /\ \A c \in Connections : /\ attempted[c] \in {0, 1}
                            /\ c > lastAttempt => attempted[c] = 0

Admitted == decided \cap {"Matched", "Free", "Unavailable"} # {}

StateEarned(s) ==
  /\ s \in {"Licensed", "Free"} => Admitted
  /\ s = "Unlicensed" => "NoMatch" \in decided

\* Every value a thread has read or is about to write is backed by an outcome.
GateInv ==
  /\ gate = "Allow" => Admitted
  /\ gate = "Deny" => "NoMatch" \in decided
  /\ StateEarned(state)
  /\ StateEarned(usb.seen)
  /\ checker.pc = "verdictGate" => checker.outcome \in decided
  /\ checker.pc = "openGate" => "Unavailable" \in decided
  /\ tether.pc = "failGate" => "Unavailable" \in decided

Undecided == {"start", "derive", "localFail", "fetch", "spins",
              "probeCheck", "probeSet", "judge", "verdictState", "finish", "openState",
              "openGate"}

UsbInv ==
  usb.pc \in {"beginRead", "beginGate", "attached"} => current = connectionId

SerialInv ==
  ~overlapped =>
    /\ tether.pc # "idle" \/ checker.pc # "none" => usb.pc = "attached"
    /\ Called => tether.id = connectionId
    /\ checker.pc # "none" => lastAttempt = connectionId
    /\ tether.pc = "readActive" => \/ state = "Unknown"
                                   \/ lastAttempt = connectionId
    /\ tether.pc \in {"configure", "arm", "launch", "failState", "failGate"}
         => state = "Unknown"
    /\ checker.pc \in Undecided => state = "Unknown"
    /\ checker.pc = "verdictGate" => state = StateFor(checker.outcome)
    /\ usb.pc = "beginGate" => usb.seen = state
    /\ usb.pc = "attached" /\ checker.pc # "verdictGate" /\ state # "Unknown"
         => gate = GateFor(state)

IInv == TypeOK /\ ThreadInv /\ AttemptInv /\ GateInv /\ UsbInv /\ SerialInv

-----------------------------------------------------------------------------
(* Initial states.                                                         *)

\* ResetCoreSession leaves no thread, no attempt and no decision behind.
LEMMA InitIInv == Init => IInv
<1> SUFFICES ASSUME Init PROVE IInv
  OBVIOUS
<1> USE MaxConnectionAssumption DEF Init, NoConnection
<1>1. TypeOK
  <2>1. NoConnection \in ConnectionIds
    BY DEF ConnectionIds
  <2>2. usb \in [pc : UsbPc, seen : LicenceState]
    BY DEF UsbPc, LicenceState
  <2>3. tether \in [pc : TetherPc, id : ConnectionIds]
    BY <2>1 DEF TetherPc
  <2>4. checker \in [pc : CheckerPc, id : ConnectionIds, outcome : Outcome]
    BY <2>1 DEF CheckerPc, Outcome
  <2> QED
    BY <2>1, <2>2, <2>3, <2>4 DEF TypeOK, LicenceState, NetworkGate
<1>2. ThreadInv /\ AttemptInv
  BY DEF ThreadInv, AttemptInv, Called, Connections
<1>3. GateInv /\ UsbInv
  BY DEF GateInv, StateEarned, UsbInv
<1>4. SerialInv
  BY DEF SerialInv, Called, Undecided
<1> QED
  BY <1>1, <1>2, <1>3, <1>4 DEF IInv

-----------------------------------------------------------------------------
(* Steps: one case for each action.                                        *)

\* Every access of every thread keeps the words and the locals in their types.
LEMMA TypeOKStep == TypeOK /\ [Next]_vars => TypeOK'
<1> SUFFICES ASSUME TypeOK, [Next]_vars PROVE TypeOK'
  OBVIOUS
<1> USE DEF TypeOK, shared, threads, history
<1>1. CASE PhoneAttached
  <2>1. connectionId' \in ConnectionIds
    BY <1>1, MaxConnectionAssumption DEF PhoneAttached, ConnectionIds
  <2>2. usb' \in [pc : UsbPc, seen : LicenceState]
    BY <1>1 DEF PhoneAttached, UsbGoto, UsbPc
  <2>3. overlapped' \in BOOLEAN
    BY <1>1 DEF PhoneAttached, NoteOverlap, CheckInFlight
  <2> QED
    BY <1>1, <2>1, <2>2, <2>3 DEF PhoneAttached
<1>2. CASE EndPublish
  <2>1. current' \in ConnectionIds
    BY <1>2, MaxConnectionAssumption DEF EndPublish, ConnectionIds, NoConnection
  <2>2. usb' \in [pc : UsbPc, seen : LicenceState]
    BY <1>2 DEF EndPublish, UsbGoto, UsbPc
  <2>3. overlapped' \in BOOLEAN
    BY <1>2 DEF EndPublish, NoteOverlap, CheckInFlight
  <2> QED
    BY <1>2, <2>1, <2>2, <2>3 DEF EndPublish
<1>3. CASE BeginPublish
  <2>1. usb' \in [pc : UsbPc, seen : LicenceState]
    BY <1>3 DEF BeginPublish, UsbGoto, UsbPc
  <2>2. overlapped' \in BOOLEAN
    BY <1>3 DEF BeginPublish, NoteOverlap, CheckInFlight
  <2> QED
    BY <1>3, <2>1, <2>2 DEF BeginPublish
<1>4. CASE BeginReadState
  <2>1. usb' \in [pc : UsbPc, seen : LicenceState]
    BY <1>4 DEF BeginReadState, UsbGoto, UsbPc
  <2>2. overlapped' \in BOOLEAN
    BY <1>4 DEF BeginReadState, NoteOverlap, CheckInFlight
  <2> QED
    BY <1>4, <2>1, <2>2 DEF BeginReadState
<1>5. CASE BeginSetGate
  <2>1. gate' \in NetworkGate
    BY <1>5 DEF BeginSetGate, GateFor, NetworkGate
  <2>2. usb' \in [pc : UsbPc, seen : LicenceState]
    BY <1>5 DEF BeginSetGate, UsbGoto, UsbPc
  <2>3. overlapped' \in BOOLEAN
    BY <1>5 DEF BeginSetGate, NoteOverlap, CheckInFlight
  <2> QED
    BY <1>5, <2>1, <2>2, <2>3 DEF BeginSetGate
<1>6. CASE EndReadState
  <2>1. usb' \in [pc : UsbPc, seen : LicenceState]
    BY <1>6 DEF EndReadState, UsbGoto, UsbPc
  <2>2. overlapped' \in BOOLEAN
    BY <1>6 DEF EndReadState, NoteOverlap, CheckInFlight
  <2> QED
    BY <1>6, <2>1, <2>2 DEF EndReadState
<1>7. CASE EndSetGate
  <2>1. gate' \in NetworkGate
    BY <1>7 DEF EndSetGate, NetworkGate
  <2>2. usb' \in [pc : UsbPc, seen : LicenceState]
    BY <1>7 DEF EndSetGate, UsbGoto, UsbPc
  <2>3. overlapped' \in BOOLEAN
    BY <1>7 DEF EndSetGate, NoteOverlap, CheckInFlight
  <2> QED
    BY <1>7, <2>1, <2>2, <2>3 DEF EndSetGate
<1>8. CASE TetherProbe
  BY <1>8 DEF TetherProbe
<1>9. CASE StartRequested
  BY <1>9 DEF StartRequested, TetherGoto, TetherPc
<1>10. CASE StartCalled
  BY <1>10 DEF StartCalled, TetherGoto, TetherPc
<1>11. CASE StartReadState
  BY <1>11 DEF StartReadState, TetherGoto, TetherPc
<1>12. CASE StartReadActive
  BY <1>12 DEF StartReadActive, TetherGoto, TetherPc
<1>13. CASE StartConfigure
  BY <1>13 DEF StartConfigure, TetherGoto, TetherPc
<1>14. CASE StartArm
  <2>1. /\ checkConnection' \in ConnectionIds
     /\ lastAttempt' \in ConnectionIds
     /\ gate' \in NetworkGate
    BY <1>14 DEF StartArm, NetworkGate
  <2>2. tether' \in [pc : TetherPc, id : ConnectionIds]
    BY <1>14 DEF StartArm, TetherGoto, TetherPc
  <2> QED
    BY <1>14, <2>1, <2>2 DEF StartArm
<1>15. CASE StartLaunched
  <2>1. attempted' = [c \in Connections |->
                    IF c = tether.id THEN attempted[c] + 1 ELSE attempted[c]]
    BY <1>15 DEF StartLaunched
  <2>2. attempted' \in [Connections -> Nat]
    BY <2>1
  <2>3. tether' \in [pc : TetherPc, id : ConnectionIds]
    BY <1>15 DEF StartLaunched, TetherGoto, TetherPc
  <2>4. checker' \in [pc : CheckerPc, id : ConnectionIds, outcome : Outcome]
    BY <1>15 DEF StartLaunched, CheckerGoto, CheckerPc
  <2> QED
    BY <1>15, <2>1, <2>2, <2>3, <2>4 DEF StartLaunched
<1>16. CASE StartRefused
  <2>1. attempted' = [c \in Connections |->
                    IF c = tether.id THEN attempted[c] + 1 ELSE attempted[c]]
    BY <1>16 DEF StartRefused
  <2>2. attempted' \in [Connections -> Nat]
    BY <2>1
  <2>3. tether' \in [pc : TetherPc, id : ConnectionIds]
    BY <1>16 DEF StartRefused, TetherGoto, TetherPc
  <2> QED
    BY <1>16, <2>1, <2>2, <2>3 DEF StartRefused
<1>17. CASE StartFailState
  <2>1. state' \in LicenceState /\ decided' \in SUBSET Outcome
    BY <1>17 DEF StartFailState, LicenceState, Outcome
  <2>2. tether' \in [pc : TetherPc, id : ConnectionIds]
    BY <1>17 DEF StartFailState, TetherGoto, TetherPc
  <2> QED
    BY <1>17, <2>1, <2>2 DEF StartFailState
<1>18. CASE StartFailGate
  <2>1. gate' \in NetworkGate
    BY <1>18 DEF StartFailGate, NetworkGate
  <2>2. tether' \in [pc : TetherPc, id : ConnectionIds]
    BY <1>18 DEF StartFailGate, TetherGoto, TetherPc
  <2> QED
    BY <1>18, <2>1, <2>2 DEF StartFailGate
<1>19. CASE CheckReadConnection
  BY <1>19 DEF CheckReadConnection, CheckerGoto, CheckerPc
<1>20. CASE CheckDerive
  BY <1>20 DEF CheckDerive, CheckerGoto, CheckerPc
<1>21. CASE CheckLocalFail
  BY <1>21 DEF CheckLocalFail, CheckerPc, Outcome
<1>22. ASSUME NEW o \in Outcome, CheckFetched(o) PROVE TypeOK'
  BY <1>22 DEF CheckFetched, CheckerGoto, CheckerPc
<1>23. CASE CheckFetchFailed
  BY <1>23 DEF CheckFetchFailed, CheckerPc, Outcome
<1>24. CASE CheckProbeGuard
  BY <1>24 DEF CheckProbeGuard, CheckerGoto, CheckerPc
<1>25. CASE CheckProbeSet
  BY <1>25 DEF CheckProbeSet, CheckerGoto, CheckerPc
<1>26. CASE CheckJudge
  BY <1>26 DEF CheckJudge, CheckerGoto, CheckerPc
<1>27. CASE CheckVerdictState
  <2>1. state' \in LicenceState
    BY <1>27 DEF CheckVerdictState, StateFor, LicenceState, Definitive
  <2>2. decided' \in SUBSET Outcome
    BY <1>27 DEF CheckVerdictState
  <2>3. checker' \in [pc : CheckerPc, id : ConnectionIds, outcome : Outcome]
    BY <1>27 DEF CheckVerdictState, CheckerGoto, CheckerPc
  <2> QED
    BY <1>27, <2>1, <2>2, <2>3 DEF CheckVerdictState
<1>28. CASE CheckVerdictGate
  <2>1. gate' \in NetworkGate
    BY <1>28 DEF CheckVerdictGate, GateFor, NetworkGate
  <2>2. checker' \in [pc : CheckerPc, id : ConnectionIds, outcome : Outcome]
    BY <1>28 DEF CheckVerdictGate, CheckerGoto, CheckerPc
  <2> QED
    BY <1>28, <2>1, <2>2 DEF CheckVerdictGate
<1>29. CASE CheckFinish
  BY <1>29 DEF CheckFinish, CheckerGoto, CheckerPc
<1>30. CASE CheckOpenState
  <2>1. state' \in LicenceState /\ decided' \in SUBSET Outcome
    BY <1>30 DEF CheckOpenState, LicenceState, Outcome
  <2>2. checker' \in [pc : CheckerPc, id : ConnectionIds, outcome : Outcome]
    BY <1>30 DEF CheckOpenState, CheckerGoto, CheckerPc
  <2> QED
    BY <1>30, <2>1, <2>2 DEF CheckOpenState
<1>31. CASE CheckOpenGate
  <2>1. gate' \in NetworkGate
    BY <1>31 DEF CheckOpenGate, NetworkGate
  <2>2. checker' \in [pc : CheckerPc, id : ConnectionIds, outcome : Outcome]
    BY <1>31 DEF CheckOpenGate, CheckerGoto, CheckerPc
  <2> QED
    BY <1>31, <2>1, <2>2 DEF CheckOpenGate
<1>32. CASE CheckRelease
  BY <1>32 DEF CheckRelease, CheckerGoto, CheckerPc
<1>33. CASE UNCHANGED vars
  BY <1>33 DEF vars
<1>34. CASE CheckSpins
  BY <1>34 DEF CheckSpins, CheckerGoto, CheckerPc
<1>35. CASE CheckSpinEnds
  BY <1>35 DEF CheckSpinEnds, CheckerPc, Outcome
<1> QED
  BY <1>1, <1>2, <1>3, <1>4, <1>5, <1>6, <1>7, <1>8, <1>9, <1>10, <1>11, <1>12, <1>13, <1>14, <1>15, <1>16, <1>17, <1>18, <1>19, <1>20, <1>21, <1>22, <1>23, <1>24, <1>25, <1>26, <1>27, <1>28, <1>29, <1>30, <1>31, <1>32, <1>33, <1>34, <1>35
  DEF Next, UsbCall, TetherCall, Checker

\* check_active is a lock: only the tether Worker raises it, only while it is
\* down, and only the checker it stands for lowers it.
LEMMA ThreadInvStep == TypeOK /\ ThreadInv /\ [Next]_vars => ThreadInv'
<1> SUFFICES ASSUME TypeOK, ThreadInv, [Next]_vars PROVE ThreadInv'
  OBVIOUS
<1> USE MaxConnectionAssumption DEF TypeOK, ThreadInv, UsbPc, TetherPc, CheckerPc, shared, threads,
           history, UsbGoto, TetherGoto, CheckerGoto, UsbAt, TetherAt, CheckerAt
<1>1. CASE PhoneAttached
  BY <1>1 DEF PhoneAttached
<1>2. CASE EndPublish
  BY <1>2 DEF EndPublish
<1>3. CASE BeginPublish
  BY <1>3 DEF BeginPublish
<1>4. CASE BeginReadState
  BY <1>4 DEF BeginReadState
<1>5. CASE BeginSetGate
  BY <1>5 DEF BeginSetGate
<1>6. CASE EndReadState
  BY <1>6 DEF EndReadState
<1>7. CASE EndSetGate
  BY <1>7 DEF EndSetGate
<1>8. CASE TetherProbe
  BY <1>8 DEF TetherProbe
<1>9. CASE StartRequested
  BY <1>9 DEF StartRequested
<1>10. CASE StartCalled
  BY <1>10 DEF StartCalled
<1>11. CASE StartReadState
  BY <1>11 DEF StartReadState
<1>12. CASE StartReadActive
  BY <1>12 DEF StartReadActive
<1>13. CASE StartConfigure
  BY <1>13 DEF StartConfigure
<1>14. CASE StartArm
  BY <1>14 DEF StartArm
<1>15. CASE StartLaunched
  BY <1>15 DEF StartLaunched
<1>16. CASE StartRefused
  BY <1>16 DEF StartRefused
<1>17. CASE StartFailState
  BY <1>17 DEF StartFailState
<1>18. CASE StartFailGate
  BY <1>18 DEF StartFailGate
<1>19. CASE CheckReadConnection
  BY <1>19 DEF CheckReadConnection
<1>20. CASE CheckDerive
  BY <1>20 DEF CheckDerive
<1>21. CASE CheckLocalFail
  BY <1>21 DEF CheckLocalFail
<1>22. ASSUME NEW o \in Outcome, CheckFetched(o) PROVE ThreadInv'
  BY <1>22 DEF CheckFetched
<1>23. CASE CheckFetchFailed
  BY <1>23 DEF CheckFetchFailed
<1>24. CASE CheckProbeGuard
  BY <1>24 DEF CheckProbeGuard
<1>25. CASE CheckProbeSet
  BY <1>25 DEF CheckProbeSet
<1>26. CASE CheckJudge
  BY <1>26 DEF CheckJudge
<1>27. CASE CheckVerdictState
  BY <1>27 DEF CheckVerdictState
<1>28. CASE CheckVerdictGate
  BY <1>28 DEF CheckVerdictGate
<1>29. CASE CheckFinish
  BY <1>29 DEF CheckFinish
<1>30. CASE CheckOpenState
  BY <1>30 DEF CheckOpenState
<1>31. CASE CheckOpenGate
  BY <1>31 DEF CheckOpenGate
<1>32. CASE CheckRelease
  BY <1>32 DEF CheckRelease
<1>33. CASE UNCHANGED vars
  BY <1>33 DEF vars
<1>34. CASE CheckSpins
  BY <1>34 DEF CheckSpins
<1>35. CASE CheckSpinEnds
  BY <1>35 DEF CheckSpinEnds
<1> QED
  BY <1>1, <1>2, <1>3, <1>4, <1>5, <1>6, <1>7, <1>8, <1>9, <1>10, <1>11, <1>12, <1>13, <1>14, <1>15, <1>16, <1>17, <1>18, <1>19, <1>20, <1>21, <1>22, <1>23, <1>24, <1>25, <1>26, <1>27, <1>28, <1>29, <1>30, <1>31, <1>32, <1>33, <1>34, <1>35
  DEF Next, UsbCall, TetherCall, Checker

\* Attempts are made in the order of the connection ids.
LEMMA AttemptInvStep == TypeOK /\ ThreadInv /\ AttemptInv /\ [Next]_vars => AttemptInv'
<1> SUFFICES ASSUME TypeOK, ThreadInv, AttemptInv, [Next]_vars PROVE AttemptInv'
  OBVIOUS
<1> USE MaxConnectionAssumption DEF TypeOK, ThreadInv, AttemptInv, Called, Connections,
           ConnectionIds, NoConnection, shared, threads, history, UsbGoto,
           TetherGoto, CheckerGoto, UsbAt, TetherAt, CheckerAt
<1>1. CASE PhoneAttached
  BY <1>1 DEF PhoneAttached
<1>2. CASE EndPublish
  BY <1>2 DEF EndPublish
<1>3. CASE BeginPublish
  BY <1>3 DEF BeginPublish
<1>4. CASE BeginReadState
  BY <1>4 DEF BeginReadState
<1>5. CASE BeginSetGate
  BY <1>5 DEF BeginSetGate
<1>6. CASE EndReadState
  BY <1>6 DEF EndReadState
<1>7. CASE EndSetGate
  BY <1>7 DEF EndSetGate
<1>8. CASE TetherProbe
  BY <1>8 DEF TetherProbe
<1>9. CASE StartRequested
  BY <1>9 DEF StartRequested
<1>10. CASE StartCalled
  BY <1>10 DEF StartCalled
<1>11. CASE StartReadState
  BY <1>11 DEF StartReadState
<1>12. CASE StartReadActive
  BY <1>12 DEF StartReadActive
<1>13. CASE StartConfigure
  BY <1>13 DEF StartConfigure
<1>14. CASE StartArm
  BY <1>14 DEF StartArm
<1>15. CASE StartLaunched
  BY <1>15 DEF StartLaunched
<1>16. CASE StartRefused
  BY <1>16 DEF StartRefused
<1>17. CASE StartFailState
  BY <1>17 DEF StartFailState
<1>18. CASE StartFailGate
  BY <1>18 DEF StartFailGate
<1>19. CASE CheckReadConnection
  BY <1>19 DEF CheckReadConnection
<1>20. CASE CheckDerive
  BY <1>20 DEF CheckDerive
<1>21. CASE CheckLocalFail
  BY <1>21 DEF CheckLocalFail
<1>22. ASSUME NEW o \in Outcome, CheckFetched(o) PROVE AttemptInv'
  BY <1>22 DEF CheckFetched
<1>23. CASE CheckFetchFailed
  BY <1>23 DEF CheckFetchFailed
<1>24. CASE CheckProbeGuard
  BY <1>24 DEF CheckProbeGuard
<1>25. CASE CheckProbeSet
  BY <1>25 DEF CheckProbeSet
<1>26. CASE CheckJudge
  BY <1>26 DEF CheckJudge
<1>27. CASE CheckVerdictState
  BY <1>27 DEF CheckVerdictState
<1>28. CASE CheckVerdictGate
  BY <1>28 DEF CheckVerdictGate
<1>29. CASE CheckFinish
  BY <1>29 DEF CheckFinish
<1>30. CASE CheckOpenState
  BY <1>30 DEF CheckOpenState
<1>31. CASE CheckOpenGate
  BY <1>31 DEF CheckOpenGate
<1>32. CASE CheckRelease
  BY <1>32 DEF CheckRelease
<1>33. CASE UNCHANGED vars
  BY <1>33 DEF vars
<1>34. CASE CheckSpins
  BY <1>34 DEF CheckSpins
<1>35. CASE CheckSpinEnds
  BY <1>35 DEF CheckSpinEnds
<1> QED
  BY <1>1, <1>2, <1>3, <1>4, <1>5, <1>6, <1>7, <1>8, <1>9, <1>10, <1>11, <1>12, <1>13, <1>14, <1>15, <1>16, <1>17, <1>18, <1>19, <1>20, <1>21, <1>22, <1>23, <1>24, <1>25, <1>26, <1>27, <1>28, <1>29, <1>30, <1>31, <1>32, <1>33, <1>34, <1>35
  DEF Next, UsbCall, TetherCall, Checker

\* No write to the gate outruns the outcome that justifies it.
LEMMA GateInvStep == TypeOK /\ GateInv /\ [Next]_vars => GateInv'
<1> SUFFICES ASSUME TypeOK, GateInv, [Next]_vars PROVE GateInv'
  OBVIOUS
<1> USE MaxConnectionAssumption DEF TypeOK, GateInv, Admitted, StateEarned, Outcome, LicenceState,
           Definitive, NetworkGate, shared, threads, history, UsbGoto,
           TetherGoto, CheckerGoto, UsbAt, TetherAt, CheckerAt, GateFor,
           StateFor
<1>1. CASE PhoneAttached
  BY <1>1 DEF PhoneAttached
<1>2. CASE EndPublish
  BY <1>2 DEF EndPublish
<1>3. CASE BeginPublish
  BY <1>3 DEF BeginPublish
<1>4. CASE BeginReadState
  BY <1>4 DEF BeginReadState
<1>5. CASE BeginSetGate
  BY <1>5 DEF BeginSetGate
<1>6. CASE EndReadState
  BY <1>6 DEF EndReadState
<1>7. CASE EndSetGate
  BY <1>7 DEF EndSetGate
<1>8. CASE TetherProbe
  BY <1>8 DEF TetherProbe
<1>9. CASE StartRequested
  BY <1>9 DEF StartRequested
<1>10. CASE StartCalled
  BY <1>10 DEF StartCalled
<1>11. CASE StartReadState
  BY <1>11 DEF StartReadState
<1>12. CASE StartReadActive
  BY <1>12 DEF StartReadActive
<1>13. CASE StartConfigure
  BY <1>13 DEF StartConfigure
<1>14. CASE StartArm
  BY <1>14 DEF StartArm
<1>15. CASE StartLaunched
  BY <1>15 DEF StartLaunched
<1>16. CASE StartRefused
  BY <1>16 DEF StartRefused
<1>17. CASE StartFailState
  BY <1>17 DEF StartFailState
<1>18. CASE StartFailGate
  BY <1>18 DEF StartFailGate
<1>19. CASE CheckReadConnection
  BY <1>19 DEF CheckReadConnection
<1>20. CASE CheckDerive
  BY <1>20 DEF CheckDerive
<1>21. CASE CheckLocalFail
  BY <1>21 DEF CheckLocalFail
<1>22. ASSUME NEW o \in Outcome, CheckFetched(o) PROVE GateInv'
  BY <1>22 DEF CheckFetched
<1>23. CASE CheckFetchFailed
  BY <1>23 DEF CheckFetchFailed
<1>24. CASE CheckProbeGuard
  BY <1>24 DEF CheckProbeGuard
<1>25. CASE CheckProbeSet
  BY <1>25 DEF CheckProbeSet
<1>26. CASE CheckJudge
  BY <1>26 DEF CheckJudge
<1>27. CASE CheckVerdictState
  BY <1>27 DEF CheckVerdictState
<1>28. CASE CheckVerdictGate
  BY <1>28 DEF CheckVerdictGate
<1>29. CASE CheckFinish
  BY <1>29 DEF CheckFinish
<1>30. CASE CheckOpenState
  BY <1>30 DEF CheckOpenState
<1>31. CASE CheckOpenGate
  BY <1>31 DEF CheckOpenGate
<1>32. CASE CheckRelease
  BY <1>32 DEF CheckRelease
<1>33. CASE UNCHANGED vars
  BY <1>33 DEF vars
<1>34. CASE CheckSpins
  BY <1>34 DEF CheckSpins
<1>35. CASE CheckSpinEnds
  BY <1>35 DEF CheckSpinEnds
<1> QED
  BY <1>1, <1>2, <1>3, <1>4, <1>5, <1>6, <1>7, <1>8, <1>9, <1>10, <1>11, <1>12, <1>13, <1>14, <1>15, <1>16, <1>17, <1>18, <1>19, <1>20, <1>21, <1>22, <1>23, <1>24, <1>25, <1>26, <1>27, <1>28, <1>29, <1>30, <1>31, <1>32, <1>33, <1>34, <1>35
  DEF Next, UsbCall, TetherCall, Checker

\* A phone that is attached is the newest one.
LEMMA UsbInvStep == TypeOK /\ UsbInv /\ [Next]_vars => UsbInv'
<1> SUFFICES ASSUME TypeOK, UsbInv, [Next]_vars PROVE UsbInv'
  OBVIOUS
<1> USE MaxConnectionAssumption DEF TypeOK, UsbInv, UsbPc, shared, threads, history, UsbGoto,
           TetherGoto, CheckerGoto, UsbAt, TetherAt, CheckerAt
<1>1. CASE PhoneAttached
  BY <1>1 DEF PhoneAttached
<1>2. CASE EndPublish
  BY <1>2 DEF EndPublish
<1>3. CASE BeginPublish
  BY <1>3 DEF BeginPublish
<1>4. CASE BeginReadState
  BY <1>4 DEF BeginReadState
<1>5. CASE BeginSetGate
  BY <1>5 DEF BeginSetGate
<1>6. CASE EndReadState
  BY <1>6 DEF EndReadState
<1>7. CASE EndSetGate
  BY <1>7 DEF EndSetGate
<1>8. CASE TetherProbe
  BY <1>8 DEF TetherProbe
<1>9. CASE StartRequested
  BY <1>9 DEF StartRequested
<1>10. CASE StartCalled
  BY <1>10 DEF StartCalled
<1>11. CASE StartReadState
  BY <1>11 DEF StartReadState
<1>12. CASE StartReadActive
  BY <1>12 DEF StartReadActive
<1>13. CASE StartConfigure
  BY <1>13 DEF StartConfigure
<1>14. CASE StartArm
  BY <1>14 DEF StartArm
<1>15. CASE StartLaunched
  BY <1>15 DEF StartLaunched
<1>16. CASE StartRefused
  BY <1>16 DEF StartRefused
<1>17. CASE StartFailState
  BY <1>17 DEF StartFailState
<1>18. CASE StartFailGate
  BY <1>18 DEF StartFailGate
<1>19. CASE CheckReadConnection
  BY <1>19 DEF CheckReadConnection
<1>20. CASE CheckDerive
  BY <1>20 DEF CheckDerive
<1>21. CASE CheckLocalFail
  BY <1>21 DEF CheckLocalFail
<1>22. ASSUME NEW o \in Outcome, CheckFetched(o) PROVE UsbInv'
  BY <1>22 DEF CheckFetched
<1>23. CASE CheckFetchFailed
  BY <1>23 DEF CheckFetchFailed
<1>24. CASE CheckProbeGuard
  BY <1>24 DEF CheckProbeGuard
<1>25. CASE CheckProbeSet
  BY <1>25 DEF CheckProbeSet
<1>26. CASE CheckJudge
  BY <1>26 DEF CheckJudge
<1>27. CASE CheckVerdictState
  BY <1>27 DEF CheckVerdictState
<1>28. CASE CheckVerdictGate
  BY <1>28 DEF CheckVerdictGate
<1>29. CASE CheckFinish
  BY <1>29 DEF CheckFinish
<1>30. CASE CheckOpenState
  BY <1>30 DEF CheckOpenState
<1>31. CASE CheckOpenGate
  BY <1>31 DEF CheckOpenGate
<1>32. CASE CheckRelease
  BY <1>32 DEF CheckRelease
<1>33. CASE UNCHANGED vars
  BY <1>33 DEF vars
<1>34. CASE CheckSpins
  BY <1>34 DEF CheckSpins
<1>35. CASE CheckSpinEnds
  BY <1>35 DEF CheckSpinEnds
<1> QED
  BY <1>1, <1>2, <1>3, <1>4, <1>5, <1>6, <1>7, <1>8, <1>9, <1>10, <1>11, <1>12, <1>13, <1>14, <1>15, <1>16, <1>17, <1>18, <1>19, <1>20, <1>21, <1>22, <1>23, <1>24, <1>25, <1>26, <1>27, <1>28, <1>29, <1>30, <1>31, <1>32, <1>33, <1>34, <1>35
  DEF Next, UsbCall, TetherCall, Checker

\* Without overlap the phone, the attempt and the check are the same one, and
\* the state is unknown until the check decides.
LEMMA SerialInvStep == TypeOK /\ ThreadInv /\ AttemptInv /\ UsbInv /\ SerialInv /\ [Next]_vars => SerialInv'
<1> SUFFICES ASSUME TypeOK, ThreadInv, AttemptInv, UsbInv, SerialInv, [Next]_vars PROVE SerialInv'
  OBVIOUS
<1> USE MaxConnectionAssumption DEF TypeOK, ThreadInv, AttemptInv, UsbInv, SerialInv, Called,
           Undecided, shared, threads, history, UsbGoto, TetherGoto,
           CheckerGoto, NoteOverlap, CheckInFlight, UsbAt, TetherAt, CheckerAt,
           GateFor, StateFor, Outcome, LicenceState, Definitive,
           SameCurrentConnection
<1>1. CASE PhoneAttached
  BY <1>1 DEF PhoneAttached
<1>2. CASE EndPublish
  BY <1>2 DEF EndPublish
<1>3. CASE BeginPublish
  BY <1>3 DEF BeginPublish
<1>4. CASE BeginReadState
  BY <1>4 DEF BeginReadState
<1>5. CASE BeginSetGate
  BY <1>5 DEF BeginSetGate
<1>6. CASE EndReadState
  BY <1>6 DEF EndReadState
<1>7. CASE EndSetGate
  BY <1>7 DEF EndSetGate
<1>8. CASE TetherProbe
  BY <1>8 DEF TetherProbe
<1>9. CASE StartRequested
  BY <1>9 DEF StartRequested
<1>10. CASE StartCalled
  BY <1>10 DEF StartCalled
<1>11. CASE StartReadState
  BY <1>11 DEF StartReadState
<1>12. CASE StartReadActive
  BY <1>12 DEF StartReadActive
<1>13. CASE StartConfigure
  BY <1>13 DEF StartConfigure
<1>14. CASE StartArm
  BY <1>14 DEF StartArm
<1>15. CASE StartLaunched
  BY <1>15 DEF StartLaunched
<1>16. CASE StartRefused
  BY <1>16 DEF StartRefused
<1>17. CASE StartFailState
  BY <1>17 DEF StartFailState
<1>18. CASE StartFailGate
  BY <1>18 DEF StartFailGate
<1>19. CASE CheckReadConnection
  BY <1>19 DEF CheckReadConnection
<1>20. CASE CheckDerive
  BY <1>20 DEF CheckDerive
<1>21. CASE CheckLocalFail
  BY <1>21 DEF CheckLocalFail
<1>22. ASSUME NEW o \in Outcome, CheckFetched(o) PROVE SerialInv'
  BY <1>22 DEF CheckFetched
<1>23. CASE CheckFetchFailed
  BY <1>23 DEF CheckFetchFailed
<1>24. CASE CheckProbeGuard
  BY <1>24 DEF CheckProbeGuard
<1>25. CASE CheckProbeSet
  BY <1>25 DEF CheckProbeSet
<1>26. CASE CheckJudge
  BY <1>26 DEF CheckJudge
<1>27. CASE CheckVerdictState
  BY <1>27 DEF CheckVerdictState
<1>28. CASE CheckVerdictGate
  BY <1>28 DEF CheckVerdictGate
<1>29. CASE CheckFinish
  BY <1>29 DEF CheckFinish
<1>30. CASE CheckOpenState
  BY <1>30 DEF CheckOpenState
<1>31. CASE CheckOpenGate
  BY <1>31 DEF CheckOpenGate
<1>32. CASE CheckRelease
  BY <1>32 DEF CheckRelease
<1>33. CASE UNCHANGED vars
  BY <1>33 DEF vars
<1>34. CASE CheckSpins
  BY <1>34 DEF CheckSpins
<1>35. CASE CheckSpinEnds
  BY <1>35 DEF CheckSpinEnds
<1> QED
  BY <1>1, <1>2, <1>3, <1>4, <1>5, <1>6, <1>7, <1>8, <1>9, <1>10, <1>11, <1>12, <1>13, <1>14, <1>15, <1>16, <1>17, <1>18, <1>19, <1>20, <1>21, <1>22, <1>23, <1>24, <1>25, <1>26, <1>27, <1>28, <1>29, <1>30, <1>31, <1>32, <1>33, <1>34, <1>35
  DEF Next, UsbCall, TetherCall, Checker

\* One access of one thread keeps every part of the invariant.
LEMMA IInvStep == IInv /\ [Next]_vars => IInv'
BY TypeOKStep, ThreadInvStep, AttemptInvStep, GateInvStep, UsbInvStep,
   SerialInvStep DEF IInv

-----------------------------------------------------------------------------
(* What follows for every behaviour.                                       *)

\* The inductive invariant holds throughout a Core session.
THEOREM Invariance == Spec => []IInv
<1>1. Init => IInv
  BY InitIInv
<1>2. IInv /\ [Next]_vars => IInv'
  BY IInvStep
<1> QED
  BY <1>1, <1>2, PTL DEF Spec

\* Type correctness of the licence runtime.
THEOREM TypeCorrect == Spec => []TypeOK
<1>1. IInv => TypeOK
  BY DEF IInv
<1> QED
  BY <1>1, Invariance, PTL

\* The TCP stream is reconfigured only while no check thread uses it.
THEOREM StreamIsExclusive == Spec => []StreamExclusive
<1>1. IInv => StreamExclusive
  BY DEF IInv, ThreadInv, StreamExclusive, CheckerAt
<1> QED
  BY <1>1, Invariance, PTL

\* At most one attempt for each physical connection.
THEOREM AttemptOnce == Spec => []AttemptOncePerConnection
<1>1. IInv => AttemptOncePerConnection
  BY DEF IInv, AttemptInv, AttemptOncePerConnection
<1> QED
  BY <1>1, Invariance, PTL

\* The gate never opens without an outcome that lets networking through.
THEOREM GateEarned == Spec => []GateIsEarned
<1>1. IInv => GateIsEarned
  BY DEF IInv, GateInv, Admitted, GateIsEarned
<1> QED
  BY <1>1, Invariance, PTL

\* While no phone event meets a check, gate and verdict agree.
THEOREM SerialGate == Spec => []SerialGateAgrees
<1>1. IInv => SerialGateAgrees
  BY DEF IInv, SerialInv, SerialGateAgrees, Settled, UsbAt, TetherAt, CheckerAt
<1> QED
  BY <1>1, Invariance, PTL

\* While no phone event meets a check, a definitive verdict stays.
THEOREM SerialVerdict == Spec => SerialVerdictPersists
<1>1. ASSUME IInv, [Next]_vars, state \in Definitive, ~overlapped'
      PROVE  state' = state
  <2> USE DEF IInv, TypeOK, SerialInv, Undecided, Definitive, TetherAt,
              CheckerAt
  <2>1. CASE StartFailState
    BY <1>1, <2>1 DEF StartFailState
  <2>2. CASE CheckVerdictState
    BY <1>1, <2>2 DEF CheckVerdictState
  <2>3. CASE CheckOpenState
    BY <1>1, <2>3 DEF CheckOpenState
  <2>4. CASE ~(StartFailState \/ CheckVerdictState \/ CheckOpenState)
    BY <1>1, <2>4
    DEF Next, vars, shared, threads, history, UsbCall, TetherCall, Checker,
        PhoneAttached, EndPublish, BeginPublish, BeginReadState, BeginSetGate,
        EndReadState, EndSetGate, TetherProbe, StartRequested, StartCalled,
        StartReadState, StartReadActive, StartConfigure, StartArm,
        StartLaunched, StartRefused, StartFailGate, CheckReadConnection,
        CheckDerive, CheckLocalFail, CheckFetched, CheckFetchFailed,
        CheckSpins, CheckSpinEnds, CheckProbeGuard, CheckProbeSet, CheckJudge, CheckVerdictGate,
        CheckFinish, CheckOpenGate, CheckRelease
  <2> QED
    BY <2>1, <2>2, <2>3, <2>4
<1>2. IInv /\ [Next]_vars
        => [(state \in Definitive /\ ~overlapped') => state' = state]_vars
  BY <1>1
<1> QED
  BY <1>2, Invariance, PTL DEF Spec, SerialVerdictPersists

-----------------------------------------------------------------------------
(* Refinement of LicenceAttempts.                                          *)

\* The values the refinement mapping gives to tried and checking.
Tried == {c \in Connections : attempted[c] > 0}
Checking == IF checkActive THEN checkConnection ELSE NoConnection

\* Three accesses are steps of the abstract specification: a new phone, the
\* end of MaybeStartCheck with or without a thread, and the end of a check.
LEMMA AttemptsStep ==
  IInv /\ [Next]_vars => [Attempts!Next]_(Attempts!avars)
<1> SUFFICES ASSUME IInv, [Next]_vars
             PROVE  [Attempts!Next]_(Attempts!avars)
  OBVIOUS
<1> USE MaxConnectionAssumption
    DEF IInv, TypeOK, ThreadInv, AttemptInv, Attempts!avars, Connections,
        ConnectionIds, NoConnection
<1>1. CASE PhoneAttached
  <2>1. Attempts!NewPhone
    BY <1>1 DEF PhoneAttached, Attempts!NewPhone
  <2> QED
    BY <2>1 DEF Attempts!Next
<1>2. CASE StartLaunched
  <2>1. PICK c \in 1..connectionId : c = tether.id
    BY <1>2 DEF StartLaunched, TetherAt, Called
  <2>2. Attempts!Attempt(c)
    BY <1>2, <2>1
    DEF StartLaunched, TetherAt, TetherGoto, Attempts!Attempt
  <2> QED
    BY <2>2 DEF Attempts!Next
<1>3. CASE StartRefused
  <2>1. PICK c \in 1..connectionId : c = tether.id
    BY <1>3 DEF StartRefused, TetherAt, Called
  <2>2. Attempts!Attempt(c)
    BY <1>3, <2>1
    DEF StartRefused, TetherAt, TetherGoto, Attempts!Attempt, shared
  <2> QED
    BY <2>2 DEF Attempts!Next
<1>4. CASE CheckRelease
  <2>1. Attempts!AttemptEnds
    <3>1. checkActive /\ checkConnection # NoConnection
      BY <1>4 DEF CheckRelease, CheckerAt
    <3>2. ~checkActive' /\ UNCHANGED <<connectionId, attempted>>
      BY <1>4 DEF CheckRelease, history
    <3> QED
      BY <3>1, <3>2 DEF Attempts!AttemptEnds
  <2> QED
    BY <2>1 DEF Attempts!Next
<1>5. CASE StartArm
  <2>1. ~checkActive /\ UNCHANGED <<connectionId, attempted, checkActive>>
    BY <1>5 DEF StartArm, TetherAt, history
  <2> QED
    BY <2>1
<1>6. CASE ~(PhoneAttached \/ StartLaunched \/ StartRefused \/ CheckRelease
               \/ StartArm)
  <2>1. UNCHANGED <<connectionId, attempted, checkActive, checkConnection>>
    BY <1>6
    DEF Next, vars, shared, threads, history, UsbCall, TetherCall, Checker,
        EndPublish, BeginPublish, BeginReadState, BeginSetGate,
        EndReadState, EndSetGate, TetherProbe, StartRequested, StartCalled,
        StartReadState, StartReadActive, StartConfigure, StartFailState,
        StartFailGate, CheckReadConnection, CheckDerive, CheckLocalFail,
        CheckFetched, CheckFetchFailed, CheckSpins, CheckSpinEnds,
        CheckProbeGuard, CheckProbeSet,
        CheckJudge, CheckVerdictState, CheckVerdictGate, CheckFinish,
        CheckOpenState, CheckOpenGate
  <2> QED
    BY <2>1
<1> QED
  BY <1>1, <1>2, <1>3, <1>4, <1>5, <1>6

\* The three threads implement the attempt discipline.
THEOREM AttemptsRefinement == Spec => AttemptsSpec
<1>1. Init => Attempts!Init
  BY DEF Init, Attempts!Init, NoConnection, Connections
<1>2. IInv /\ [Next]_vars => [Attempts!Next]_(Attempts!avars)
  BY AttemptsStep
<1> QED
  BY <1>1, <1>2, Invariance, PTL DEF Spec, AttemptsSpec, Attempts!Spec

-----------------------------------------------------------------------------
(* The stream's ring.                                                      *)

SP == INSTANCE FrameRing_proofs
      WITH Depth <- Capacity, Frame <- Units, NoFrame <- 0

LEMMA StreamRing ==
  /\ SP!Tight(R!EmptyRing) /\ R!EmptyRing.count = 0
  /\ \A r : SP!Tight(r) =>
       /\ r \in R!Ring
       /\ r.count \in 0..Capacity
       /\ R!Content(r) \in Seq(Units \cup {0}) /\ Len(R!Content(r)) = r.count
       /\ r.count # Capacity => \A u \in Units :
            /\ SP!Tight(R!Appended(R!Filled(r, u)))
            /\ R!Appended(R!Filled(r, u)).count = r.count + 1
            /\ R!Content(R!Appended(R!Filled(r, u))) = Append(R!Content(r), u)
       /\ \A n \in 0..r.count :
            /\ SP!Tight(SP!Skipped(r, n)) /\ SP!Skipped(r, n).count = r.count - n
            /\ \A i \in 1..(r.count - n) :
                 R!Content(SP!Skipped(r, n))[i] = R!Content(r)[i + n]
<1> USE SizesAssumption
<1>1. SP!EmptyRing = R!EmptyRing
  BY DEF SP!EmptyRing, R!EmptyRing, SP!Slots, R!Slots
<1>2. SP!Tight(R!EmptyRing) /\ R!EmptyRing.count = 0
  BY <1>1, SP!EmptyIsTight DEF R!EmptyRing
<1>3. \A r : SP!Content(r) = R!Content(r)
  BY DEF SP!Content, R!Content
<1>4. \A r, f : SP!Filled(r, f) = R!Filled(r, f)
  BY DEF SP!Filled, R!Filled
<1>5. \A r : SP!Appended(r) = R!Appended(r)
  BY DEF SP!Appended, R!Appended
<1>6. ASSUME NEW r, SP!Tight(r)
      PROVE  /\ r \in R!Ring
             /\ r.count \in 0..Capacity
             /\ R!Content(r) \in Seq(Units \cup {0}) /\ Len(R!Content(r)) = r.count
  <2>1. SP!Ring = R!Ring
    BY DEF SP!Ring, R!Ring, SP!Slots, R!Slots
  <2>2. r \in R!Ring
    BY <1>6, <2>1 DEF SP!Tight
  <2> QED
    BY <1>3, <1>6, <2>2, SP!ContentIsSeq
<1>7. ASSUME NEW r, SP!Tight(r), r.count # Capacity, NEW u \in Units
      PROVE  /\ SP!Tight(R!Appended(R!Filled(r, u)))
             /\ R!Appended(R!Filled(r, u)).count = r.count + 1
             /\ R!Content(R!Appended(R!Filled(r, u))) = Append(R!Content(r), u)
  <2> DEFINE f == R!Filled(r, u)
  <2>1. r.count < Capacity
    BY <1>6, <1>7
  <2>2. /\ SP!Tight(f) /\ R!Content(f) = R!Content(r)
        /\ f.count = r.count /\ f.slot[f.tail] = u
    BY <1>3, <1>4, <1>7, <2>1, SP!FilledKeepsContent
  <2> HIDE DEF f
  <2>3. /\ SP!Tight(R!Appended(f))
        /\ R!Content(R!Appended(f)) = Append(R!Content(f), f.slot[f.tail])
    BY <1>3, <1>5, <2>1, <2>2, SP!AppendedAppends
  <2>4. R!Appended(f).count = f.count + 1
    <3>1. f \in R!Ring
      BY <1>6, <2>2
    <3> QED
      BY <3>1 DEF R!Appended, R!Ring
  <2> QED
    BY <2>2, <2>3, <2>4 DEF f
<1>8. ASSUME NEW r, SP!Tight(r), NEW n \in 0..r.count
      PROVE  /\ SP!Tight(SP!Skipped(r, n)) /\ SP!Skipped(r, n).count = r.count - n
             /\ \A i \in 1..(r.count - n) :
                  R!Content(SP!Skipped(r, n))[i] = R!Content(r)[i + n]
  BY <1>3, <1>8, SP!SkippedSkips
<1> QED
  BY <1>2, <1>6, <1>7, <1>8

-----------------------------------------------------------------------------
(* The inductive invariant of the stream.                                  *)

FetchAt  == pc[Fetcher]
WorkerAt == pc[Worker]

Starting == {"idle", "query", "resolve", "reset", "syn"}
Dialling == Starting \cup {"sequence", "connect"}
Reads    == {"pop", "take", "testFailed", "testClosed", "zero"}
Talking  == {"engine", "write", "advance", "acknowledge", "close"} \cup Reads
Ending   == {"abort", "judge", "done"}

\* Until a SYN has left there is nothing of a stream.
FreshInv ==
  FetchAt \in Starting =>
    /\ WorkerAt = "none" /\ ~synSent
    /\ ~connected /\ ~closed /\ ~failed
    /\ recvSeq = 0 /\ acked = 0 /\ Len(read) = 0 /\ ring.count = 0

\* The number of the next unit is one ahead of what Write has sent, but for the
\* moment between the segment and the number.
AskedInv ==
  /\ sendSeq <= asked + 1
  /\ FetchAt \in Dialling => asked = 0 /\ ~eof
  /\ FetchAt \in Starting \cup {"sequence"} => sendSeq = 0
  /\ FetchAt = "connect" => sendSeq = 1
  /\ FetchAt \in (Talking \cup {"judge", "abort"}) \ {"advance"} => sendSeq = asked + 1
  /\ FetchAt = "advance" => sendSeq = asked /\ asked > 0
  /\ FetchAt = "write" => asked < Asked
  /\ FetchAt \in Reads => asked > 0
  /\ FetchAt = "close" => asked = Asked

HolderInv ==
  /\ rxLock = Fetcher <=> FetchAt = "take"
  /\ rxLock = Worker <=> WorkerAt = "push"

\* The server answers what it has got.
MayServe  == IF got = 0 THEN 0 ELSE IF got < Asked THEN 1 ELSE Sent + 1
ServerInv == got <= asked /\ served <= MayServe

\* What the Worker has in hand was sent by the server, and is the next unit
\* where the stream takes it to be.
SegmentInv ==
  WorkerAt # "none" =>
    /\ segment.syn => /\ segment.ack = 1 /\ segment.seq = 0
                      /\ ~segment.data /\ ~segment.fin
    /\ segment.data => segment.seq \in Units /\ segment.seq <= served
    /\ segment.fin => served = Sent + 1 /\ SegmentEnd = Sent + 1
    /\ WorkerAt \in {"lock", "push", "accept", "fail"} =>
         segment.data /\ segment.seq = recvSeq
    /\ segment.ack <= got + 1

\* What was read and what is in the ring are units.
RingInv ==
  /\ SP!Tight(ring) /\ read \in Seq(Units)
  /\ \A i \in 1..ring.count : R!Content(ring)[i] \in Units

\* They are the first units, in their order.
Got == Len(read) + ring.count
NumberInv ==
  ~reopened =>
    /\ \A i \in 1..Len(read) : read[i] = i
    /\ \A i \in 1..ring.count : R!Content(ring)[i] = Len(read) + i

\* recv_seq_ counts them, and the FIN behind them.
CountInv ==
  ~reopened =>
    /\ acked <= recvSeq
    /\ IF WorkerAt = "accept" THEN recvSeq = Got
       ELSE \/ recvSeq = Got + 1
            \/ recvSeq = 0 /\ Got = 0
            \/ recvSeq = Sent + 2 /\ Got = Sent
    /\ ~connected /\ ~closed /\ ~failed =>
         recvSeq = 0 /\ WorkerAt \in {"none", "segment"}
    /\ connected => recvSeq >= 1

\* Where the fetch may be when the stream has ended, and how it has.
EndInv ==
  ~early =>
    /\ reopened => \/ FetchAt \in {"sequence", "connect"} /\ failed
                   \/ FetchAt \in Ending
    /\ FetchAt \in Talking /\ sendSeq = 1 => connected /\ WorkerAt # "fail"
    /\ FetchAt \in {"sequence", "connect"} => ~closed
    /\ FetchAt \in Talking /\ closed => recvSeq = Sent + 2
    /\ FetchAt \in Talking /\ ~connected => WorkerAt \in {"none", "segment"}
    /\ FetchAt \in {"testFailed", "testClosed"} =>
         \/ ring.count = 0
         \/ WorkerAt \in {"push", "fail"}
         \/ failed /\ ~closed /\ ~connected
    /\ eof => Len(read) = Sent /\ ring.count = 0 /\ recvSeq = Sent + 2 /\ sendSeq >= 2

PlaceInv == pc \in [{Fetcher, Worker} -> FetchPc \cup WorkerPc]

StreamInv ==
  /\ StreamTypeOK /\ PlaceInv /\ FreshInv /\ AskedInv /\ HolderInv
  /\ ServerInv /\ SegmentInv /\ RingInv /\ NumberInv /\ CountInv /\ EndInv

LEMMA StreamFacts ==
  ASSUME StreamInv
  PROVE  /\ Asked \in Nat /\ Asked > 1 /\ Sent \in Nat /\ Sent > 0
         /\ Capacity \in Nat /\ Capacity > 0 /\ ReadMax \in Nat /\ ReadMax > 0
         /\ {connected, closed, failed, synSent, eof, early, reopened} \subseteq BOOLEAN
         /\ sendSeq \in Nat /\ sendSeq <= Asked + 1 /\ recvSeq \in Nat
         /\ asked \in Nat /\ asked <= Asked /\ acked \in Nat
         /\ got \in Nat /\ got <= Asked /\ served \in Nat /\ served <= Sent + 1
         /\ read \in Seq(Units) /\ Len(read) \in Nat
         /\ ring.count \in Nat /\ ring.count <= Capacity /\ SP!Tight(ring)
         /\ Got \in Nat /\ segment \in Segment
         /\ FetchAt \in FetchPc /\ WorkerAt \in WorkerPc
<1>1. ring.count \in 0..Capacity
  BY StreamRing DEF StreamInv, RingInv
<1>2. Len(read) \in Nat /\ read \in Seq(Units) /\ SP!Tight(ring)
  BY LenProperties DEF StreamInv, RingInv
<1> QED
  BY <1>1, <1>2, SizesAssumption DEF StreamInv, StreamTypeOK, Got, FetchAt, WorkerAt

\* A thread goes on to p.
LEMMA FetchMoves ==
  ASSUME PlaceInv, NEW p \in FetchPc, Goto(Fetcher, p)
  PROVE  PlaceInv' /\ FetchAt' = p /\ WorkerAt' = WorkerAt
BY DEF PlaceInv, Goto, Fetcher, Worker, FetchAt, WorkerAt

LEMMA WorkerMoves ==
  ASSUME PlaceInv, NEW p \in WorkerPc, Goto(Worker, p)
  PROVE  PlaceInv' /\ WorkerAt' = p /\ FetchAt' = FetchAt
BY DEF PlaceInv, Goto, Fetcher, Worker, FetchAt, WorkerAt

\* What stays as it is when the units do.
LEMMA UnitsStay ==
  ASSUME RingInv, NumberInv, UNCHANGED <<ring, read, reopened>>
  PROVE  RingInv' /\ NumberInv' /\ Got' = Got
BY DEF RingInv, NumberInv, Got

LEMMA CountStays ==
  ASSUME CountInv, UNCHANGED <<ring, read, reopened, recvSeq, acked>>,
         UNCHANGED <<connected, closed, failed>>, WorkerAt' = WorkerAt
  PROVE  CountInv'
BY DEF CountInv, Got

LEMMA SegmentStays ==
  ASSUME ServerInv, SegmentInv, UNCHANGED <<segment, served, got, asked, recvSeq>>,
         WorkerAt' = WorkerAt
  PROVE  ServerInv' /\ SegmentInv'
BY DEF ServerInv, SegmentInv, MayServe, SegmentEnd

\* A step of the check thread that changes none of this leaves to look at only
\* what depends on where that thread is.
Quiet ==
  /\ UNCHANGED <<connected, closed, failed, numbers, buffer, asked, read>>
  /\ UNCHANGED <<segment, synSent, got, served, acked, early, reopened>>

LEMMA QuietKeeps ==
  ASSUME StreamInv, Quiet, PlaceInv', StreamTypeOK', WorkerAt' = WorkerAt,
         FreshInv', AskedInv', EndInv',
         FetchAt = "take" <=> FetchAt' = "take"
  PROVE  StreamInv'
<1>1. RingInv' /\ NumberInv'
  BY UnitsStay DEF StreamInv, Quiet, buffer
<1>2. CountInv'
  BY CountStays DEF StreamInv, Quiet, buffer, numbers
<1>3. ServerInv' /\ SegmentInv'
  BY SegmentStays DEF StreamInv, Quiet, numbers
<1>4. HolderInv'
  BY DEF StreamInv, Quiet, buffer, HolderInv
<1> QED
  BY <1>1, <1>2, <1>3, <1>4 DEF StreamInv

\* Types.
LEMMA QuietTypes ==
  ASSUME StreamInv, Quiet, FetchAt' \in FetchPc, WorkerAt' = WorkerAt,
         configured' \in BOOLEAN, dnsDone' \in BOOLEAN, resolved' \in BOOLEAN,
         remote' \in BOOLEAN, expired' \in BOOLEAN, result' \in Results,
         queried' \in BOOLEAN, eof' \in BOOLEAN, declared' \in Lengths
  PROVE  StreamTypeOK'
BY DEF StreamInv, StreamTypeOK, Quiet, buffer, numbers, FetchAt, WorkerAt

-----------------------------------------------------------------------------
(* The check thread where it only goes on.                                 *)

Still == Talking \ {"advance", "take", "testFailed"}

\* From where to p, and when.
Edge(p) ==
  \/ FetchAt \in {"query", "resolve"} /\ p \in {"resolve", "reset"}
  \/ p = "done"
  \/ FetchAt = "connect" /\ p = "engine" /\ connected /\ ~failed
  \/ FetchAt \in Talking \ {"advance"} /\ p = "abort"
  \/ /\ FetchAt \in Talking \ {"advance"} /\ p \in Still
     /\ p = "testClosed" => FetchAt = "testFailed"
     /\ p = "write" => asked < Asked
     /\ p \in Reads => asked > 0
     /\ p = "close" => asked = Asked

LEMMA EdgeKeeps ==
  ASSUME StreamInv, Quiet, Edge(FetchAt'), FetchAt # "take", PlaceInv', StreamTypeOK',
         WorkerAt' = WorkerAt, eof' = eof
  PROVE  StreamInv'
<1>1. FreshInv'
  BY DEF StreamInv, Quiet, Edge, FreshInv, Starting, Talking, Reads, Still, buffer, numbers
<1>2. AskedInv'
  BY DEF StreamInv, Quiet, Edge, AskedInv, Starting, Dialling, Talking, Reads, Still, numbers
<1>3. FetchAt' # "take"
  BY DEF Edge, Still, Talking, Reads
<1>4. ASSUME FetchAt = "connect" /\ FetchAt' = "engine" /\ connected /\ ~failed
      PROVE  EndInv'
  <2>1. ServerInv /\ SegmentInv /\ asked = 0
    BY <1>4 DEF StreamInv, AskedInv, Dialling
  <2>2. got = 0 /\ served = 0
    BY <2>1, StreamFacts DEF ServerInv, MayServe
  <2>3. WorkerAt # "fail"
    BY <2>1, <2>2 DEF SegmentInv, Units
  <2>4. ~early => ~reopened /\ ~closed /\ ~eof
    BY <1>4 DEF StreamInv, EndInv, AskedInv, Dialling, Ending
  <2>5. /\ connected' = connected /\ closed' = closed /\ early' = early
        /\ reopened' = reopened
    BY DEF Quiet
  <2> QED
    BY <1>4, <2>3, <2>4, <2>5 DEF EndInv
<1>5. ASSUME FetchAt \in {"query", "resolve"} /\ FetchAt' \in {"resolve", "reset"}
      PROVE  EndInv'
  BY <1>5 DEF StreamInv, Quiet, EndInv, Starting, Talking, Reads, Still, Ending,
     buffer, numbers
<1>6. ASSUME FetchAt' = "done"
      PROVE  EndInv'
  BY <1>6 DEF StreamInv, Quiet, EndInv, Talking, Reads, Ending, buffer, numbers
<1>7. ASSUME FetchAt \in Talking \ {"advance"} /\ FetchAt' = "abort"
      PROVE  EndInv'
  BY <1>7 DEF StreamInv, Quiet, EndInv, Talking, Reads, Ending, buffer, numbers
<1>8. ASSUME FetchAt \in Talking, FetchAt' \in Still,
             FetchAt' = "testClosed" => FetchAt = "testFailed"
      PROVE  EndInv'
  <2>1. FetchAt' \in Talking /\ FetchAt' # "testFailed"
    BY <1>8 DEF Still
  <2>2. FetchAt \notin {"sequence", "connect"} /\ FetchAt \notin Ending
        /\ FetchAt' \notin {"sequence", "connect"} /\ FetchAt' \notin Ending
    BY <1>8, <2>1 DEF Talking, Reads, Ending
  <2> QED
    BY <1>8, <2>1, <2>2 DEF StreamInv, Quiet, EndInv, buffer, numbers
<1>9. EndInv'
  BY <1>4, <1>5, <1>6, <1>7, <1>8 DEF Edge
<1> QED
  BY <1>1, <1>2, <1>3, <1>9, QuietKeeps

\* The steps that change nothing but where the thread is; and those that return.
Goes ==
  \/ Resolved \/ Connected
  \/ EngineWrites \/ EngineReads \/ EngineFails \/ ReadingEnds
  \/ WriteUnconnected \/ WriteDone \/ WriteExpires
  \/ ReadExpires \/ ReadTestFailed \/ EngineAtZero
GoesOn == Goes \/ Query \/ ResolveFails \/ ConnectFails \/ Judge

LEMMA GoesWhere ==
  ASSUME StreamInv, GoesOn
  PROVE  FetchAt # "take" /\ \E p \in FetchPc : Goto(Fetcher, p) /\ Edge(p)
<1> DEFINE Where == FetchAt # "take" /\ \E p \in FetchPc : Goto(Fetcher, p) /\ Edge(p)
<1>0. AskedInv /\ asked \in Nat /\ Asked \in Nat /\ Asked > 1 /\ Len(read) \in Nat
  BY StreamFacts DEF StreamInv
<1>1. CASE Query
  BY <1>0, <1>1 DEF Query, Returns, At, FetchAt, FetchPc, Edge, AskedInv, Talking, Reads,
     Still
<1>2. CASE Resolved
  BY <1>0, <1>2 DEF Resolved, At, FetchAt, FetchPc, Edge, AskedInv, Talking, Reads,
     Still
<1>3. CASE ResolveFails
  BY <1>0, <1>3 DEF ResolveFails, Returns, At, FetchAt, FetchPc, Edge, AskedInv, Talking, Reads,
     Still
<1>4. CASE Connected
  BY <1>0, <1>4 DEF Connected, At, FetchAt, FetchPc, Edge, AskedInv, Talking, Reads,
     Still
<1>5. CASE ConnectFails
  BY <1>0, <1>5 DEF ConnectFails, Returns, At, FetchAt, FetchPc, Edge, AskedInv, Talking, Reads,
     Still
<1>6. CASE EngineWrites
  BY <1>0, <1>6 DEF EngineWrites, At, FetchAt, FetchPc, Edge, AskedInv, Talking, Reads,
     Still
<1>7. CASE EngineReads
  BY <1>0, <1>7 DEF EngineReads, At, FetchAt, FetchPc, Edge, AskedInv, Talking, Reads,
     Still
<1>8. CASE EngineFails
  BY <1>0, <1>8 DEF EngineFails, At, FetchAt, FetchPc, Edge, AskedInv, Talking, Reads,
     Still
<1>9. CASE ReadingEnds
  BY <1>0, <1>9 DEF ReadingEnds, Reading, At, FetchAt, FetchPc, Edge, AskedInv, Talking, Reads,
     Still
<1>10. CASE WriteUnconnected
  BY <1>0, <1>10 DEF WriteUnconnected, At, FetchAt, FetchPc, Edge, AskedInv, Talking, Reads,
     Still
<1>11. CASE WriteDone
  BY <1>0, <1>11 DEF WriteDone, At, FetchAt, FetchPc, Edge, AskedInv, Talking, Reads,
     Still
<1>12. CASE WriteExpires
  BY <1>0, <1>12 DEF WriteExpires, At, FetchAt, FetchPc, Edge, AskedInv, Talking, Reads,
     Still
<1>13. CASE ReadExpires
  BY <1>0, <1>13 DEF ReadExpires, At, FetchAt, FetchPc, Edge, AskedInv, Talking, Reads,
     Still
<1>14. CASE ReadTestFailed
  BY <1>0, <1>14 DEF ReadTestFailed, At, FetchAt, FetchPc, Edge, AskedInv, Talking, Reads,
     Still
<1>15. CASE EngineAtZero
  BY <1>0, <1>15 DEF EngineAtZero, At, FetchAt, FetchPc, Edge, AskedInv, Talking, Reads,
     Still
<1>16. CASE Judge
  BY <1>0, <1>16 DEF Judge, Returns, At, FetchAt, FetchPc, Edge, AskedInv, Talking, Reads,
     Still
<1> QED
  BY <1>1, <1>2, <1>3, <1>4, <1>5, <1>6, <1>7, <1>8, <1>9, <1>10, <1>11, <1>12, <1>13,
     <1>14, <1>15, <1>16 DEF GoesOn, Goes

LEMMA GoesOnKeeps ==
  ASSUME StreamInv, GoesOn
  PROVE  StreamInv'
<1>1. PICK p \in FetchPc : Goto(Fetcher, p) /\ Edge(p)
  BY GoesWhere
<1>2. PlaceInv' /\ FetchAt' = p /\ WorkerAt' = WorkerAt
  BY <1>1, FetchMoves DEF StreamInv
<1>3. Edge(FetchAt')
  BY <1>1, <1>2
<1>4. CASE Goes
  <2>1. UNCHANGED <<flags, numbers, buffer, expired, fetch, segment, server, ghosts>>
    BY <1>4 DEF Goes, Resolved, Connected, EngineWrites, EngineReads, EngineFails,
       ReadingEnds, WriteUnconnected, WriteDone, WriteExpires, ReadExpires,
       ReadTestFailed, EngineAtZero
  <2>2. Quiet /\ eof' = eof
    BY <2>1 DEF Quiet, flags, fetch, server, ghosts
  <2>3. StreamTypeOK'
    BY <1>2, <2>1, <2>2, QuietTypes
       DEF StreamInv, StreamTypeOK, flags, fetch, server, ghosts
  <2> QED
    BY <1>2, <1>3, <2>2, <2>3, GoesWhere, EdgeKeeps
<1>5. CASE ResolveFails \/ ConnectFails \/ Judge
  <2>1. /\ UNCHANGED <<flags, numbers, buffer, expired, asked, read, segment, server>>
        /\ UNCHANGED ghosts /\ result' \in Results
    BY <1>5 DEF ResolveFails, ConnectFails, Judge, Returns, Results
  <2>2. Quiet /\ eof' = eof
    BY <2>1 DEF Quiet, flags, server, ghosts
  <2>3. StreamTypeOK'
    BY <1>2, <2>1, <2>2, QuietTypes DEF StreamInv, StreamTypeOK, flags, server, ghosts
  <2> QED
    BY <1>2, <1>3, <2>2, <2>3, GoesWhere, EdgeKeeps
<1>6. CASE Query
  <2>1. Quiet /\ eof' = eof
    BY <1>6 DEF Query, Quiet, ghosts
  <2>2. StreamTypeOK'
    <3>1. result' \in Results
      BY <1>6 DEF Query, Returns, Results, StreamInv, StreamTypeOK
    <3> QED
      BY <1>2, <1>6, <2>1, <3>1, QuietTypes DEF Query, StreamInv, StreamTypeOK, ghosts
  <2> QED
    BY <1>2, <1>3, <2>1, <2>2, GoesWhere, EdgeKeeps
<1> QED
  BY <1>4, <1>5, <1>6 DEF GoesOn

-----------------------------------------------------------------------------
(* The check thread where it changes something.                            *)

\* There are no more units than the server sends.
LEMMA GotBound ==
  ASSUME StreamInv, ~reopened
  PROVE  Got <= Sent
<1>1. /\ \A i \in 1..Len(read) : read[i] = i
      /\ \A i \in 1..ring.count : R!Content(ring)[i] = Len(read) + i
      /\ \A i \in 1..ring.count : R!Content(ring)[i] \in Units
  BY DEF StreamInv, NumberInv, RingInv
<1>2. CASE ring.count > 0
  <2>1. ring.count \in 1..ring.count
    BY <1>2, StreamFacts
  <2>2. Len(read) + ring.count \in Units
    BY <1>1, <2>1
  <2> QED
    BY <2>2, StreamFacts DEF Got, Units
<1>3. CASE ring.count = 0 /\ Len(read) > 0
  <2>1. Len(read) \in 1..Len(read)
    BY <1>3, StreamFacts
  <2>2. read[Len(read)] \in Units
    BY <2>1, StreamFacts, ElementOfSeq
  <2>3. Len(read) \in Units
    BY <1>1, <2>1, <2>2
  <2> QED
    BY <1>3, <2>3, StreamFacts DEF Got, Units
<1>4. CASE ring.count = 0 /\ Len(read) = 0
  BY <1>4, StreamFacts DEF Got
<1> QED
  BY <1>2, <1>3, <1>4, StreamFacts

\* A stream that was closed at its end has given all, and the Worker has none.
LEMMA ClosedIsWhole ==
  ASSUME StreamInv, ~reopened, recvSeq = Sent + 2
  PROVE  Got = Sent /\ WorkerAt \notin {"lock", "push", "accept", "fail"}
<1>1. WorkerAt \notin {"lock", "push", "accept", "fail"}
  <2>1. ASSUME WorkerAt \in {"lock", "push", "accept", "fail"}
        PROVE  recvSeq \in Units
    BY <2>1 DEF StreamInv, SegmentInv
  <2>2. recvSeq \notin Units
    BY SizesAssumption DEF Units
  <2> QED
    BY <2>1, <2>2
<1>2. recvSeq \in {Got + 1, 0} \/ Got = Sent
  BY <1>1 DEF StreamInv, CountInv
<1>3. Got <= Sent
  BY GotBound
<1>4. Got \in Nat /\ Sent \in Nat
  BY StreamFacts
<1>5. Got = Sent
  <2> HIDE DEF Got
  <2> QED
    BY <1>2, <1>3, <1>4
<1> QED
  BY <1>1, <1>5

LEMMA ReadTestClosedKeeps ==
  ASSUME StreamInv, ReadTestClosed
  PROVE  StreamInv'
<1>0. PlaceInv /\ AskedInv /\ EndInv /\ FreshInv
  BY DEF StreamInv
<1>1. /\ FetchAt = "testClosed" /\ eof' = (eof \/ closed)
      /\ FetchAt' = IF closed THEN "zero" ELSE "pop"
      /\ PlaceInv' /\ WorkerAt' = WorkerAt
  <2>1. FetchAt = "testClosed" /\ eof' = (eof \/ closed)
        /\ Goto(Fetcher, IF closed THEN "zero" ELSE "pop")
    BY DEF ReadTestClosed, At, FetchAt
  <2> QED
    BY <1>0, <2>1, FetchMoves DEF FetchPc
<1>2. Quiet
  BY DEF ReadTestClosed, Quiet, flags, fetch, server
<1>3. StreamTypeOK'
  BY <1>1, <1>2, QuietTypes, StreamFacts
     DEF ReadTestClosed, flags, fetch, server, FetchPc, StreamInv, StreamTypeOK
<1>4. FreshInv' /\ AskedInv'
  <2>1. asked > 0 /\ sendSeq = asked + 1 /\ sendSeq <= asked + 1
    BY <1>0, <1>1 DEF AskedInv, Talking, Reads
  <2>2. FetchAt' \in {"zero", "pop"} /\ sendSeq' = sendSeq /\ asked' = asked
    BY <1>1, <1>2 DEF Quiet, numbers
  <2> QED
    BY <2>1, <2>2 DEF AskedInv, FreshInv, Starting, Dialling, Talking, Reads
<1>5. EndInv'
  <2> SUFFICES ASSUME ~early
               PROVE  EndInv'
    BY <1>2 DEF EndInv, Quiet
  <2>1. ASSUME closed
        PROVE  /\ Len(read) = Sent /\ ring.count = 0
               /\ recvSeq = Sent + 2 /\ sendSeq >= 2
    <3>1. recvSeq = Sent + 2 /\ ~reopened
      BY <1>0, <1>1, <2>1 DEF EndInv, Talking, Reads, Ending
    <3>2. Got = Sent /\ WorkerAt \notin {"push", "fail"}
      BY <3>1, ClosedIsWhole
    <3>3. ring.count = 0
      BY <1>0, <1>1, <2>1, <3>2 DEF EndInv
    <3>4. asked > 0 /\ sendSeq = asked + 1
      BY <1>0, <1>1 DEF AskedInv, Talking, Reads
    <3> QED
      BY <3>1, <3>2, <3>3, <3>4, StreamFacts DEF Got
  <2>2. FetchAt \in Talking /\ FetchAt' \in {"zero", "pop"}
    BY <1>1 DEF Talking, Reads
  <2> QED
    BY <1>0, <1>1, <1>2, <2>1, <2>2
       DEF EndInv, Quiet, Talking, Reads, Ending, buffer, numbers
<1> QED
  BY <1>1, <1>2, <1>3, <1>4, <1>5, QuietKeeps

LEMMA ReadTryKeeps ==
  ASSUME StreamInv, ReadTry
  PROVE  StreamInv'
<1>0. PlaceInv /\ AskedInv /\ EndInv /\ FreshInv /\ HolderInv /\ StreamTypeOK
  BY DEF StreamInv
<1>1. /\ FetchAt = "pop"
      /\ \/ rxLock = Nobody /\ rxLock' = Fetcher /\ FetchAt' = "take"
         \/ rxLock # Nobody /\ rxLock' = rxLock /\ FetchAt' = "testFailed"
      /\ PlaceInv' /\ WorkerAt' = WorkerAt
  <2>1. FetchAt = "pop"
        /\ \/ rxLock = Nobody /\ rxLock' = Fetcher /\ Goto(Fetcher, "take")
           \/ rxLock # Nobody /\ rxLock' = rxLock /\ Goto(Fetcher, "testFailed")
    BY DEF ReadTry, At, FetchAt
  <2> QED
    BY <1>0, <2>1, FetchMoves DEF FetchPc
<1>2. /\ UNCHANGED <<flags, numbers, ring, expired, fetch, segment, server, ghosts>>
  BY DEF ReadTry
<1>3. StreamTypeOK'
  BY <1>0, <1>1, <1>2 DEF StreamTypeOK, flags, numbers, fetch, server, ghosts, FetchAt,
     WorkerAt, FetchPc
<1>4. HolderInv'
  BY <1>0, <1>1 DEF HolderInv, Fetcher, Worker, Nobody
<1>5. FreshInv' /\ AskedInv'
  BY <1>0, <1>1, <1>2 DEF FreshInv, AskedInv, Starting, Dialling, Talking, Reads, flags,
     numbers, fetch, ghosts
<1>6. RingInv' /\ NumberInv'
  BY <1>2, UnitsStay DEF StreamInv, fetch, ghosts
<1>7. CountInv'
  BY <1>1, <1>2, CountStays DEF StreamInv, fetch, ghosts, flags, numbers
<1>8. ServerInv' /\ SegmentInv'
  BY <1>1, <1>2, SegmentStays DEF StreamInv, server, fetch, numbers
<1>9. EndInv'
  <2>1. FetchAt \in Talking /\ FetchAt' \in Talking /\ FetchAt' # "testClosed"
    BY <1>1 DEF Talking, Reads
  <2>2. FetchAt' = "testFailed" => WorkerAt = "push"
    <3>1. FetchAt' = "testFailed" => rxLock # Nobody
      BY <1>1
    <3>2. rxLock # Fetcher
      BY <1>0, <1>1 DEF HolderInv
    <3> QED
      BY <1>0, <3>1, <3>2 DEF HolderInv, StreamTypeOK
  <2>3. FetchAt \notin {"sequence", "connect"} /\ FetchAt \notin Ending
        /\ FetchAt' \notin {"sequence", "connect"} /\ FetchAt' \notin Ending
    BY <1>1 DEF Ending
  <2> QED
    BY <1>0, <1>1, <1>2, <2>1, <2>2, <2>3
       DEF EndInv, flags, numbers, fetch, ghosts
<1> QED
  BY <1>1, <1>3, <1>4, <1>5, <1>6, <1>7, <1>8, <1>9 DEF StreamInv

LEMMA WriteSentKeeps ==
  ASSUME StreamInv, WriteSent
  PROVE  StreamInv'
<1>0. /\ PlaceInv /\ AskedInv /\ EndInv /\ FreshInv /\ HolderInv /\ StreamTypeOK
      /\ CountInv /\ ServerInv /\ SegmentInv
  BY DEF StreamInv
<1>1. /\ FetchAt = "write" /\ FetchAt' = "advance" /\ asked' = asked + 1
      /\ PlaceInv' /\ WorkerAt' = WorkerAt
      /\ acked' \in {acked, recvSeq} /\ asked < Asked /\ sendSeq = asked + 1
  <2>1. FetchAt = "write" /\ Goto(Fetcher, "advance") /\ asked' = asked + 1
        /\ acked' \in {acked, recvSeq}
    BY DEF WriteSent, At, FetchAt, Acknowledges
  <2> QED
    BY <1>0, <2>1, FetchMoves DEF FetchPc, AskedInv, Talking
<1>2. /\ UNCHANGED <<flags, numbers, buffer, expired, read, result>>
      /\ UNCHANGED <<segment, server, eof, early, reopened>>
  BY DEF WriteSent
<1>3. StreamTypeOK'
  <2>1. asked' \in 0..Asked
    BY <1>0, <1>1, SizesAssumption DEF StreamTypeOK
  <2>2. acked' \in 0..(Sent + 2)
    BY <1>0, <1>1 DEF StreamTypeOK
  <2> QED
    BY <1>0, <1>1, <1>2, <2>1, <2>2 DEF StreamTypeOK, flags, numbers, buffer, server, FetchAt,
       WorkerAt, FetchPc
<1>4. HolderInv'
  BY <1>0, <1>1, <1>2 DEF HolderInv, buffer
<1>5. FreshInv' /\ AskedInv'
  <2>1. asked \in Nat
    BY StreamFacts
  <2> QED
    BY <1>1, <1>2, <2>1 DEF FreshInv, AskedInv, Starting, Dialling, Talking, Reads, numbers
<1>6. RingInv' /\ NumberInv'
  BY <1>2, UnitsStay DEF StreamInv, buffer
<1>7. CountInv'
  BY <1>0, <1>1, <1>2, StreamFacts DEF CountInv, Got, numbers, flags, buffer
<1>8. ServerInv' /\ SegmentInv'
  BY <1>0, <1>1, <1>2, StreamFacts
     DEF ServerInv, MayServe, SegmentInv, SegmentEnd, server, numbers
<1>9. EndInv'
  <2>1. FetchAt \in Talking /\ FetchAt' \in Talking
        /\ FetchAt' \notin {"testClosed", "testFailed"}
    BY <1>1 DEF Talking, Reads
  <2>2. FetchAt \notin {"sequence", "connect"} /\ FetchAt \notin Ending
        /\ FetchAt' \notin {"sequence", "connect"} /\ FetchAt' \notin Ending
    BY <1>1 DEF Ending
  <2> QED
    BY <1>0, <1>1, <1>2, <2>1, <2>2 DEF EndInv, flags, numbers, buffer
<1> QED
  BY <1>1, <1>3, <1>4, <1>5, <1>6, <1>7, <1>8, <1>9 DEF StreamInv

LEMMA WriteNumberedKeeps ==
  ASSUME StreamInv, WriteNumbered
  PROVE  StreamInv'
<1>0. /\ PlaceInv /\ AskedInv /\ EndInv /\ FreshInv /\ HolderInv /\ StreamTypeOK
  BY DEF StreamInv
<1>1. /\ FetchAt = "advance" /\ FetchAt' = "acknowledge" /\ sendSeq' = sendSeq + 1
      /\ PlaceInv' /\ WorkerAt' = WorkerAt
      /\ sendSeq = asked /\ asked > 0
  <2>1. FetchAt = "advance" /\ Goto(Fetcher, "acknowledge") /\ sendSeq' = sendSeq + 1
    BY DEF WriteNumbered, At, FetchAt
  <2> QED
    BY <1>0, <2>1, FetchMoves DEF FetchPc, AskedInv
<1>2. /\ UNCHANGED <<flags, recvSeq, peerAck, buffer, expired, fetch>>
      /\ UNCHANGED <<segment, server, ghosts>>
  BY DEF WriteNumbered
<1>3. StreamTypeOK'
  <2>1. sendSeq' \in 0..(Asked + 1)
    BY <1>1, StreamFacts
  <2> QED
    BY <1>0, <1>1, <1>2, <2>1 DEF StreamTypeOK, flags, fetch, buffer, server, ghosts,
       FetchAt, WorkerAt, FetchPc
<1>4. HolderInv'
  BY <1>0, <1>1, <1>2 DEF HolderInv, buffer
<1>5. FreshInv' /\ AskedInv'
  <2>1. asked \in Nat
    BY StreamFacts
  <2> QED
    BY <1>1, <1>2, <2>1 DEF FreshInv, AskedInv, Starting, Dialling, Talking, Reads, fetch
<1>6. RingInv' /\ NumberInv'
  BY <1>2, UnitsStay DEF StreamInv, buffer, fetch, ghosts
<1>7. CountInv'
  BY <1>1, <1>2, CountStays DEF StreamInv, fetch, ghosts, flags, buffer
<1>8. ServerInv' /\ SegmentInv'
  BY <1>1, <1>2, SegmentStays DEF StreamInv, server, fetch
<1>9. EndInv'
  <2>1. FetchAt \in Talking /\ FetchAt' \in Talking
        /\ FetchAt' \notin {"testClosed", "testFailed"}
    BY <1>1 DEF Talking, Reads
  <2>2. FetchAt \notin {"sequence", "connect"} /\ FetchAt \notin Ending
        /\ FetchAt' \notin {"sequence", "connect"} /\ FetchAt' \notin Ending
    BY <1>1 DEF Ending
  <2>3. sendSeq' # 1 /\ (sendSeq >= 2 => sendSeq' >= 2)
    BY <1>1, StreamFacts
  <2> QED
    BY <1>0, <1>1, <1>2, <2>1, <2>2, <2>3 DEF EndInv, flags, fetch, buffer, ghosts
<1> QED
  BY <1>1, <1>3, <1>4, <1>5, <1>6, <1>7, <1>8, <1>9 DEF StreamInv

LEMMA WriteRefusedKeeps ==
  ASSUME StreamInv, WriteRefused
  PROVE  StreamInv'
<1>0. /\ PlaceInv /\ AskedInv /\ EndInv /\ FreshInv /\ HolderInv /\ StreamTypeOK
      /\ CountInv
  BY DEF StreamInv
<1>1. /\ FetchAt = "write" /\ FetchAt' = "abort" /\ failed' = TRUE /\ connected' = FALSE
      /\ PlaceInv' /\ WorkerAt' = WorkerAt
  <2>1. /\ FetchAt = "write" /\ Goto(Fetcher, "abort")
        /\ failed' = TRUE /\ connected' = FALSE
    BY DEF WriteRefused, At, FetchAt
  <2> QED
    BY <1>0, <2>1, FetchMoves DEF FetchPc
<1>2. /\ UNCHANGED <<configured, dnsDone, resolved, remote, closed, numbers>>
      /\ UNCHANGED <<buffer, expired, fetch, segment, server, ghosts>>
  BY DEF WriteRefused
<1>3. StreamTypeOK'
  BY <1>0, <1>1, <1>2 DEF StreamTypeOK, numbers, fetch, buffer, server, ghosts,
     FetchAt, WorkerAt, FetchPc
<1>4. HolderInv'
  BY <1>0, <1>1, <1>2 DEF HolderInv, buffer
<1>5. FreshInv' /\ AskedInv'
  BY <1>0, <1>1, <1>2 DEF FreshInv, AskedInv, Starting, Dialling, Talking, Reads, fetch,
     numbers, ghosts
<1>6. RingInv' /\ NumberInv'
  BY <1>2, UnitsStay DEF StreamInv, buffer, fetch, ghosts
<1>7. CountInv'
  BY <1>0, <1>1, <1>2 DEF CountInv, Got, fetch, ghosts, numbers, buffer
<1>8. ServerInv' /\ SegmentInv'
  BY <1>1, <1>2, SegmentStays DEF StreamInv, server, fetch, numbers
<1>9. EndInv'
  <2>1. FetchAt' = "abort" /\ FetchAt' \in Ending /\ FetchAt' \notin Talking
    BY <1>1 DEF Talking, Reads, Ending
  <2> QED
    BY <1>0, <1>1, <1>2, <2>1 DEF EndInv, fetch, buffer, ghosts, numbers
<1> QED
  BY <1>1, <1>3, <1>4, <1>5, <1>6, <1>7, <1>8, <1>9 DEF StreamInv

LEMMA SynNumberedKeeps ==
  ASSUME StreamInv, SynNumbered
  PROVE  StreamInv'
<1>0. /\ PlaceInv /\ AskedInv /\ EndInv /\ FreshInv /\ HolderInv /\ StreamTypeOK
  BY DEF StreamInv
<1>1. /\ FetchAt = "sequence" /\ FetchAt' = "connect" /\ sendSeq' = 1
      /\ PlaceInv' /\ WorkerAt' = WorkerAt
  <2>1. FetchAt = "sequence" /\ Goto(Fetcher, "connect") /\ sendSeq' = 1
    BY DEF SynNumbered, At, FetchAt
  <2> QED
    BY <1>0, <2>1, FetchMoves DEF FetchPc
<1>2. /\ UNCHANGED <<flags, recvSeq, peerAck, buffer, expired, fetch>>
      /\ UNCHANGED <<segment, server, ghosts>>
  BY DEF SynNumbered
<1>3. StreamTypeOK'
  <2>1. sendSeq' \in 0..(Asked + 1)
    BY <1>1, StreamFacts
  <2> QED
    BY <1>0, <1>1, <1>2, <2>1 DEF StreamTypeOK, flags, fetch, buffer, server, ghosts,
       FetchAt, WorkerAt, FetchPc
<1>4. HolderInv'
  BY <1>0, <1>1, <1>2 DEF HolderInv, buffer
<1>5. FreshInv' /\ AskedInv'
  BY <1>0, <1>1, <1>2 DEF FreshInv, AskedInv, Starting, Dialling, Talking, Reads, fetch,
     ghosts
<1>6. RingInv' /\ NumberInv'
  BY <1>2, UnitsStay DEF StreamInv, buffer, fetch, ghosts
<1>7. CountInv'
  BY <1>1, <1>2, CountStays DEF StreamInv, fetch, ghosts, flags, buffer
<1>8. ServerInv' /\ SegmentInv'
  BY <1>1, <1>2, SegmentStays DEF StreamInv, server, fetch
<1>9. EndInv'
  <2>1. FetchAt \notin Talking \cup Ending /\ FetchAt' \notin Talking \cup Ending
        /\ ~eof /\ ~eof'
    BY <1>0, <1>1, <1>2 DEF Talking, Reads, Ending, AskedInv, Dialling, ghosts
  <2> QED
    BY <1>0, <1>1, <1>2, <2>1 DEF EndInv, Talking, Reads, flags, fetch, buffer, ghosts
<1> QED
  BY <1>1, <1>3, <1>4, <1>5, <1>6, <1>7, <1>8, <1>9 DEF StreamInv

LEMMA SendSynKeeps ==
  ASSUME StreamInv, SendSyn
  PROVE  StreamInv'
<1>0. /\ PlaceInv /\ AskedInv /\ EndInv /\ FreshInv /\ HolderInv /\ StreamTypeOK
  BY DEF StreamInv
<1>1. /\ FetchAt = "syn" /\ FetchAt' \in {"sequence", "done"}
      /\ synSent' \in BOOLEAN /\ result' \in Results
      /\ PlaceInv' /\ WorkerAt' = WorkerAt
  <2>1. FetchAt = "syn" /\ synSent' \in BOOLEAN /\ result' \in Results
        /\ (Goto(Fetcher, "sequence") \/ Goto(Fetcher, "done"))
    BY <1>0 DEF SendSyn, At, FetchAt, Returns, Results, StreamTypeOK
  <2> QED
    BY <1>0, <2>1, FetchMoves DEF FetchPc
<1>2. /\ UNCHANGED <<flags, numbers, buffer, expired, asked, read>>
      /\ UNCHANGED <<segment, queried, got, served, declared, ghosts>>
  BY DEF SendSyn
<1>3. StreamTypeOK'
  BY <1>0, <1>1, <1>2 DEF StreamTypeOK, flags, numbers, buffer, ghosts,
     FetchAt, WorkerAt, FetchPc
<1>4. HolderInv'
  BY <1>0, <1>1, <1>2 DEF HolderInv, buffer
<1>5. FreshInv' /\ AskedInv'
  BY <1>0, <1>1, <1>2 DEF FreshInv, AskedInv, Starting, Dialling, Talking, Reads,
     ghosts, numbers
<1>6. RingInv' /\ NumberInv'
  BY <1>2, UnitsStay DEF StreamInv, buffer, ghosts
<1>7. CountInv'
  BY <1>1, <1>2, CountStays DEF StreamInv, numbers, ghosts, flags, buffer
<1>8. ServerInv' /\ SegmentInv'
  BY <1>1, <1>2, SegmentStays DEF StreamInv, numbers
<1>9. EndInv'
  <2>1. FetchAt \notin Talking \cup Ending \cup {"sequence", "connect"}
        /\ FetchAt' \notin Talking /\ ~eof /\ ~eof'
        /\ ~closed /\ ~closed'
    BY <1>0, <1>1, <1>2 DEF Talking, Reads, Ending, AskedInv, Dialling, Starting, ghosts,
       FreshInv, flags
  <2>2. ~early => ~reopened
    BY <1>0, <2>1 DEF EndInv
  <2> QED
    BY <1>2, <2>1, <2>2 DEF EndInv, Talking, Reads, ghosts
<1> QED
  BY <1>1, <1>3, <1>4, <1>5, <1>6, <1>7, <1>8, <1>9 DEF StreamInv

LEMMA ConnectResetKeeps ==
  ASSUME StreamInv, ConnectReset
  PROVE  StreamInv'
<1>0. /\ PlaceInv /\ AskedInv /\ EndInv /\ FreshInv /\ HolderInv /\ StreamTypeOK
      /\ SegmentInv /\ ServerInv
  BY DEF StreamInv
<1>1. /\ FetchAt = "reset" /\ FetchAt' = "syn"
      /\ PlaceInv' /\ WorkerAt' = WorkerAt
  <2>1. FetchAt = "reset" /\ Goto(Fetcher, "syn")
    BY DEF ConnectReset, At, FetchAt
  <2> QED
    BY <1>0, <2>1, FetchMoves DEF FetchPc
<1>2. /\ WorkerAt = "none" /\ ~connected /\ ~closed /\ ~failed /\ recvSeq = 0
  BY <1>0, <1>1 DEF FreshInv, Starting
<1>3. /\ UNCHANGED <<configured, dnsDone, resolved, sendSeq, buffer>>
      /\ UNCHANGED <<expired, fetch, segment, server, ghosts>>
      /\ remote' = TRUE /\ peerAck' = 0
      /\ UNCHANGED <<connected, closed, failed, recvSeq>>
  <2>1. connected \in BOOLEAN /\ closed \in BOOLEAN /\ failed \in BOOLEAN
    BY <1>0 DEF StreamTypeOK
  <2> QED
    BY <1>2, <2>1 DEF ConnectReset
<1>4. StreamTypeOK'
  BY <1>0, <1>1, <1>3, StreamFacts DEF StreamTypeOK, fetch, buffer, server, ghosts,
     FetchAt, WorkerAt, FetchPc
<1>5. HolderInv'
  BY <1>0, <1>1, <1>3 DEF HolderInv, buffer
<1>6. FreshInv' /\ AskedInv'
  BY <1>0, <1>1, <1>3 DEF FreshInv, AskedInv, Starting, Dialling, Talking, Reads, fetch,
     ghosts, buffer, server
<1>7. RingInv' /\ NumberInv'
  BY <1>3, UnitsStay DEF StreamInv, buffer, fetch, ghosts
<1>8. CountInv'
  BY <1>1, <1>3, CountStays DEF StreamInv, fetch, ghosts, buffer
<1>9. ServerInv' /\ SegmentInv'
  BY <1>0, <1>1, <1>3, SegmentStays DEF server, fetch
<1>10. EndInv'
  <2>1. FetchAt \notin Talking \cup Ending \cup {"sequence", "connect"}
        /\ FetchAt' \notin Talking \cup {"sequence", "connect"} /\ ~eof /\ ~eof'
    BY <1>0, <1>1, <1>3 DEF Talking, Reads, Ending, AskedInv, Dialling, Starting, ghosts
  <2>2. ~early => ~reopened
    BY <1>0, <2>1 DEF EndInv
  <2> QED
    BY <1>3, <2>1, <2>2 DEF EndInv, Talking, Reads, ghosts
<1> QED
  BY <1>1, <1>4, <1>5, <1>6, <1>7, <1>8, <1>9, <1>10 DEF StreamInv

LEMMA ShutsKeeps ==
  ASSUME StreamInv, Abort \/ Close
  PROVE  StreamInv'
<1>0. /\ PlaceInv /\ AskedInv /\ EndInv /\ FreshInv /\ HolderInv /\ StreamTypeOK
      /\ CountInv
  BY DEF StreamInv
<1>1. /\ \/ FetchAt = "abort" /\ FetchAt' = "done"
         \/ FetchAt = "close" /\ FetchAt' = "judge"
      /\ PlaceInv' /\ WorkerAt' = WorkerAt
      /\ connected' = FALSE /\ closed' = TRUE /\ acked' \in {acked, recvSeq}
      /\ result' \in Results
  <2>1. /\ \/ FetchAt = "abort" /\ Goto(Fetcher, "done")
           \/ FetchAt = "close" /\ Goto(Fetcher, "judge")
        /\ connected' = FALSE /\ closed' = TRUE /\ acked' \in {acked, recvSeq}
        /\ result' \in Results
    BY <1>0 DEF Abort, Close, At, FetchAt, Shuts, Acknowledges, Returns, Results, fetch,
       StreamTypeOK
  <2> QED
    BY <1>0, <2>1, FetchMoves DEF FetchPc
<1>2. /\ UNCHANGED <<configured, dnsDone, resolved, remote, failed, numbers>>
      /\ UNCHANGED <<buffer, expired, asked, read, segment, server>>
      /\ UNCHANGED <<eof, early, reopened>>
  BY DEF Abort, Close, fetch
<1>3. StreamTypeOK'
  BY <1>0, <1>1, <1>2 DEF StreamTypeOK, numbers, buffer, server,
     FetchAt, WorkerAt, FetchPc
<1>4. HolderInv'
  BY <1>0, <1>1, <1>2 DEF HolderInv, buffer
<1>5. FreshInv' /\ AskedInv'
  BY <1>0, <1>1, <1>2 DEF FreshInv, AskedInv, Starting, Dialling, Talking, Reads,
     numbers
<1>6. RingInv' /\ NumberInv'
  BY <1>2, UnitsStay DEF StreamInv, buffer
<1>7. CountInv'
  BY <1>0, <1>1, <1>2, StreamFacts DEF CountInv, Got, numbers, buffer
<1>8. ServerInv' /\ SegmentInv'
  BY <1>1, <1>2, SegmentStays DEF StreamInv, server, numbers
<1>9. EndInv'
  <2>1. FetchAt' \in Ending /\ FetchAt' \notin Talking
    BY <1>1 DEF Talking, Reads, Ending
  <2> QED
    BY <1>0, <1>2, <2>1 DEF EndInv, Talking, Reads, Ending, buffer, numbers
<1> QED
  BY <1>1, <1>3, <1>4, <1>5, <1>6, <1>7, <1>8, <1>9 DEF StreamInv

\* PopRx moves units from the head of the ring to the end of what was read.
LEMMA TakenUnits ==
  ASSUME StreamInv, NEW n \in 0..ring.count,
         read' = read \o SubSeq(R!Content(ring), 1, n),
         ring' = SP!Skipped(ring, n), reopened' = reopened
  PROVE  /\ RingInv' /\ NumberInv' /\ Got' = Got
         /\ Len(read') = Len(read) + n /\ ring'.count = ring.count - n
<1> DEFINE c == ring.count
           m == Len(read)
           q == R!Content(ring)
           p == R!Content(ring')
           t == SubSeq(q, 1, n)
<1>1. c \in Nat /\ m \in Nat /\ n \in Nat /\ n <= c /\ read \in Seq(Units)
      /\ SP!Tight(ring)
  BY StreamFacts
<1>2. \A i \in 1..c : q[i] \in Units
  BY DEF StreamInv, RingInv
<1>3. /\ SP!Tight(ring') /\ ring'.count = c - n
      /\ \A i \in 1..(c - n) : p[i] = q[i + n]
  BY <1>1, StreamRing
<1>4. t \in Seq(Units) /\ Len(t) = n /\ \A i \in 1..n : t[i] = q[i]
  <2>1. \A i \in 1..n : q[i] \in Units
    BY <1>1, <1>2
  <2> HIDE DEF q
  <2> QED
    BY <1>1, <2>1, SubSeqProperties
<1> HIDE DEF c, m, q, p, t
<1>5. /\ read' \in Seq(Units) /\ Len(read') = m + n
      /\ \A i \in 1..(m + n) : read'[i] = IF i <= m THEN read[i] ELSE t[i - m]
  <2>1. read' = read \o t /\ m = Len(read)
    BY DEF t, q, m
  <2>2. /\ read \o t \in Seq(Units) /\ Len(read \o t) = Len(read) + Len(t)
        /\ \A i \in 1..(Len(read) + Len(t)) :
             (read \o t)[i] = IF i <= Len(read) THEN read[i] ELSE t[i - Len(read)]
    BY <1>1, <1>4, ConcatProperties
  <2>3. Len(read) = m /\ Len(t) = n
    BY <1>4, <2>1
  <2> QED
    BY <2>1, <2>2, <2>3
<1>6. RingInv'
  <2>1. ASSUME NEW i \in 1..(c - n)
        PROVE  p[i] \in Units
    <3>1. i + n \in 1..c
      BY <1>1, <2>1
    <3> QED
      BY <1>2, <1>3, <2>1, <3>1
  <2> QED
    BY <1>3, <1>5, <2>1 DEF RingInv, p
<1>7. NumberInv'
  <2> SUFFICES ASSUME ~reopened
               PROVE  /\ \A i \in 1..(m + n) : read'[i] = i
                      /\ \A i \in 1..(c - n) : p[i] = m + n + i
    BY <1>3, <1>5 DEF NumberInv, p
  <2>1. /\ \A i \in 1..m : read[i] = i
        /\ \A i \in 1..c : q[i] = m + i
    BY DEF StreamInv, NumberInv, m, c, q
  <2>2. ASSUME NEW i \in 1..(m + n)
        PROVE  read'[i] = i
    <3>1. CASE i <= m
      <4>1. i \in 1..m
        BY <1>1, <2>2, <3>1
      <4> QED
        BY <1>5, <2>1, <2>2, <3>1, <4>1
    <3>2. CASE ~(i <= m)
      <4>1. i - m \in 1..n /\ i - m \in 1..c /\ m + (i - m) = i
        BY <1>1, <2>2, <3>2
      <4> QED
        BY <1>4, <1>5, <2>1, <2>2, <3>2, <4>1
    <3> QED
      BY <3>1, <3>2
  <2>3. ASSUME NEW i \in 1..(c - n)
        PROVE  p[i] = m + n + i
    <3>1. i + n \in 1..c /\ m + (i + n) = m + n + i
      BY <1>1, <2>3
    <3> QED
      BY <1>3, <2>1, <2>3, <3>1
  <2> QED
    BY <2>2, <2>3
<1>8. Got' = Got
  BY <1>1, <1>3, <1>5 DEF Got, c, m
<1> QED
  BY <1>3, <1>5, <1>6, <1>7, <1>8 DEF c, m

LEMMA ReadTakeKeeps ==
  ASSUME StreamInv, ReadTake
  PROVE  StreamInv'
<1>0. /\ PlaceInv /\ AskedInv /\ EndInv /\ FreshInv /\ HolderInv /\ StreamTypeOK
      /\ CountInv
  BY DEF StreamInv
<1> DEFINE n == IF ring.count < ReadMax THEN ring.count ELSE ReadMax
<1>1. /\ n \in 0..ring.count /\ n \in Nat /\ ring.count \in Nat
      /\ (n = 0 => ring.count = 0)
  BY StreamFacts
<1>2. /\ read' = read \o SubSeq(R!Content(ring), 1, n)
      /\ ring' = SP!Skipped(ring, n)
      /\ rxLock' = Nobody
      /\ UNCHANGED <<flags, numbers, expired, asked, result, segment, server, ghosts>>
  BY DEF ReadTake, SP!Skipped
<1>3. /\ FetchAt = "take" /\ FetchAt' = (IF n = 0 THEN "testFailed" ELSE "engine")
      /\ PlaceInv' /\ WorkerAt' = WorkerAt
  <2>1. FetchAt = "take" /\ Goto(Fetcher, IF n = 0 THEN "testFailed" ELSE "engine")
    BY DEF ReadTake, At, FetchAt
  <2> QED
    BY <1>0, <2>1, FetchMoves DEF FetchPc
<1> HIDE DEF n
<1>4. /\ RingInv' /\ NumberInv' /\ Got' = Got
      /\ Len(read') = Len(read) + n /\ ring'.count = ring.count - n
  BY <1>1, <1>2, TakenUnits DEF ghosts
<1>5. StreamTypeOK'
  <2>1. ring' \in R!Ring /\ read' \in Seq(Units)
    BY <1>4, StreamRing DEF RingInv
  <2> QED
    BY <1>0, <1>2, <1>3, <2>1 DEF StreamTypeOK, flags, numbers, server, ghosts,
       FetchAt, WorkerAt, FetchPc
<1>6. HolderInv'
  <2>1. FetchAt' # "take" /\ rxLock = Fetcher
    BY <1>0, <1>3 DEF HolderInv
  <2> QED
    BY <1>0, <1>2, <1>3, <2>1 DEF HolderInv, Nobody, Fetcher, Worker
<1>7. FreshInv' /\ AskedInv'
  <2>1. FetchAt' \in {"testFailed", "engine"}
    BY <1>3
  <2> QED
    BY <1>0, <1>2, <1>3, <2>1 DEF FreshInv, AskedInv, Starting, Dialling, Talking, Reads,
       flags, numbers, ghosts
<1>8. CountInv'
  BY <1>0, <1>2, <1>3, <1>4 DEF CountInv, flags, numbers, ghosts
<1>9. ServerInv' /\ SegmentInv'
  BY <1>2, <1>3, SegmentStays DEF StreamInv, server, numbers
<1>10. EndInv'
  <2>1. FetchAt \in Talking /\ FetchAt' \in Talking /\ FetchAt' # "testClosed"
    BY <1>3 DEF Talking, Reads
  <2>2. FetchAt \notin {"sequence", "connect"} /\ FetchAt \notin Ending
        /\ FetchAt' \notin {"sequence", "connect"} /\ FetchAt' \notin Ending
    BY <1>3 DEF Ending
  <2>3. FetchAt' = "testFailed" => ring'.count = 0
    BY <1>1, <1>3, <1>4
  <2>4. ring.count = 0 => n = 0
    BY <1>1
  <2>5. ring.count = 0 => ring'.count = 0 /\ Len(read') = Len(read)
    BY <1>4, <2>4, StreamFacts
  <2> QED
    BY <1>0, <1>2, <1>3, <2>1, <2>2, <2>3, <2>5 DEF EndInv, flags, numbers, ghosts
<1> QED
  BY <1>3, <1>4, <1>5, <1>6, <1>7, <1>8, <1>9, <1>10 DEF StreamInv

\* A segment by its fields.
SegmentOf(q, d, a, y, f, r) ==
  [seq |-> q, data |-> d, ack |-> a, syn |-> y, fin |-> f, rst |-> r]

LEMMA SegmentIs ==
  ASSUME NEW q \in 0..(Sent + 1), NEW d \in BOOLEAN, NEW a \in 0..(Asked + 1),
         NEW y \in BOOLEAN, NEW f \in BOOLEAN, NEW r \in BOOLEAN,
         NEW s, s = SegmentOf(q, d, a, y, f, r)
  PROVE  /\ s \in Segment
         /\ s.seq = q /\ s.data = d /\ s.ack = a /\ s.syn = y /\ s.fin = f /\ s.rst = r
BY DEF SegmentOf, Segment

Zeroes == /\ 0 \in 0..Asked /\ 0 \in 0..(Asked + 1) /\ 1 \in 0..(Asked + 1)
          /\ 0 \in 0..(Sent + 1) /\ 0 \in 0..(Sent + 2)

LEMMA ZeroesAre == Zeroes
BY SizesAssumption DEF Zeroes

\* A stream without units.
LEMMA NoUnits ==
  ASSUME Len(read) = 0, read \in Seq(Units), ring = R!EmptyRing
  PROVE  RingInv /\ NumberInv /\ Got = 0 /\ ring.count = 0
<1>1. SP!Tight(ring) /\ ring.count = 0
  BY StreamRing
<1> QED
  BY <1>1 DEF RingInv, NumberInv, Got

LEMMA StreamInitially ==
  ASSUME StreamInit
  PROVE  StreamInv
<1>1. /\ configured = FALSE /\ dnsDone = FALSE /\ resolved = FALSE
      /\ remote = FALSE /\ connected = FALSE /\ closed = FALSE /\ failed = FALSE
      /\ sendSeq = 0 /\ recvSeq = 0 /\ peerAck = 0
      /\ ring = R!EmptyRing /\ rxLock = Nobody /\ expired = FALSE
      /\ asked = 0 /\ read = <<>> /\ result = "none" /\ segment = NoSegment
      /\ queried = FALSE /\ synSent = FALSE /\ got = 0 /\ served = 0
      /\ declared \in Lengths
      /\ acked = 0 /\ eof = FALSE /\ early = FALSE /\ reopened = FALSE
  BY DEF StreamInit
<1>2. FetchAt = "idle" /\ WorkerAt = "none" /\ PlaceInv
  BY DEF StreamInit, FetchAt, WorkerAt, PlaceInv, Fetcher, Worker, FetchPc, WorkerPc
<1>3. Len(read) = 0 /\ read \in Seq(Units)
  BY <1>1
<1>4. RingInv /\ NumberInv /\ Got = 0 /\ ring.count = 0
  BY <1>1, <1>3, NoUnits
<1>5. StreamTypeOK
  <2>1. ring \in R!Ring
    BY <1>4, StreamRing DEF RingInv
  <2>2. segment \in Segment
    <3>1. segment = SegmentOf(0, FALSE, 0, FALSE, FALSE, FALSE)
      BY <1>1 DEF NoSegment, Plain, SegmentOf
    <3> QED
      BY <3>1, ZeroesAre DEF Zeroes, SegmentOf, Segment
  <2> QED
    BY <1>1, <1>2, <1>3, <2>1, <2>2, ZeroesAre
       DEF Zeroes, StreamTypeOK, FetchAt, WorkerAt, FetchPc, WorkerPc, Results
<1>6. FreshInv /\ AskedInv
  BY <1>1, <1>2, <1>3, <1>4 DEF FreshInv, AskedInv, Starting, Dialling, Talking, Reads
<1>7. HolderInv
  BY <1>1, <1>2 DEF HolderInv, Nobody, Fetcher, Worker
<1>8. ServerInv /\ SegmentInv
  BY <1>1, <1>2 DEF ServerInv, SegmentInv, MayServe
<1>9. CountInv
  BY <1>1, <1>2, <1>4 DEF CountInv
<1>10. EndInv
  BY <1>1, <1>2 DEF EndInv, Talking, Reads
<1> QED
  BY <1>2, <1>4, <1>5, <1>6, <1>7, <1>8, <1>9, <1>10 DEF StreamInv

LEMMA ConfigureKeeps ==
  ASSUME StreamInv, Configure
  PROVE  StreamInv'
<1>0. PlaceInv /\ StreamTypeOK
  BY DEF StreamInv
<1>1. /\ configured' = TRUE /\ dnsDone' = FALSE /\ resolved' = FALSE
      /\ remote' = FALSE /\ connected' = FALSE /\ closed' = FALSE /\ failed' = FALSE
      /\ sendSeq' = 0 /\ recvSeq' = 0 /\ peerAck' = 0
      /\ ring' = R!EmptyRing /\ rxLock' = Nobody /\ expired' = FALSE
      /\ asked' = 0 /\ read' = <<>> /\ result' = "none" /\ segment' = segment
      /\ queried' = FALSE /\ synSent' = FALSE /\ got' = 0 /\ served' = 0
      /\ declared' \in Lengths
      /\ acked' = 0 /\ eof' = FALSE /\ early' = FALSE /\ reopened' = FALSE
  BY DEF Configure
<1>2. FetchAt' = "query" /\ WorkerAt' = "none" /\ PlaceInv'
  <2>1. Goto(Fetcher, "query") /\ WorkerAt = "none"
    BY DEF Configure, At, WorkerAt
  <2> QED
    BY <1>0, <2>1, FetchMoves DEF FetchPc
<1>3. Len(read') = 0 /\ read' \in Seq(Units)
  BY <1>1
<1>4. RingInv' /\ NumberInv' /\ Got' = 0 /\ ring'.count = 0
  <2>1. SP!Tight(ring') /\ ring'.count = 0
    BY <1>1, StreamRing
  <2> QED
    BY <1>3, <2>1 DEF RingInv, NumberInv, Got
<1>5. StreamTypeOK'
  <2>1. ring' \in R!Ring
    BY <1>4, StreamRing DEF RingInv
  <2> QED
    BY <1>0, <1>1, <1>2, <1>3, <2>1, ZeroesAre
       DEF Zeroes, StreamTypeOK, FetchAt, WorkerAt, FetchPc, WorkerPc, Results
<1>6. FreshInv' /\ AskedInv'
  BY <1>1, <1>2, <1>3, <1>4 DEF FreshInv, AskedInv, Starting, Dialling, Talking, Reads
<1>7. HolderInv'
  BY <1>1, <1>2 DEF HolderInv, Nobody, Fetcher, Worker
<1>8. ServerInv' /\ SegmentInv'
  BY <1>1, <1>2 DEF ServerInv, SegmentInv, MayServe
<1>9. CountInv'
  BY <1>1, <1>2, <1>4 DEF CountInv
<1>10. EndInv'
  BY <1>1, <1>2 DEF EndInv, Talking, Reads
<1> QED
  BY <1>2, <1>4, <1>5, <1>6, <1>7, <1>8, <1>9, <1>10 DEF StreamInv

-----------------------------------------------------------------------------
(* The server, the network and time.                                       *)

LEMMA WorldKeeps ==
  ASSUME StreamInv, ServerGets \/ ServerSends \/ Expire \/ DnsReply
  PROVE  StreamInv'
<1>0. /\ PlaceInv /\ AskedInv /\ EndInv /\ FreshInv /\ HolderInv /\ StreamTypeOK
      /\ CountInv /\ ServerInv /\ SegmentInv
  BY DEF StreamInv
<1>1. /\ UNCHANGED <<connected, closed, failed, numbers, buffer, pc, fetch>>
      /\ UNCHANGED <<segment, synSent, declared, ghosts, configured, remote>>
  BY DEF ServerGets, ServerSends, Expire, DnsReply, flags, server
<1>2. FetchAt' = FetchAt /\ WorkerAt' = WorkerAt /\ PlaceInv'
  BY <1>0, <1>1 DEF FetchAt, WorkerAt, PlaceInv
<1>3. /\ got' \in 0..Asked /\ got <= got' /\ got' <= asked
      /\ served' \in 0..(Sent + 1) /\ served <= served' /\ served' <= MayServe'
      /\ served = Sent + 1 => served' = served
  <2>1. CASE ServerGets
    <3>1. got' = got + 1 /\ got < asked /\ served' = served
      BY <2>1 DEF ServerGets
    <3>2. got' # 0 /\ got' <= Asked /\ got' > got
      BY <3>1, StreamFacts
    <3>3. MayServe <= MayServe' /\ MayServe \in Nat /\ MayServe' \in Nat
      BY <3>1, <3>2, StreamFacts DEF MayServe
    <3>4. got' \in 0..Asked /\ got <= got' /\ got' <= asked
      BY <3>1, StreamFacts
    <3>5. served \in Nat /\ served <= Sent + 1 /\ served <= MayServe'
      BY <1>0, <3>3, StreamFacts DEF ServerInv
    <3> QED
      BY <3>1, <3>4, <3>5, StreamFacts
  <2>2. CASE ServerSends
    <3>1. got' = got /\ served' = served + 1 /\ served < MayServe
      BY <2>2 DEF ServerSends, MayServe
    <3>2. MayServe' = MayServe /\ MayServe \in 0..(Sent + 1)
      BY <3>1, StreamFacts DEF MayServe
    <3>3. /\ served \in Nat /\ Sent \in Nat /\ got \in 0..Asked
          /\ got \in Nat /\ got <= asked
      BY <1>0, StreamFacts DEF StreamTypeOK, ServerInv
    <3>4. /\ served' \in 0..(Sent + 1) /\ served <= served'
          /\ served' <= MayServe' /\ served # Sent + 1
      BY <3>1, <3>2, <3>3
    <3> QED
      BY <3>1, <3>3, <3>4
  <2>3. CASE Expire \/ DnsReply
    <3>1. got' = got /\ served' = served
      BY <2>3 DEF Expire, DnsReply, server
    <3> QED
      BY <1>0, <3>1, StreamFacts DEF ServerInv, MayServe
  <2> QED
    BY <2>1, <2>2, <2>3
<1>4. StreamTypeOK'
  <2>1. /\ dnsDone' \in BOOLEAN /\ resolved' \in BOOLEAN /\ expired' \in BOOLEAN
        /\ queried' \in BOOLEAN
    BY <1>0 DEF ServerGets, ServerSends, Expire, DnsReply, flags, server, StreamTypeOK
  <2> QED
    BY <1>0, <1>1, <1>3, <2>1 DEF StreamTypeOK, numbers, buffer, fetch, ghosts
<1>5. HolderInv' /\ FreshInv' /\ AskedInv'
  BY <1>0, <1>1, <1>2 DEF HolderInv, FreshInv, AskedInv, buffer, numbers, fetch, ghosts
<1>6. RingInv' /\ NumberInv'
  BY <1>1, UnitsStay DEF StreamInv, buffer, fetch, ghosts
<1>7. CountInv'
  BY <1>1, <1>2, CountStays DEF StreamInv, fetch, ghosts, numbers, buffer
<1>8. ServerInv'
  BY <1>1, <1>3 DEF ServerInv, fetch
<1>9. SegmentInv'
  <2>1. segment.ack \in Nat /\ segment.seq \in Nat
    BY StreamFacts DEF Segment
  <2> QED
    <3>1. segment' = segment /\ recvSeq' = recvSeq /\ SegmentEnd' = SegmentEnd
      BY <1>1 DEF numbers, SegmentEnd
    <3>2. got <= got' /\ got' \in Nat /\ got \in Nat /\ served \in Nat /\ served' \in Nat
          /\ served <= served' /\ (served = Sent + 1 => served' = served)
      BY <1>3, StreamFacts
    <3> QED
      BY <1>0, <1>2, <2>1, <3>1, <3>2 DEF SegmentInv, Units
<1>10. EndInv'
  BY <1>0, <1>1, <1>2 DEF EndInv, buffer, fetch, ghosts, numbers
<1> QED
  BY <1>2, <1>4, <1>5, <1>6, <1>7, <1>8, <1>9, <1>10 DEF StreamInv

\* What arrives was sent.
LEMMA ArrivingIs ==
  ASSUME StreamInv, NEW s \in Arriving
  PROVE  /\ s \in Segment /\ synSent
         /\ s.syn => s.ack = 1 /\ s.seq = 0 /\ ~s.data /\ ~s.fin
         /\ s.data => s.seq \in Units /\ s.seq <= served
         /\ s.fin => /\ served = Sent + 1
                     /\ s.seq + (IF s.data THEN 1 ELSE 0) = Sent + 1
         /\ s.ack <= got + 1
<1>1. synSent
  BY DEF Arriving
<1>2. PICK q \in 0..(Sent + 1), d \in BOOLEAN, a \in 0..(Asked + 1), y \in BOOLEAN,
           f \in BOOLEAN, r \in BOOLEAN :
        /\ s = SegmentOf(q, d, a, y, f, r)
        /\ y => a = 1 /\ q = 0 /\ ~d /\ ~f
        /\ d => q \in Units /\ q <= served
        /\ f => served = Sent + 1 /\ q + (IF d THEN 1 ELSE 0) = Sent + 1
        /\ a <= got + 1
  <2>1. CASE s = [Plain EXCEPT !.syn = TRUE, !.ack = 1]
    <3>1. s = SegmentOf(0, FALSE, 1, TRUE, FALSE, FALSE)
      BY <2>1 DEF Plain, SegmentOf
    <3>2. 0 <= got + 1 /\ 1 <= got + 1
      BY StreamFacts
    <3> QED
      BY <3>1, <3>2, ZeroesAre DEF Zeroes
  <2>2. CASE s = [Plain EXCEPT !.rst = TRUE]
    <3>1. s = SegmentOf(0, FALSE, 0, FALSE, FALSE, TRUE)
      BY <2>2 DEF Plain, SegmentOf
    <3>2. 0 <= got + 1 /\ 1 <= got + 1
      BY StreamFacts
    <3> QED
      BY <3>1, <3>2, ZeroesAre DEF Zeroes
  <2>3. CASE \E x \in Acks : s = [Plain EXCEPT !.ack = x]
    <3>1. PICK x \in Acks : s = [Plain EXCEPT !.ack = x]
      BY <2>3
    <3>2. s = SegmentOf(0, FALSE, x, FALSE, FALSE, FALSE)
      BY <3>1 DEF Plain, SegmentOf
    <3>3. x \in 0..(Asked + 1) /\ x <= got + 1
      BY <3>1, StreamFacts DEF Acks
    <3> QED
      BY <3>2, <3>3, ZeroesAre DEF Zeroes
  <2>4. CASE \E i \in {u \in Units : u <= served} :
               s = [Plain EXCEPT !.seq = i, !.data = TRUE]
    <3>1. PICK i \in {u \in Units : u <= served} :
            s = [Plain EXCEPT !.seq = i, !.data = TRUE]
      BY <2>4
    <3>2. s = SegmentOf(i, TRUE, 0, FALSE, FALSE, FALSE)
      BY <3>1 DEF Plain, SegmentOf
    <3>3. i \in 0..(Sent + 1) /\ i \in Units /\ i <= served /\ 0 <= got + 1
      BY <3>1, StreamFacts DEF Units
    <3> QED
      BY <3>2, <3>3, ZeroesAre DEF Zeroes
  <2>5. CASE ~(served <= Sent) /\ s = [Plain EXCEPT !.seq = Sent, !.data = TRUE, !.fin = TRUE]
    <3>1. s = SegmentOf(Sent, TRUE, 0, FALSE, TRUE, FALSE)
      BY <2>5 DEF Plain, SegmentOf
    <3>2. /\ Sent \in 0..(Sent + 1) /\ Sent \in Units /\ served = Sent + 1
          /\ Sent <= served /\ 0 <= got + 1 /\ Sent + (IF TRUE THEN 1 ELSE 0) = Sent + 1
      BY <2>5, StreamFacts DEF Units
    <3> QED
      BY <3>1, <3>2, ZeroesAre DEF Zeroes
  <2>6. CASE ~(served <= Sent) /\ s = [Plain EXCEPT !.seq = Sent + 1, !.fin = TRUE]
    <3>1. s = SegmentOf(Sent + 1, FALSE, 0, FALSE, TRUE, FALSE)
      BY <2>6 DEF Plain, SegmentOf
    <3>2. /\ Sent + 1 \in 0..(Sent + 1) /\ served = Sent + 1
          /\ 0 <= got + 1 /\ Sent + 1 + (IF FALSE THEN 1 ELSE 0) = Sent + 1
      BY <2>6, StreamFacts
    <3> QED
      BY <3>1, <3>2, ZeroesAre DEF Zeroes
  <2> QED
    BY <2>1, <2>2, <2>3, <2>4, <2>5, <2>6 DEF Arriving
<1>3. /\ s \in Segment
      /\ s.seq = q /\ s.data = d /\ s.ack = a /\ s.syn = y /\ s.fin = f
  BY <1>2, SegmentIs
<1> QED
  BY <1>1, <1>2, <1>3

LEMMA ArrivesKeeps ==
  ASSUME StreamInv, Arrives
  PROVE  StreamInv'
<1>0. /\ PlaceInv /\ AskedInv /\ EndInv /\ FreshInv /\ HolderInv /\ StreamTypeOK
      /\ CountInv /\ ServerInv /\ SegmentInv
  BY DEF StreamInv
<1>1. PICK s \in Arriving : Receive(s)
  BY DEF Arrives
<1>2. /\ s \in Segment /\ synSent
      /\ s.syn => s.ack = 1 /\ s.seq = 0 /\ ~s.data /\ ~s.fin
      /\ s.data => s.seq \in Units /\ s.seq <= served
      /\ s.fin => /\ served = Sent + 1
                  /\ s.seq + (IF s.data THEN 1 ELSE 0) = Sent + 1
      /\ s.ack <= got + 1
  BY ArrivingIs
<1>3. /\ WorkerAt = "none" /\ WorkerAt' = "segment" /\ FetchAt' = FetchAt /\ PlaceInv'
      /\ segment' = s
      /\ peerAck' \in {s.ack, peerAck}
      /\ UNCHANGED <<flags, sendSeq, recvSeq, buffer, expired, fetch, server, ghosts>>
  <2>1. WorkerAt = "none" /\ Goto(Worker, "segment")
    BY <1>1 DEF Receive, At, WorkerAt
  <2>2. /\ segment' = s
        /\ peerAck' \in {s.ack, peerAck}
        /\ UNCHANGED <<flags, sendSeq, recvSeq, buffer, expired, fetch, server, ghosts>>
    BY <1>1 DEF Receive
  <2>3. PlaceInv' /\ WorkerAt' = "segment" /\ FetchAt' = FetchAt
    BY <1>0, <2>1, WorkerMoves DEF WorkerPc
  <2> QED
    BY <2>1, <2>2, <2>3
<1>4. StreamTypeOK'
  <2>1. peerAck' \in 0..(Asked + 1)
    BY <1>0, <1>2, <1>3 DEF StreamTypeOK, Segment
  <2> QED
    BY <1>0, <1>2, <1>3, <2>1 DEF StreamTypeOK, flags, buffer, fetch, server, ghosts,
       FetchAt, WorkerAt, WorkerPc
<1>5. HolderInv' /\ AskedInv'
  BY <1>0, <1>3 DEF HolderInv, AskedInv, buffer, fetch, ghosts
<1>6. FreshInv'
  BY <1>0, <1>2, <1>3 DEF FreshInv
<1>7. RingInv' /\ NumberInv' /\ Got' = Got
  BY <1>3, UnitsStay DEF StreamInv, buffer, fetch, ghosts
<1>8. CountInv'
  BY <1>0, <1>3, <1>7 DEF CountInv, flags, ghosts
<1>9. ServerInv' /\ SegmentInv'
  BY <1>0, <1>2, <1>3 DEF ServerInv, MayServe, SegmentInv, SegmentEnd, server, fetch
<1>10. EndInv'
  <2>1. FetchAt \in {"testFailed", "testClosed"} /\ ~early =>
          ring.count = 0 \/ (failed /\ ~closed /\ ~connected)
    BY <1>0, <1>3 DEF EndInv
  <2> QED
    BY <1>0, <1>3, <2>1 DEF EndInv, flags, buffer, fetch, ghosts
<1> QED
  BY <1>3, <1>4, <1>5, <1>6, <1>7, <1>8, <1>9, <1>10 DEF StreamInv

-----------------------------------------------------------------------------
(* The Worker.                                                             *)

\* The Worker is busy only once a SYN has left.
LEMMA WorkerBusy ==
  ASSUME StreamInv, WorkerAt # "none"
  PROVE  /\ FetchAt \notin Starting
         /\ FetchAt \in {"sequence", "connect"} \cup Talking \cup Ending
<1>1. FetchAt \notin Starting
  BY DEF StreamInv, FreshInv
<1>2. FetchAt \in FetchPc
  BY StreamFacts
<1> QED
  BY <1>1, <1>2 DEF FetchPc, Starting, Talking, Reads, Ending

\* What it leaves behind when it is done with a segment.
LEMMA EndsIs ==
  ASSUME PlaceInv, Ends
  PROVE  /\ PlaceInv' /\ WorkerAt' = "none" /\ FetchAt' = FetchAt
         /\ segment' \in Segment /\ SegmentInv'
<1>1. segment' = SegmentOf(0, FALSE, 0, FALSE, FALSE, FALSE)
  BY DEF Ends, NoSegment, Plain, SegmentOf
<1>2. segment' \in Segment
  BY <1>1, ZeroesAre DEF Zeroes, SegmentOf, Segment
<1>3. PlaceInv' /\ WorkerAt' = "none" /\ FetchAt' = FetchAt
  BY WorkerMoves DEF Ends, WorkerPc
<1> QED
  BY <1>2, <1>3 DEF SegmentInv

\* A unit that the stream takes to be its next.
LEMMA NextUnit ==
  ASSUME StreamInv, WorkerAt \in {"lock", "push", "accept", "fail"}
  PROVE  /\ segment.data /\ segment.seq \in Units /\ segment.seq = recvSeq
         /\ segment.seq <= served /\ recvSeq \in 1..Sent
<1>1. /\ segment.data /\ segment.seq \in Units /\ segment.seq = recvSeq
      /\ segment.seq <= served
  BY DEF StreamInv, SegmentInv
<1> QED
  BY <1>1 DEF Units

\* More than the first unit comes only when the whole request was sent.
LEMMA ServedAsked ==
  ASSUME StreamInv
  PROVE  /\ served > 0 => asked > 0
         /\ served > 1 => asked > 1 /\ (FetchAt \in Talking => sendSeq > 1)
<1>1. served > 0 => got > 0
  BY StreamFacts DEF StreamInv, ServerInv, MayServe
<1>2. served > 1 => got > 1
  BY StreamFacts DEF StreamInv, ServerInv, MayServe
<1>3. got <= asked
  BY DEF StreamInv, ServerInv
<1>4. FetchAt \in Talking => sendSeq \in {asked, asked + 1}
  BY DEF StreamInv, AskedInv
<1> QED
  BY <1>1, <1>2, <1>3, <1>4, StreamFacts

LEMMA HandshakeKeeps ==
  ASSUME StreamInv, Handshake
  PROVE  StreamInv'
<1>0. /\ PlaceInv /\ AskedInv /\ EndInv /\ FreshInv /\ HolderInv /\ StreamTypeOK
      /\ CountInv /\ ServerInv /\ SegmentInv /\ RingInv /\ NumberInv
  BY DEF StreamInv
<1>1. WorkerAt = "segment" /\ ~connected
  BY DEF Handshake, At, WorkerAt
<1>2. /\ UNCHANGED <<configured, dnsDone, resolved, remote, closed, sendSeq>>
      /\ UNCHANGED <<peerAck, buffer, expired, fetch, server, acked, eof, early>>
  BY DEF Handshake
<1>3. /\ FetchAt \notin Starting
      /\ FetchAt \in {"sequence", "connect"} \cup Talking \cup Ending
  BY <1>1, WorkerBusy
<1>4. ASSUME segment.syn, segment.ack = sendSeq, recvSeq' = segment.seq + 1,
             connected' = TRUE, reopened' = (reopened \/ closed \/ failed),
             Goto(Worker, "reply"), UNCHANGED <<failed, segment>>
      PROVE  StreamInv'
  <2>1. PlaceInv' /\ WorkerAt' = "reply" /\ FetchAt' = FetchAt
    BY <1>0, <1>4, WorkerMoves DEF WorkerPc
  <2>2. segment.ack = 1 /\ segment.seq = 0
    BY <1>0, <1>1, <1>4 DEF SegmentInv
  <2>3. sendSeq = 1 /\ recvSeq' = 1 /\ 1 \in 0..(Sent + 2)
    BY <1>4, <2>2, StreamFacts
  <2>4. StreamTypeOK'
    BY <1>0, <1>2, <1>4, <2>1, <2>3
       DEF StreamTypeOK, buffer, fetch, server, FetchAt, WorkerAt, WorkerPc
  <2>5. HolderInv' /\ AskedInv' /\ FreshInv'
    BY <1>0, <1>1, <1>2, <1>3, <2>1 DEF HolderInv, AskedInv, FreshInv, buffer, fetch
  <2>6. RingInv' /\ NumberInv' /\ Got' = Got
    BY <1>0, <1>2, <1>4 DEF RingInv, NumberInv, Got, buffer, fetch
  <2>7. ServerInv' /\ SegmentInv'
    BY <1>0, <1>1, <1>2, <1>4, <2>1
       DEF ServerInv, MayServe, SegmentInv, SegmentEnd, fetch, server
  <2>8. CountInv'
    <3> SUFFICES ASSUME ~reopened, ~closed, ~failed
                 PROVE  CountInv'
      BY <1>4 DEF CountInv
    <3>1. recvSeq = 0 /\ acked <= recvSeq /\ (recvSeq = Got + 1 \/ Got = 0 \/ recvSeq = Sent + 2)
      BY <1>0, <1>1 DEF CountInv
    <3>2. Got = 0 /\ acked = 0
      BY <3>1, StreamFacts
    <3>3. acked' = 0 /\ Got' = 0 /\ recvSeq' = 1 /\ connected' /\ WorkerAt' = "reply"
      BY <1>2, <1>4, <2>1, <2>3, <2>6, <3>2
    <3> QED
      BY <3>3 DEF CountInv
  <2>9. EndInv'
    <3> SUFFICES ASSUME ~early
                 PROVE  EndInv'
      BY <1>2 DEF EndInv
    <3>1. FetchAt \notin Talking /\ ~eof
      BY <1>0, <1>1, <2>3 DEF EndInv
    <3>2. FetchAt = "sequence" => sendSeq = 0
      BY <1>0 DEF AskedInv
    <3>3. FetchAt = "connect" \/ FetchAt \in Ending
      BY <1>3, <2>3, <3>1, <3>2
    <3>4. FetchAt = "connect" => ~closed
      BY <1>0 DEF EndInv
    <3>5. reopened => (FetchAt = "connect" /\ failed) \/ FetchAt \in Ending
      BY <1>0, <3>3 DEF EndInv
    <3>6. reopened' => (FetchAt = "connect" /\ failed) \/ FetchAt \in Ending
      BY <1>4, <3>3, <3>4, <3>5
    <3>7. FetchAt \notin {"testFailed", "testClosed"}
      BY <3>1 DEF Talking, Reads
    <3>8. FetchAt \in {"sequence", "connect"} => ~closed
      BY <1>0 DEF EndInv
    <3> QED
      BY <1>2, <1>4, <2>1, <3>1, <3>6, <3>7, <3>8 DEF EndInv
  <2> QED
    BY <2>1, <2>4, <2>5, <2>6, <2>7, <2>8, <2>9 DEF StreamInv
<1>5. ASSUME failed' = (failed \/ segment.rst), Ends,
             UNCHANGED <<connected, recvSeq, reopened>>
      PROVE  StreamInv'
  <2>1. /\ PlaceInv' /\ WorkerAt' = "none" /\ FetchAt' = FetchAt
        /\ segment' \in Segment /\ SegmentInv'
    BY <1>0, <1>5, EndsIs
  <2>2. StreamTypeOK'
    <3>1. failed' \in BOOLEAN
      BY <1>0, <1>5 DEF StreamTypeOK, Segment
    <3> QED
      BY <1>0, <1>2, <1>5, <2>1, <3>1
         DEF StreamTypeOK, buffer, fetch, server, FetchAt, WorkerAt, WorkerPc
  <2>3. HolderInv' /\ AskedInv' /\ FreshInv'
    BY <1>0, <1>1, <1>2, <1>3, <2>1 DEF HolderInv, AskedInv, FreshInv, buffer, fetch
  <2>4. RingInv' /\ NumberInv' /\ Got' = Got
    BY <1>2, <1>5, UnitsStay DEF StreamInv, buffer, fetch
  <2>5. ServerInv'
    BY <1>0, <1>2 DEF ServerInv, MayServe, fetch, server
  <2>6. CountInv'
    BY <1>0, <1>1, <1>2, <1>5, <2>1, <2>4 DEF CountInv
  <2>7. EndInv'
    BY <1>0, <1>1, <1>2, <1>5, <2>1 DEF EndInv, buffer, fetch
  <2> QED
    BY <2>1, <2>2, <2>3, <2>4, <2>5, <2>6, <2>7 DEF StreamInv
<1> QED
  BY <1>4, <1>5 DEF Handshake

LEMMA SortKeeps ==
  ASSUME StreamInv, Sort
  PROVE  StreamInv'
<1>0. /\ PlaceInv /\ AskedInv /\ EndInv /\ FreshInv /\ HolderInv /\ StreamTypeOK
      /\ CountInv /\ ServerInv /\ SegmentInv
  BY DEF StreamInv
<1>1. WorkerAt = "segment" /\ connected
  BY DEF Sort, At, WorkerAt
<1>2. UNCHANGED <<flags, numbers, buffer, expired, fetch, segment, server, ghosts>>
  BY DEF Sort
<1>3. /\ PlaceInv' /\ WorkerAt' \in {"flags", "lock", "reply"} /\ FetchAt' = FetchAt
      /\ WorkerAt' = "lock" => segment.data /\ segment.seq = recvSeq
  BY <1>0, WorkerMoves DEF Sort, WorkerPc, InOrder
<1>4. FetchAt \notin Starting
  BY <1>1, WorkerBusy
<1>5. StreamTypeOK'
  BY <1>0, <1>2, <1>3 DEF StreamTypeOK, flags, numbers, buffer, fetch, server, ghosts,
     FetchAt, WorkerAt, WorkerPc
<1>6. HolderInv' /\ AskedInv' /\ FreshInv'
  BY <1>0, <1>1, <1>2, <1>3, <1>4
     DEF HolderInv, AskedInv, FreshInv, buffer, fetch, numbers, ghosts
<1>7. RingInv' /\ NumberInv' /\ Got' = Got
  BY <1>2, UnitsStay DEF StreamInv, buffer, fetch, ghosts
<1>8. ServerInv' /\ SegmentInv'
  BY <1>0, <1>1, <1>2, <1>3
     DEF ServerInv, MayServe, SegmentInv, SegmentEnd, fetch, server, numbers
<1>9. CountInv'
  BY <1>0, <1>1, <1>2, <1>3, <1>7 DEF CountInv, flags, numbers, ghosts
<1>10. EndInv'
  BY <1>0, <1>1, <1>2, <1>3 DEF EndInv, flags, numbers, buffer, fetch, ghosts
<1> QED
  BY <1>3, <1>5, <1>6, <1>7, <1>8, <1>9, <1>10 DEF StreamInv

LEMMA PushTryKeeps ==
  ASSUME StreamInv, PushTry
  PROVE  StreamInv'
<1>0. /\ PlaceInv /\ AskedInv /\ EndInv /\ FreshInv /\ HolderInv /\ StreamTypeOK
      /\ CountInv /\ ServerInv /\ SegmentInv
  BY DEF StreamInv
<1>1. WorkerAt = "lock"
  BY DEF PushTry, At, WorkerAt
<1>2. UNCHANGED <<flags, numbers, ring, expired, fetch, segment, server, ghosts>>
  BY DEF PushTry
<1>3. /\ PlaceInv' /\ FetchAt' = FetchAt
      /\ \/ rxLock = Nobody /\ rxLock' = Worker /\ WorkerAt' = "push"
         \/ rxLock # Nobody /\ rxLock' = rxLock /\ WorkerAt' = "fail"
  <2>1. \/ rxLock = Nobody /\ rxLock' = Worker /\ Goto(Worker, "push")
        \/ rxLock # Nobody /\ rxLock' = rxLock /\ Goto(Worker, "fail")
    BY DEF PushTry
  <2> QED
    BY <1>0, <2>1, WorkerMoves DEF WorkerPc
<1>4. FetchAt \notin Starting
  BY <1>1, WorkerBusy
<1>5. StreamTypeOK'
  BY <1>0, <1>2, <1>3 DEF StreamTypeOK, flags, numbers, fetch, server, ghosts,
     FetchAt, WorkerAt, WorkerPc
<1>6. HolderInv'
  BY <1>0, <1>1, <1>3 DEF HolderInv, Nobody, Fetcher, Worker
<1>7. AskedInv' /\ FreshInv'
  BY <1>0, <1>2, <1>3, <1>4 DEF AskedInv, FreshInv, fetch, numbers, ghosts
<1>8. RingInv' /\ NumberInv' /\ Got' = Got
  BY <1>2, UnitsStay DEF StreamInv, fetch, ghosts
<1>9. ServerInv' /\ SegmentInv'
  BY <1>0, <1>1, <1>2, <1>3
     DEF ServerInv, MayServe, SegmentInv, SegmentEnd, fetch, server, numbers
<1>10. CountInv'
  BY <1>0, <1>1, <1>2, <1>3, <1>8 DEF CountInv, flags, numbers, ghosts
<1>11. EndInv'
  <2>1. WorkerAt' = "fail" /\ FetchAt \in Talking => sendSeq # 1
    <3>1. WorkerAt' = "fail" => FetchAt = "take"
      BY <1>0, <1>1, <1>3 DEF HolderInv, StreamTypeOK
    <3>2. FetchAt = "take" => asked > 0 /\ sendSeq = asked + 1
      BY <1>0 DEF AskedInv, Talking, Reads
    <3> QED
      BY <3>1, <3>2, StreamFacts
  <2> QED
    BY <1>0, <1>1, <1>2, <1>3, <2>1 DEF EndInv, flags, numbers, fetch, ghosts
<1> QED
  BY <1>3, <1>5, <1>6, <1>7, <1>8, <1>9, <1>10, <1>11 DEF StreamInv

\* PushRx puts the unit behind those in the ring.
LEMMA PushedUnit ==
  ASSUME StreamInv, ring.count # Capacity, NEW u \in Units,
         ~reopened => u = Got + 1,
         ring' = R!Appended(R!Filled(ring, u)),
         read' = read, reopened' = reopened
  PROVE  /\ RingInv' /\ NumberInv' /\ Got' = Got + 1
         /\ ring'.count = ring.count + 1
<1>1. ring.count \in Nat /\ Len(read) \in Nat /\ SP!Tight(ring)
  BY StreamFacts
<1>2. /\ SP!Tight(ring') /\ ring'.count = ring.count + 1
      /\ R!Content(ring') = Append(R!Content(ring), u)
      /\ R!Content(ring) \in Seq(Units \cup {0}) /\ Len(R!Content(ring)) = ring.count
  BY <1>1, StreamRing
<1>3. \A i \in 1..(ring.count + 1) :
        R!Content(ring')[i] = IF i = ring.count + 1 THEN u ELSE R!Content(ring)[i]
  <2>1. \A q \in Seq(Units \cup {0}) :
          Len(q) = ring.count =>
            \A i \in 1..(ring.count + 1) :
              Append(q, u)[i] = IF i = ring.count + 1 THEN u ELSE q[i]
    BY <1>1, AppendProperties
  <2> QED
    BY <1>2, <2>1
<1>4. Got' = Got + 1
  BY <1>1, <1>2 DEF Got
<1>5. RingInv'
  <2>1. \A i \in 1..(ring.count + 1) : R!Content(ring')[i] \in Units
    BY <1>1, <1>3 DEF StreamInv, RingInv
  <2> QED
    BY <1>2, <2>1 DEF StreamInv, RingInv
<1>6. NumberInv'
  <2> SUFFICES ASSUME ~reopened
               PROVE  /\ \A i \in 1..Len(read) : read[i] = i
                      /\ \A i \in 1..(ring.count + 1) :
                           R!Content(ring')[i] = Len(read) + i
    BY <1>2 DEF NumberInv
  <2>1. /\ \A i \in 1..Len(read) : read[i] = i
        /\ \A i \in 1..ring.count : R!Content(ring)[i] = Len(read) + i
    BY DEF StreamInv, NumberInv
  <2>2. u = Len(read) + (ring.count + 1)
    BY <1>1 DEF Got
  <2>3. ASSUME NEW i \in 1..(ring.count + 1)
        PROVE  R!Content(ring')[i] = Len(read) + i
    <3>1. CASE i = ring.count + 1
      BY <1>3, <2>2, <3>1
    <3>2. CASE i # ring.count + 1
      <4>1. i \in 1..ring.count
        BY <1>1, <3>2
      <4> QED
        BY <1>3, <2>1, <3>2, <4>1
    <3> QED
      BY <3>1, <3>2
  <2> QED
    BY <2>1, <2>3
<1> QED
  BY <1>2, <1>4, <1>5, <1>6

LEMMA PushUnitKeeps ==
  ASSUME StreamInv, PushUnit
  PROVE  StreamInv'
<1>0. /\ PlaceInv /\ AskedInv /\ EndInv /\ FreshInv /\ HolderInv /\ StreamTypeOK
      /\ CountInv /\ ServerInv /\ SegmentInv
  BY DEF StreamInv
<1>1. WorkerAt = "push"
  BY DEF PushUnit, At, WorkerAt
<1>2. /\ UNCHANGED <<flags, numbers, expired, fetch, segment, server, acked, eof>>
      /\ reopened' = reopened /\ rxLock' = Nobody
  BY DEF PushUnit
<1>3. /\ segment.data /\ segment.seq \in Units /\ segment.seq = recvSeq
      /\ segment.seq <= served /\ recvSeq \in 1..Sent
  BY <1>1, NextUnit
<1>4. /\ FetchAt \notin Starting
      /\ FetchAt \in {"sequence", "connect"} \cup Talking \cup Ending
  BY <1>1, WorkerBusy
<1>5. ~reopened => recvSeq = Got + 1
  <2>1. recvSeq # 0 /\ recvSeq # Sent + 2
    BY <1>3, StreamFacts
  <2> QED
    BY <1>0, <1>1, <2>1 DEF CountInv
<1>6. HolderInv' /\ AskedInv' /\ FreshInv' /\ ServerInv' /\ SegmentInv'
  <2>1. /\ PlaceInv' /\ FetchAt' = FetchAt /\ WorkerAt' \in {"fail", "accept"}
    <3>1. Goto(Worker, "fail") \/ Goto(Worker, "accept")
      BY DEF PushUnit
    <3> QED
      BY <1>0, <3>1, WorkerMoves DEF WorkerPc
  <2>2. HolderInv'
    BY <1>0, <1>1, <1>2, <2>1 DEF HolderInv, Nobody, Fetcher, Worker
  <2>3. AskedInv' /\ FreshInv'
    BY <1>0, <1>2, <1>4, <2>1 DEF AskedInv, FreshInv, fetch, numbers
  <2>4. ServerInv' /\ SegmentInv'
    BY <1>0, <1>1, <1>2, <2>1
       DEF ServerInv, MayServe, SegmentInv, SegmentEnd, fetch, server, numbers
  <2> QED
    BY <2>2, <2>3, <2>4
<1>7. ASSUME ring.count = Capacity, Goto(Worker, "fail"), UNCHANGED <<ring, early>>
      PROVE  StreamInv'
  <2>1. PlaceInv' /\ WorkerAt' = "fail" /\ FetchAt' = FetchAt
    BY <1>0, <1>7, WorkerMoves DEF WorkerPc
  <2>2. StreamTypeOK'
    BY <1>0, <1>2, <1>7, <2>1 DEF StreamTypeOK, flags, numbers, fetch, server,
       FetchAt, WorkerAt, WorkerPc
  <2>3. RingInv' /\ NumberInv' /\ Got' = Got
    BY <1>2, <1>7, UnitsStay DEF StreamInv, fetch
  <2>4. CountInv'
    BY <1>0, <1>1, <1>2, <2>1, <2>3 DEF CountInv, flags, numbers
  <2>5. EndInv'
    <3>1. ~reopened => sendSeq # 1 \/ FetchAt \notin Talking
      <4>1. Got >= 1
        BY <1>7, StreamFacts DEF Got
      <4>2. ~reopened => served > 1
        BY <1>3, <1>5, <4>1, StreamFacts
      <4>3. sendSeq > 1 => sendSeq # 1
        OBVIOUS
      <4> QED
        BY <4>2, <4>3, ServedAsked
    <3>2. ~early /\ FetchAt \in Talking => ~reopened
      BY <1>0 DEF EndInv, Talking, Reads, Ending
    <3> QED
      BY <1>0, <1>1, <1>2, <1>7, <2>1, <3>1, <3>2 DEF EndInv, flags, numbers, fetch
  <2> QED
    BY <1>6, <2>1, <2>2, <2>3, <2>4, <2>5 DEF StreamInv
<1>8. ASSUME ring.count # Capacity, ring' = R!Appended(R!Filled(ring, segment.seq)),
             early' = (early \/ pc[Fetcher] \in {"testFailed", "testClosed"}),
             Goto(Worker, "accept")
      PROVE  StreamInv'
  <2>1. PlaceInv' /\ WorkerAt' = "accept" /\ FetchAt' = FetchAt
    BY <1>0, <1>8, WorkerMoves DEF WorkerPc
  <2>2. /\ RingInv' /\ NumberInv' /\ Got' = Got + 1
        /\ ring'.count = ring.count + 1
    BY <1>2, <1>3, <1>5, <1>8, PushedUnit DEF fetch
  <2>3. StreamTypeOK'
    <3>1. ring' \in R!Ring /\ early' \in BOOLEAN
      BY <1>0, <1>8, <2>2, StreamRing DEF RingInv, StreamTypeOK
    <3> QED
      BY <1>0, <1>2, <2>1, <3>1 DEF StreamTypeOK, flags, numbers, fetch, server,
         FetchAt, WorkerAt, WorkerPc
  <2>4. CountInv'
    BY <1>0, <1>1, <1>2, <1>5, <2>1, <2>2 DEF CountInv, flags, numbers
  <2>5. EndInv'
    <3> SUFFICES ASSUME ~early, FetchAt \notin {"testFailed", "testClosed"}
                 PROVE  EndInv'
      BY <1>8 DEF EndInv, FetchAt
    <3>1. ~eof
      <4>1. recvSeq # Sent + 2
        BY <1>3, StreamFacts
      <4> QED
        BY <1>0, <4>1 DEF EndInv
    <3> QED
      BY <1>0, <1>1, <1>2, <2>1, <3>1 DEF EndInv, flags, numbers, fetch
  <2> QED
    BY <1>6, <2>1, <2>2, <2>3, <2>4, <2>5 DEF StreamInv
<1> QED
  BY <1>7, <1>8 DEF PushUnit

LEMMA AcceptKeeps ==
  ASSUME StreamInv, Accept
  PROVE  StreamInv'
<1>0. /\ PlaceInv /\ AskedInv /\ EndInv /\ FreshInv /\ HolderInv /\ StreamTypeOK
      /\ CountInv /\ ServerInv /\ SegmentInv
  BY DEF StreamInv
<1>1. WorkerAt = "accept"
  BY DEF Accept, At, WorkerAt
<1>2. /\ UNCHANGED <<flags, sendSeq, peerAck, buffer, expired, fetch, segment>>
      /\ UNCHANGED <<server, ghosts>> /\ recvSeq' = recvSeq + 1
  BY DEF Accept
<1>3. PlaceInv' /\ WorkerAt' = "reply" /\ FetchAt' = FetchAt
  BY <1>0, WorkerMoves DEF Accept, WorkerPc
<1>4. recvSeq \in 1..Sent /\ recvSeq' \in 0..(Sent + 2) /\ recvSeq # Sent + 2
  <2>1. recvSeq \in 1..Sent
    BY <1>1, NextUnit
  <2>2. Sent \in Nat
    BY StreamFacts
  <2> QED
    BY <2>1, <2>2, <1>2
<1>5. FetchAt \notin Starting
  BY <1>1, WorkerBusy
<1>6. StreamTypeOK'
  BY <1>0, <1>2, <1>3, <1>4 DEF StreamTypeOK, flags, buffer, fetch, server, ghosts,
     FetchAt, WorkerAt, WorkerPc
<1>7. HolderInv' /\ AskedInv' /\ FreshInv'
  BY <1>0, <1>1, <1>2, <1>3, <1>5
     DEF HolderInv, AskedInv, FreshInv, buffer, fetch, ghosts
<1>8. RingInv' /\ NumberInv' /\ Got' = Got
  BY <1>2, UnitsStay DEF StreamInv, buffer, fetch, ghosts
<1>9. ServerInv' /\ SegmentInv'
  BY <1>0, <1>1, <1>2, <1>3
     DEF ServerInv, MayServe, SegmentInv, SegmentEnd, fetch, server
<1>10. CountInv'
  <2> SUFFICES ASSUME ~reopened
               PROVE  CountInv'
    BY <1>2 DEF CountInv, ghosts
  <2>1. acked <= recvSeq /\ recvSeq = Got /\ (connected \/ closed \/ failed)
    BY <1>0, <1>1 DEF CountInv
  <2>2. acked' <= recvSeq' /\ recvSeq' = Got' + 1 /\ recvSeq' >= 1
        /\ (connected' \/ closed' \/ failed')
    BY <1>2, <1>4, <1>8, <2>1, StreamFacts DEF ghosts, flags
  <2> QED
    BY <1>3, <2>2 DEF CountInv
<1>11. EndInv'
  BY <1>0, <1>1, <1>2, <1>3, <1>4 DEF EndInv, flags, buffer, fetch, ghosts
<1> QED
  BY <1>3, <1>6, <1>7, <1>8, <1>9, <1>10, <1>11 DEF StreamInv

LEMMA ReplyKeeps ==
  ASSUME StreamInv, Reply
  PROVE  StreamInv'
<1>0. /\ PlaceInv /\ AskedInv /\ EndInv /\ FreshInv /\ HolderInv /\ StreamTypeOK
      /\ CountInv /\ ServerInv /\ SegmentInv
  BY DEF StreamInv
<1>1. WorkerAt = "reply"
  BY DEF Reply, At, WorkerAt
<1>2. /\ UNCHANGED <<flags, numbers, buffer, expired, fetch, server>>
      /\ UNCHANGED <<eof, early, reopened>>
      /\ acked' \in {acked, recvSeq}
  BY DEF Reply, Acknowledges
<1>3. /\ PlaceInv' /\ WorkerAt' \in {"none", "flags"} /\ FetchAt' = FetchAt
      /\ segment' \in Segment /\ SegmentInv'
  <2>1. CASE Ends
    BY <1>0, <2>1, EndsIs
  <2>2. CASE Goto(Worker, "flags") /\ UNCHANGED segment
    <3>1. PlaceInv' /\ WorkerAt' = "flags" /\ FetchAt' = FetchAt
      BY <1>0, <2>2, WorkerMoves DEF WorkerPc
    <3>2. segment' \in Segment
      BY <2>2, StreamFacts
    <3>3. SegmentInv'
      BY <1>0, <1>1, <1>2, <2>2, <3>1 DEF SegmentInv, SegmentEnd, server, numbers
    <3> QED
      BY <3>1, <3>2, <3>3
  <2> QED
    BY <2>1, <2>2 DEF Reply
<1>4. FetchAt \notin Starting
  BY <1>1, WorkerBusy
<1>5. StreamTypeOK'
  <2>1. acked' \in 0..(Sent + 2)
    BY <1>0, <1>2 DEF StreamTypeOK
  <2> QED
    BY <1>0, <1>2, <1>3, <2>1 DEF StreamTypeOK, flags, numbers, buffer, fetch, server,
       FetchAt, WorkerAt, WorkerPc
<1>6. HolderInv' /\ AskedInv' /\ FreshInv'
  BY <1>0, <1>1, <1>2, <1>3, <1>4
     DEF HolderInv, AskedInv, FreshInv, buffer, fetch, numbers
<1>7. RingInv' /\ NumberInv' /\ Got' = Got
  BY <1>2, UnitsStay DEF StreamInv, buffer, fetch
<1>8. ServerInv'
  BY <1>0, <1>2 DEF ServerInv, MayServe, fetch, server
<1>9. CountInv'
  BY <1>0, <1>1, <1>2, <1>3, <1>7, StreamFacts DEF CountInv, flags, numbers
<1>10. EndInv'
  BY <1>0, <1>1, <1>2, <1>3 DEF EndInv, flags, numbers, buffer, fetch
<1> QED
  BY <1>3, <1>5, <1>6, <1>7, <1>8, <1>9, <1>10 DEF StreamInv

LEMMA FlagsKeeps ==
  ASSUME StreamInv, Flags
  PROVE  StreamInv'
<1>0. /\ PlaceInv /\ AskedInv /\ EndInv /\ FreshInv /\ HolderInv /\ StreamTypeOK
      /\ CountInv /\ ServerInv /\ SegmentInv
  BY DEF StreamInv
<1>1. WorkerAt = "flags"
  BY DEF Flags, At, WorkerAt
<1>2. /\ UNCHANGED <<configured, dnsDone, resolved, remote, failed, sendSeq>>
      /\ UNCHANGED <<peerAck, buffer, expired, fetch, server, eof, reopened>>
  BY DEF Flags
<1>3. /\ closed' = (closed \/ segment.fin \/ segment.rst)
      /\ connected' = (connected /\ ~segment.fin /\ ~segment.rst)
      /\ recvSeq' = IF segment.fin /\ SegmentEnd = recvSeq THEN recvSeq + 1 ELSE recvSeq
      /\ acked' = IF segment.fin /\ recvSeq' > acked THEN recvSeq' ELSE acked
      /\ early' = (early \/ segment.rst \/ (segment.fin /\ SegmentEnd # recvSeq))
  BY DEF Flags
<1>4. /\ PlaceInv' /\ WorkerAt' = "none" /\ FetchAt' = FetchAt
      /\ segment' \in Segment /\ SegmentInv'
  BY <1>0, EndsIs DEF Flags
<1>5. segment.fin => served = Sent + 1 /\ SegmentEnd = Sent + 1
  BY <1>0, <1>1 DEF SegmentInv
<1>6. /\ segment.fin \in BOOLEAN /\ segment.rst \in BOOLEAN
      /\ recvSeq \in Nat /\ acked \in Nat /\ Sent \in Nat /\ Got \in Nat
  BY StreamFacts DEF Segment
<1>7. /\ recvSeq' \in {recvSeq, recvSeq + 1}
      /\ recvSeq' = recvSeq + 1 => segment.fin /\ recvSeq = Sent + 1
      /\ acked' \in {acked, recvSeq'}
  BY <1>3, <1>5, <1>6
<1>8. /\ FetchAt \notin Starting
      /\ FetchAt \in {"sequence", "connect"} \cup Talking \cup Ending
  BY <1>1, WorkerBusy
<1>9. StreamTypeOK'
  <2>1. recvSeq' \in 0..(Sent + 2)
    BY <1>0, <1>6, <1>7 DEF StreamTypeOK
  <2>2. acked' \in 0..(Sent + 2)
    BY <1>0, <1>7, <2>1 DEF StreamTypeOK
  <2>3. closed' \in BOOLEAN /\ connected' \in BOOLEAN /\ early' \in BOOLEAN
    BY <1>0, <1>3, <1>6 DEF StreamTypeOK
  <2> QED
    BY <1>0, <1>2, <1>4, <2>1, <2>2, <2>3
       DEF StreamTypeOK, buffer, fetch, server, FetchAt, WorkerAt, WorkerPc
<1>10. HolderInv' /\ AskedInv' /\ FreshInv'
  BY <1>0, <1>1, <1>2, <1>4, <1>8 DEF HolderInv, AskedInv, FreshInv, buffer, fetch
<1>11. RingInv' /\ NumberInv' /\ Got' = Got
  BY <1>2, UnitsStay DEF StreamInv, buffer, fetch
<1>12. ServerInv'
  BY <1>0, <1>2 DEF ServerInv, MayServe, fetch, server
<1>13. CountInv'
  <2> SUFFICES ASSUME ~reopened
               PROVE  CountInv'
    BY <1>2 DEF CountInv
  <2>1. /\ acked <= recvSeq /\ (connected \/ closed \/ failed)
        /\ \/ recvSeq = Got + 1
           \/ recvSeq = 0 /\ Got = 0
           \/ recvSeq = Sent + 2 /\ Got = Sent
        /\ connected => recvSeq >= 1
    BY <1>0, <1>1 DEF CountInv
  <2>2. acked' <= recvSeq'
    BY <1>6, <1>7, <2>1
  <2>3. \/ recvSeq' = Got + 1
        \/ recvSeq' = 0 /\ Got = 0
        \/ recvSeq' = Sent + 2 /\ Got = Sent
    BY <1>6, <1>7, <2>1
  <2>4. connected' \/ closed' \/ failed'
    BY <1>2, <1>3, <1>6, <2>1
  <2>5. connected' => recvSeq' >= 1
    BY <1>3, <1>6, <1>7, <2>1
  <2> QED
    BY <1>4, <1>11, <2>2, <2>3, <2>4, <2>5 DEF CountInv
<1>14. EndInv'
  <2> SUFFICES ASSUME ~early, ~segment.rst, segment.fin => SegmentEnd = recvSeq
               PROVE  EndInv'
    BY <1>3 DEF EndInv
  <2>1. CASE ~segment.fin
    <3>1. closed' = closed /\ connected' = connected /\ recvSeq' = recvSeq
      BY <1>0, <1>3, <2>1 DEF StreamTypeOK
    <3> QED
      BY <1>0, <1>1, <1>2, <1>4, <3>1 DEF EndInv, buffer, fetch
  <2>2. CASE segment.fin
    <3>1. recvSeq = Sent + 1 /\ recvSeq' = Sent + 2 /\ recvSeq # Sent + 2
      BY <1>3, <1>5, <1>6, <2>2
    <3>2. served > 1 /\ served > 0
      BY <1>5, <2>2, StreamFacts
    <3>3. FetchAt \in Talking => sendSeq > 1
      BY <3>2, ServedAsked
    <3>4. FetchAt \in Talking => sendSeq # 1
      BY <3>3
    <3>5. FetchAt \notin {"sequence", "connect"}
      <4>1. asked > 0
        BY <3>2, ServedAsked
      <4> QED
        BY <1>0, <4>1 DEF AskedInv, Dialling
    <3>6. ~eof
      BY <1>0, <3>1 DEF EndInv
    <3>7. FetchAt \in {"testFailed", "testClosed"} => ring.count = 0
      <4>1. FetchAt \in {"testFailed", "testClosed"} => FetchAt \in Talking
        BY DEF Talking, Reads
      <4> QED
        BY <1>0, <1>1, <4>1 DEF EndInv
    <3> QED
      BY <1>0, <1>2, <1>4, <3>1, <3>4, <3>5, <3>6, <3>7 DEF EndInv, buffer, fetch
  <2> QED
    BY <1>6, <2>1, <2>2
<1> QED
  BY <1>4, <1>9, <1>10, <1>11, <1>12, <1>13, <1>14 DEF StreamInv

LEMMA PushFailsKeeps ==
  ASSUME StreamInv, PushFails
  PROVE  StreamInv'
<1>0. /\ PlaceInv /\ AskedInv /\ EndInv /\ FreshInv /\ HolderInv /\ StreamTypeOK
      /\ CountInv /\ ServerInv /\ SegmentInv
  BY DEF StreamInv
<1>1. WorkerAt = "fail"
  BY DEF PushFails, At, WorkerAt
<1>2. /\ UNCHANGED <<configured, dnsDone, resolved, remote, closed, numbers>>
      /\ UNCHANGED <<buffer, expired, fetch, server, ghosts>>
      /\ failed' = TRUE /\ connected' = FALSE
  BY DEF PushFails
<1>3. /\ PlaceInv' /\ WorkerAt' = "none" /\ FetchAt' = FetchAt
      /\ segment' \in Segment /\ SegmentInv'
  BY <1>0, EndsIs DEF PushFails
<1>4. FetchAt \notin Starting
  BY <1>1, WorkerBusy
<1>5. recvSeq # Sent + 2
  BY <1>1, NextUnit, StreamFacts
<1>6. StreamTypeOK'
  BY <1>0, <1>2, <1>3 DEF StreamTypeOK, numbers, buffer, fetch, server, ghosts,
     FetchAt, WorkerAt, WorkerPc
<1>7. HolderInv' /\ AskedInv' /\ FreshInv'
  BY <1>0, <1>1, <1>2, <1>3, <1>4
     DEF HolderInv, AskedInv, FreshInv, buffer, fetch, numbers, ghosts
<1>8. RingInv' /\ NumberInv' /\ Got' = Got
  BY <1>2, UnitsStay DEF StreamInv, buffer, fetch, ghosts
<1>9. ServerInv'
  BY <1>0, <1>2 DEF ServerInv, MayServe, fetch, server
<1>10. CountInv'
  BY <1>0, <1>1, <1>2, <1>3, <1>8 DEF CountInv, numbers, ghosts
<1>11. EndInv'
  <2>1. ~early /\ FetchAt \in Talking => ~closed /\ sendSeq # 1
    BY <1>0, <1>1, <1>5 DEF EndInv
  <2>2. FetchAt \in {"testFailed", "testClosed"} => FetchAt \in Talking
    BY DEF Talking, Reads
  <2> QED
    BY <1>0, <1>2, <1>3, <2>1, <2>2 DEF EndInv, numbers, buffer, fetch, ghosts
<1> QED
  BY <1>3, <1>6, <1>7, <1>8, <1>9, <1>10, <1>11 DEF StreamInv

-----------------------------------------------------------------------------
(* What the stream keeps.                                                  *)

LEMMA StreamStutters ==
  ASSUME StreamInv, UNCHANGED streamVars
  PROVE  StreamInv'
<1>1. /\ UNCHANGED <<configured, dnsDone, resolved, remote, connected, closed>>
      /\ UNCHANGED <<failed, numbers, buffer, expired, pc, fetch, segment>>
      /\ UNCHANGED <<server, ghosts>>
  BY DEF streamVars, flags
<1>2. FetchAt' = FetchAt /\ WorkerAt' = WorkerAt /\ PlaceInv'
  BY <1>1 DEF StreamInv, FetchAt, WorkerAt, PlaceInv
<1>3. Quiet
  BY <1>1 DEF Quiet, fetch, server, ghosts
<1>4. StreamTypeOK'
  BY <1>1, <1>2, <1>3, QuietTypes, StreamFacts
     DEF StreamInv, StreamTypeOK, fetch, server, ghosts
<1>5. FreshInv' /\ AskedInv' /\ EndInv'
  BY <1>1, <1>2 DEF StreamInv, FreshInv, AskedInv, EndInv, numbers, buffer, fetch, server,
     ghosts
<1> QED
  BY <1>2, <1>3, <1>4, <1>5, QuietKeeps

LEMMA StreamNextKeeps ==
  ASSUME StreamInv, [StreamNext]_streamVars
  PROVE  StreamInv'
<1>1. CASE Configure
  BY <1>1, ConfigureKeeps
<1>2. CASE CheckThread
  <2>1. CASE GoesOn
    BY <2>1, GoesOnKeeps
  <2>2. CASE ConnectReset
    BY <2>2, ConnectResetKeeps
  <2>3. CASE SendSyn
    BY <2>3, SendSynKeeps
  <2>4. CASE SynNumbered
    BY <2>4, SynNumberedKeeps
  <2>5. CASE WriteSent
    BY <2>5, WriteSentKeeps
  <2>6. CASE WriteRefused
    BY <2>6, WriteRefusedKeeps
  <2>7. CASE WriteNumbered
    BY <2>7, WriteNumberedKeeps
  <2>8. CASE ReadTry
    BY <2>8, ReadTryKeeps
  <2>9. CASE ReadTake
    BY <2>9, ReadTakeKeeps
  <2>10. CASE ReadTestClosed
    BY <2>10, ReadTestClosedKeeps
  <2>11. CASE Abort \/ Close
    BY <2>11, ShutsKeeps
  <2> QED
    BY <1>2, <2>1, <2>2, <2>3, <2>4, <2>5, <2>6, <2>7, <2>8, <2>9, <2>10, <2>11
       DEF CheckThread, GoesOn, Goes
<1>3. CASE Arrives
  BY <1>3, ArrivesKeeps
<1>4. CASE WorkerStep
  BY <1>4, HandshakeKeeps, SortKeeps, PushTryKeeps, PushUnitKeeps, AcceptKeeps,
     ReplyKeeps, FlagsKeeps, PushFailsKeeps DEF WorkerStep
<1>5. CASE ServerGets \/ ServerSends \/ Expire \/ DnsReply
  BY <1>5, WorldKeeps
<1>6. CASE UNCHANGED streamVars
  BY <1>6, StreamStutters
<1> QED
  BY <1>1, <1>2, <1>3, <1>4, <1>5, <1>6 DEF StreamNext

\* The invariant holds of the stream in every state, for requests, answers and
\* rings of any size.
THEOREM StreamInvariant == StreamSpec => []StreamInv
<1>1. StreamInit => StreamInv
  BY StreamInitially
<1>2. StreamInv /\ [StreamNext]_streamVars => StreamInv'
  BY StreamNextKeeps
<1> QED
  BY <1>1, <1>2, PTL DEF StreamSpec

\* Every variable of the stream keeps its type: B9cTcpStream's numbers stay
\* within what is sent and the ring's indices within the ring.
THEOREM StreamTypes == StreamSpec => []StreamTypeOK
<1>1. StreamInv => StreamTypeOK
  BY DEF StreamInv
<1> QED
  BY <1>1, StreamInvariant, PTL

LEMMA UnitsAreKept ==
  ASSUME StreamInv
  PROVE  StreamIsKept
<1> DEFINE units == read \o R!Content(ring)
<1>1. /\ read \in Seq(Units) /\ Len(read) \in Nat /\ SP!Tight(ring)
      /\ ring.count \in Nat
  BY StreamFacts
<1>2. R!Content(ring) \in Seq(Units \cup {0}) /\ Len(R!Content(ring)) = ring.count
  BY <1>1, StreamRing
<1>3. Len(units) = Got /\ DOMAIN units = 1..Got
      /\ \A i \in 1..Got :
           units[i] = IF i <= Len(read) THEN read[i] ELSE R!Content(ring)[i - Len(read)]
  <2>1. \A q \in Seq(Units \cup {0}) :
          /\ read \o q \in Seq(Units \cup {0}) /\ Len(read \o q) = Len(read) + Len(q)
          /\ \A i \in 1..(Len(read) + Len(q)) :
               (read \o q)[i] = IF i <= Len(read) THEN read[i] ELSE q[i - Len(read)]
    <3>1. read \in Seq(Units \cup {0})
      BY <1>1
    <3> QED
      BY <3>1, ConcatProperties
  <2>2. units \in Seq(Units \cup {0}) /\ Len(units) = Len(read) + ring.count
    BY <1>2, <2>1
  <2>3. DOMAIN units = 1..Len(units)
    BY <2>2, LenProperties
  <2> QED
    BY <1>2, <2>1, <2>2, <2>3 DEF Got
<1> HIDE DEF units
<1>4. ASSUME ~reopened, NEW i \in 1..Got
      PROVE  units[i] = i
  <2>1. /\ \A j \in 1..Len(read) : read[j] = j
        /\ \A j \in 1..ring.count : R!Content(ring)[j] = Len(read) + j
    BY <1>4 DEF StreamInv, NumberInv
  <2>2. CASE i <= Len(read)
    <3>1. i \in 1..Len(read)
      BY <1>1, <1>4, <2>2 DEF Got
    <3> QED
      BY <1>3, <1>4, <2>1, <2>2, <3>1
  <2>3. CASE ~(i <= Len(read))
    <3>1. i - Len(read) \in 1..ring.count /\ Len(read) + (i - Len(read)) = i
      BY <1>1, <1>4, <2>3 DEF Got
    <3> QED
      BY <1>3, <1>4, <2>1, <2>3, <3>1
  <2> QED
    BY <2>2, <2>3
<1>5. ASSUME ~reopened, NEW u \in Units, u < acked
      PROVE  u <= Got
  <2>1. /\ acked <= recvSeq
        /\ \/ recvSeq = Got \/ recvSeq = Got + 1 \/ recvSeq = 0
           \/ recvSeq = Sent + 2 /\ Got = Sent
    BY <1>5 DEF StreamInv, CountInv
  <2> QED
    BY <1>5, <2>1, StreamFacts DEF Units
<1> QED
  BY <1>3, <1>4, <1>5 DEF StreamIsKept, units

\* However segments are lost, repeated or reordered, what Read has given and the
\* ring holds are the server's first units in their order, and SendTcp has
\* acknowledged none that is not among them.
THEOREM StreamKept == StreamSpec => []StreamIsKept
<1>1. StreamInv => StreamIsKept
  BY UnitsAreKept
<1> QED
  BY <1>1, StreamInvariant, PTL

\* When Read reports the end of a stream that was not closed early, the library
\* has got every unit that the server sent.
THEOREM EofTrue == StreamSpec => []EofIsTrue
<1>1. StreamInv => EofIsTrue
  BY DEF StreamInv, EndInv, EofIsTrue
<1> QED
  BY <1>1, StreamInvariant, PTL
=============================================================================
