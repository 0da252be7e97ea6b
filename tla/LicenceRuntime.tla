--------------------------- MODULE LicenceRuntime ---------------------------
(***************************************************************************)
(* The licence runtime of Core (license/license_runtime.cpp) and the       *)
(* three threads that call it:                                             *)
(*                                                                         *)
(*   usb     - the USB callback thread: AddDevice/RemoveDevice of the      *)
(*             tether driver call BeginPhoneConnection/EndPhoneConnection; *)
(*   tether  - the tether Worker, the only caller of MaybeStartCheck;      *)
(*   checker - the detached CheckWorker thread MaybeStartCheck starts.     *)
(*                                                                         *)
(* All shared fields are separate atomic words and no lock spans two of    *)
(* them, so every read or write that another thread can observe is a step. *)
(* A read or write of a word no other thread touches is folded into the    *)
(* neighbouring step.                                                      *)
(***************************************************************************)
EXTENDS Integers

CONSTANT MaxConnection  \* bound: iPhone connections in one Core session

ASSUME MaxConnectionAssumption == MaxConnection \in Nat \ {0}

NoConnection  == 0
Connections   == 1..MaxConnection
ConnectionIds == 0..MaxConnection

Definitive  == {"Licensed", "Free", "Unlicensed"}
LicenceState == Definitive \cup {"Unknown"}
NetworkGate  == {"Pending", "Allow", "Deny"}

\* How one attempt can end: a verdict on a recognised list, or no verdict
\* (no console ID, HTTPS failure, unrecognised document, no thread).
Outcome == {"Matched", "Free", "NoMatch", "Unavailable"}

VARIABLES
  state,            \* R().state
  gate,             \* R().gate
  checkActive,      \* R().check_active
  current,          \* R().current_connection
  lastAttempt,      \* R().last_attempt_connection
  checkConnection,  \* R().check_connection
  probe,            \* gInternetProbeOk, shared as R().independent_internet_ok
  connectionId,     \* gPhoneConnectionSerial, the id of the newest phone
  usb,              \* [pc, seen]: USB thread inside Begin/EndPhoneConnection
  tether,           \* [pc, id]: tether Worker inside MaybeStartCheck
  checker,          \* [pc, id, outcome]: the CheckWorker thread
  attempted,        \* history: number of attempts made for each connection
  decided,          \* history: the outcomes that have been written to state
  overlapped        \* history: a phone came or left while a check was running

shared == <<state, gate, checkActive, current, lastAttempt, checkConnection,
            probe, connectionId>>
threads == <<usb, tether, checker>>
history == <<attempted, decided, overlapped>>
vars == <<shared, threads, history>>

UsbPc == {"detached", "begin", "beginRead", "beginGate",
          "attached", "endRead", "endGate"}
TetherPc == {"idle", "call", "readState", "readActive", "configure", "arm",
             "launch", "failState", "failGate"}
CheckerPc == {"none", "start", "derive", "localFail", "fetch", "spins",
              "probeCheck", "probeSet", "judge", "verdictState", "verdictGate",
              "finish", "openState", "openGate", "release"}

TypeOK ==
  /\ state \in LicenceState
  /\ gate \in NetworkGate
  /\ checkActive \in BOOLEAN
  /\ current \in ConnectionIds
  /\ lastAttempt \in ConnectionIds
  /\ checkConnection \in ConnectionIds
  /\ probe \in BOOLEAN
  /\ connectionId \in ConnectionIds
  /\ usb \in [pc : UsbPc, seen : LicenceState]
  /\ tether \in [pc : TetherPc, id : ConnectionIds]
  /\ checker \in [pc : CheckerPc, id : ConnectionIds, outcome : Outcome]
  /\ attempted \in [Connections -> Nat]
  /\ decided \in SUBSET Outcome
  /\ overlapped \in BOOLEAN

\* Mutant of GateFor: the gate opens while the state is still unknown.
GateForUnknownAllows(s) == IF s = "Unlicensed" THEN "Deny" ELSE "Allow"

\* What SetStateAndGate and BeginPhoneConnection pair with each other.
GateFor(s) == CASE s \in {"Licensed", "Free"} -> "Allow"
                [] s = "Unlicensed"           -> "Deny"
                [] OTHER                      -> "Pending"

StateFor(o) == CASE o = "Matched" -> "Licensed"
                 [] o = "Free"    -> "Free"
                 [] o = "NoMatch" -> "Unlicensed"
                 [] OTHER         -> "Unknown"

UsbAt(p)     == usb.pc = p
TetherAt(p)  == tether.pc = p
CheckerAt(p) == checker.pc = p

UsbGoto(p)     == usb' = [usb EXCEPT !.pc = p]
TetherGoto(p)  == tether' = [tether EXCEPT !.pc = p]
CheckerGoto(p) == checker' = [checker EXCEPT !.pc = p]

SameCurrentConnection(id) == current = id

-----------------------------------------------------------------------------
(* ResetCoreSession, run once before the driver can be called.             *)

Init ==
  /\ state = "Unknown"
  /\ gate = "Pending"
  /\ checkActive = FALSE
  /\ current = NoConnection
  /\ lastAttempt = NoConnection
  /\ checkConnection = NoConnection
  /\ probe = FALSE
  /\ connectionId = NoConnection
  /\ usb = [pc |-> "detached", seen |-> "Unknown"]
  /\ tether = [pc |-> "idle", id |-> NoConnection]
  /\ checker = [pc |-> "none", id |-> NoConnection, outcome |-> "Unavailable"]
  /\ attempted = [c \in Connections |-> 0]
  /\ decided = {}
  /\ overlapped = FALSE

-----------------------------------------------------------------------------
(* USB callback thread.                                                    *)

\* A check is in flight: its thread runs, or MaybeStartCheck has already
\* found the state UNKNOWN and is about to start it.
CheckInFlight == checkActive \/ tether.pc # "idle"

NoteOverlap == overlapped' = (overlapped \/ CheckInFlight)

\* AddDevice has opened the control endpoint: new serial, probe flag cleared.
PhoneAttached ==
  /\ UsbAt("detached")
  /\ connectionId < MaxConnection
  /\ connectionId' = connectionId + 1
  /\ probe' = FALSE
  /\ UsbGoto("begin")
  /\ NoteOverlap
  /\ UNCHANGED <<state, gate, checkActive, current, lastAttempt,
                 checkConnection, tether, checker, attempted, decided>>

\* BeginPhoneConnection, three observable accesses.
BeginPublish ==
  /\ UsbAt("begin")
  /\ current' = connectionId
  /\ UsbGoto("beginRead")
  /\ NoteOverlap
  /\ UNCHANGED <<state, gate, checkActive, lastAttempt, checkConnection,
                 probe, connectionId, tether, checker, attempted, decided>>

BeginReadState ==
  /\ UsbAt("beginRead")
  /\ usb' = [usb EXCEPT !.pc = "beginGate", !.seen = state]
  /\ NoteOverlap
  /\ UNCHANGED <<shared, tether, checker, attempted, decided>>

\* Mutant: a known verdict is not restored for the new phone.
BeginSetGateForgetsVerdict ==
  /\ UsbAt("beginGate")
  /\ gate' = "Pending"
  /\ UsbGoto("attached")
  /\ NoteOverlap
  /\ UNCHANGED <<state, checkActive, current, lastAttempt, checkConnection,
                 probe, connectionId, tether, checker, attempted, decided>>

BeginSetGate ==
  /\ UsbAt("beginGate")
  /\ gate' = GateFor(usb.seen)
  /\ UsbGoto("attached")
  /\ NoteOverlap
  /\ UNCHANGED <<state, checkActive, current, lastAttempt, checkConnection,
                 probe, connectionId, tether, checker, attempted, decided>>

\* EndPhoneConnection.  Its SameCurrentConnection test and the clearing of
\* current_connection are one step: only this thread writes that word.
EndPublish ==
  /\ UsbAt("attached")
  /\ SameCurrentConnection(connectionId)
  /\ current' = NoConnection
  /\ UsbGoto("endRead")
  /\ NoteOverlap
  /\ UNCHANGED <<state, gate, checkActive, lastAttempt, checkConnection,
                 probe, connectionId, tether, checker, attempted, decided>>

EndReadState ==
  /\ UsbAt("endRead")
  /\ usb' = [usb EXCEPT !.pc = "endGate", !.seen = state]
  /\ NoteOverlap
  /\ UNCHANGED <<shared, tether, checker, attempted, decided>>

EndSetGate ==
  /\ UsbAt("endGate")
  /\ gate' = IF usb.seen = "Unknown" THEN "Pending" ELSE gate
  /\ UsbGoto("detached")
  /\ NoteOverlap
  /\ UNCHANGED <<state, checkActive, current, lastAttempt, checkConnection,
                 probe, connectionId, tether, checker, attempted, decided>>

-----------------------------------------------------------------------------
(* Tether Worker.                                                          *)

\* NetEventHttpResponse sets the probe flag, a lost carrier or a restarted
\* validation clears it.
TetherProbe ==
  /\ probe' = ~probe
  /\ UNCHANGED <<state, gate, checkActive, current, lastAttempt,
                 checkConnection, connectionId, threads, history>>

\* MaybeStartLicenceCheck finds the network configured.  The Worker may have
\* begun its round before the phone left; AddDevice clears netStarted.
StartRequested ==
  /\ TetherAt("idle")
  /\ usb.pc \notin {"begin", "beginRead", "beginGate"}
  /\ connectionId # NoConnection
  /\ TetherGoto("call")
  /\ overlapped' = (overlapped \/ ~UsbAt("attached"))
  /\ UNCHANGED <<shared, usb, checker, attempted, decided>>

\* The id is read again for the call, and must be the current connection.
StartCalled ==
  /\ TetherAt("call")
  /\ tether' = [pc |-> IF SameCurrentConnection(connectionId) THEN "readState"
                                                              ELSE "idle",
                id |-> connectionId]
  /\ UNCHANGED <<shared, usb, checker, history>>

\* Mutant: a known verdict does not stop a new check.
StartReadStateIgnored ==
  /\ TetherAt("readState")
  /\ TetherGoto("readActive")
  /\ UNCHANGED <<shared, usb, checker, history>>

StartReadState ==
  /\ TetherAt("readState")
  /\ TetherGoto(IF state = "Unknown" THEN "readActive" ELSE "idle")
  /\ UNCHANGED <<shared, usb, checker, history>>

\* Mutant: a running check does not stop a new one.
StartReadActiveIgnored ==
  /\ TetherAt("readActive")
  /\ TetherGoto(IF lastAttempt = tether.id THEN "idle" ELSE "configure")
  /\ UNCHANGED <<shared, usb, checker, history>>

\* check_active, then last_attempt_connection, which only this thread writes.
StartReadActive ==
  /\ TetherAt("readActive")
  /\ TetherGoto(IF checkActive \/ lastAttempt = tether.id THEN "idle"
                                                          ELSE "configure")
  /\ UNCHANGED <<shared, usb, checker, history>>

\* stream.Configure resets the TCP stream; a lease without DNS is refused.
StartConfigure ==
  /\ TetherAt("configure")
  /\ \/ TetherGoto("arm")
     \/ TetherGoto("idle")
  /\ UNCHANGED <<shared, usb, checker, history>>

\* Mutant: the attempt is not recorded.
StartArmUnrecorded ==
  /\ TetherAt("arm")
  /\ checkConnection' = tether.id
  /\ gate' = "Pending"
  /\ TetherGoto("launch")
  /\ UNCHANGED <<state, checkActive, current, lastAttempt, probe,
                 connectionId, usb, checker, history>>

StartArm ==
  /\ TetherAt("arm")
  /\ checkConnection' = tether.id
  /\ lastAttempt' = tether.id
  /\ gate' = "Pending"
  /\ TetherGoto("launch")
  /\ UNCHANGED <<state, checkActive, current, probe, connectionId,
                 usb, checker, history>>

\* check_active is raised and the thread created.
StartLaunched ==
  /\ TetherAt("launch")
  /\ attempted' = [attempted EXCEPT ![tether.id] = @ + 1]
  /\ checkActive' = TRUE
  /\ checker' = [checker EXCEPT !.pc = "start"]
  /\ TetherGoto("idle")
  /\ UNCHANGED <<state, gate, current, lastAttempt, checkConnection, probe,
                 connectionId, usb, decided, overlapped>>

\* No thread could be created: check_active falls back before another thread
\* reads it, then the gate fails open.
StartRefused ==
  /\ TetherAt("launch")
  /\ attempted' = [attempted EXCEPT ![tether.id] = @ + 1]
  /\ TetherGoto("failState")
  /\ UNCHANGED <<shared, usb, checker, decided, overlapped>>

StartFailState ==
  /\ TetherAt("failState")
  /\ state' = "Unknown"
  /\ decided' = decided \cup {"Unavailable"}
  /\ TetherGoto("failGate")
  /\ UNCHANGED <<gate, checkActive, current, lastAttempt, checkConnection,
                 probe, connectionId, usb, checker, attempted, overlapped>>

StartFailGate ==
  /\ TetherAt("failGate")
  /\ gate' = "Allow"
  /\ TetherGoto("idle")
  /\ UNCHANGED <<state, checkActive, current, lastAttempt, checkConnection,
                 probe, connectionId, usb, checker, history>>

-----------------------------------------------------------------------------
(* CheckWorker.                                                            *)

CheckReadConnection ==
  /\ CheckerAt("start")
  /\ checker' = [checker EXCEPT !.pc = "derive", !.id = checkConnection]
  /\ UNCHANGED <<shared, usb, tether, history>>

\* DeriveLicenceId reads the console key.
CheckDerive ==
  /\ CheckerAt("derive")
  /\ \/ CheckerGoto("fetch")
     \/ CheckerGoto("localFail")
  /\ UNCHANGED <<shared, usb, tether, history>>

\* Mutant: a console without an ID fails closed, with no decision.
CheckLocalFailUndecided ==
  /\ CheckerAt("localFail")
  /\ checker' = [checker EXCEPT !.outcome = "Unavailable", !.pc = "release"]
  /\ UNCHANGED <<shared, usb, tether, history>>

CheckLocalFail ==
  /\ CheckerAt("localFail")
  /\ checker' = [checker EXCEPT
                   !.outcome = "Unavailable",
                   !.pc = IF SameCurrentConnection(checker.id) THEN "openState"
                                                               ELSE "release"]
  /\ UNCHANGED <<shared, usb, tether, history>>

\* FetchFixedLicenceFile, any HTTPS result and any document it can return.
CheckFetched(o) ==
  /\ CheckerAt("fetch")
  /\ checker' = [checker EXCEPT !.pc = "probeCheck", !.outcome = o]
  /\ UNCHANGED <<shared, usb, tether, history>>

CheckFetchFailed ==
  /\ CheckerAt("fetch")
  /\ checker' = [checker EXCEPT !.pc = "finish", !.outcome = "Unavailable"]
  /\ UNCHANGED <<shared, usb, tether, history>>

\* The deadline passes between two records: Write returns 0, which BearSSL does
\* not take for a failure, and the same call is made again at once.
CheckSpins ==
  /\ CheckerAt("fetch")
  /\ CheckerGoto("spins")
  /\ UNCHANGED <<shared, usb, tether, history>>

\* Only a segment of the peer, its FIN or RST, takes connected_ away; then Write
\* returns -1 and the fetch has failed.
CheckSpinEnds ==
  /\ CheckerAt("spins")
  /\ checker' = [checker EXCEPT !.pc = "finish", !.outcome = "Unavailable"]
  /\ UNCHANGED <<shared, usb, tether, history>>

CheckProbeGuard ==
  /\ CheckerAt("probeCheck")
  /\ CheckerGoto(IF SameCurrentConnection(checker.id) THEN "probeSet"
                                                      ELSE "judge")
  /\ UNCHANGED <<shared, usb, tether, history>>

CheckProbeSet ==
  /\ CheckerAt("probeSet")
  /\ probe' = TRUE
  /\ CheckerGoto("judge")
  /\ UNCHANGED <<state, gate, checkActive, current, lastAttempt,
                 checkConnection, connectionId, usb, tether, history>>

CheckJudge ==
  /\ CheckerAt("judge")
  /\ CheckerGoto(IF checker.outcome = "Unavailable" THEN "finish"
                                                    ELSE "verdictState")
  /\ UNCHANGED <<shared, usb, tether, history>>

CheckVerdictState ==
  /\ CheckerAt("verdictState")
  /\ state' = StateFor(checker.outcome)
  /\ decided' = decided \cup {checker.outcome}
  /\ CheckerGoto("verdictGate")
  /\ UNCHANGED <<gate, checkActive, current, lastAttempt, checkConnection,
                 probe, connectionId, usb, tether, attempted, overlapped>>

CheckVerdictGate ==
  /\ CheckerAt("verdictGate")
  /\ gate' = GateFor(StateFor(checker.outcome))
  /\ CheckerGoto("release")
  /\ UNCHANGED <<state, checkActive, current, lastAttempt, checkConnection,
                 probe, connectionId, usb, tether, history>>

\* FinishUnavailable: the wait ends when the connection is no longer current,
\* the deadline expires or the probe succeeds, so at any time; then the test.
CheckFinish ==
  /\ CheckerAt("finish")
  /\ CheckerGoto(IF SameCurrentConnection(checker.id) THEN "openState"
                                                      ELSE "release")
  /\ UNCHANGED <<shared, usb, tether, history>>

CheckOpenState ==
  /\ CheckerAt("openState")
  /\ state' = "Unknown"
  /\ decided' = decided \cup {"Unavailable"}
  /\ CheckerGoto("openGate")
  /\ UNCHANGED <<gate, checkActive, current, lastAttempt, checkConnection,
                 probe, connectionId, usb, tether, attempted, overlapped>>

CheckOpenGate ==
  /\ CheckerAt("openGate")
  /\ gate' = "Allow"
  /\ CheckerGoto("release")
  /\ UNCHANGED <<state, checkActive, current, lastAttempt, checkConnection,
                 probe, connectionId, usb, tether, history>>

\* stream.Close, then check_active.
CheckRelease ==
  /\ CheckerAt("release")
  /\ checkActive' = FALSE
  /\ CheckerGoto("none")
  /\ UNCHANGED <<state, gate, current, lastAttempt, checkConnection, probe,
                 connectionId, usb, tether, history>>

-----------------------------------------------------------------------------

UsbCall == BeginPublish \/ BeginReadState \/ BeginSetGate
             \/ EndReadState \/ EndSetGate

TetherCall == StartCalled \/ StartReadState \/ StartReadActive
                \/ StartConfigure \/ StartArm \/ StartLaunched \/ StartRefused
                \/ StartFailState \/ StartFailGate

Checker == CheckReadConnection \/ CheckDerive \/ CheckLocalFail
             \/ (\E o \in Outcome : CheckFetched(o)) \/ CheckFetchFailed
             \/ CheckSpins \/ CheckProbeGuard \/ CheckProbeSet \/ CheckJudge
             \/ CheckVerdictState \/ CheckVerdictGate
             \/ CheckFinish \/ CheckOpenState \/ CheckOpenGate \/ CheckRelease

Next == PhoneAttached \/ EndPublish \/ UsbCall
          \/ TetherProbe \/ StartRequested \/ TetherCall
          \/ Checker \/ CheckSpinEnds

Spec == Init /\ [][Next]_vars

\* The threads keep running; a phone may stay plugged in or out for ever.  Every
\* wait of the fetch ends at its deadline, but a fetch that spins needs a segment
\* of the server: CheckSpinEnds is no step of Checker and nothing makes it happen.
FairSpec ==
  /\ Spec
  /\ WF_vars(UsbCall)
  /\ WF_vars(StartRequested) /\ WF_vars(TetherCall)
  /\ WF_vars(Checker)

-----------------------------------------------------------------------------
(* Properties that hold.                                                   *)

\* stream is one object: the Worker reconfigures it (Configure resets every
\* field) only while no check uses it, and at most one check is in flight.
StreamExclusive ==
  /\ checkActive <=> ~CheckerAt("none")
  /\ tether.pc \in {"configure", "arm", "launch"} => CheckerAt("none")

\* license_runtime.h: "limited to once per physical iPhone connection", over
\* any order of replugs, refused threads and slow checks.
AttemptOncePerConnection ==
  \A c \in Connections : attempted[c] <= 1

\* However the threads interleave, native networking is let through only by
\* an outcome that lets it through: a session whose checks all said NoMatch
\* never opens the gate, and no gate opens before a first outcome.  Nor does it
\* deny without a recognised list that does not hold this console.
GateIsEarned ==
  /\ gate = "Allow" => decided \cap {"Matched", "Free", "Unavailable"} # {}
  /\ gate = "Deny" => "NoMatch" \in decided

Settled == UsbAt("attached") /\ TetherAt("idle") /\ CheckerAt("none")

\* The threads together implement the attempt discipline of LicenceAttempts.
Attempts == INSTANCE LicenceAttempts WITH
  latest   <- connectionId,
  tried    <- {c \in Connections : attempted[c] > 0},
  checking <- IF checkActive THEN checkConnection ELSE NoConnection

AttemptsSpec == Attempts!Spec

\* As long as no phone comes or leaves while a check is in flight, the gate a
\* connected phone is left with is the one its verdict calls for.
SerialGateAgrees ==
  Settled /\ ~overlapped /\ state # "Unknown" => gate = GateFor(state)

\* ... and a definitive verdict is never replaced.
SerialVerdictPersists ==
  [][(state \in Definitive /\ ~overlapped') => state' = state]_vars

\* Every check comes to decide the gate (allow, deny, or fail open), unless its
\* phone has left or a phone event met it, and then ends, so that a later phone
\* can have its own - or else it is in the loop of the fetch that only the server
\* ends.  No other wait and no lost update of the threads keeps it.
CheckDecides ==
  \A c \in Connections :
    (checkActive /\ checkConnection = c)
      ~> \/ CheckerAt("spins")
         \/ ~checkActive /\ (gate # "Pending" \/ current # c \/ overlapped)

-----------------------------------------------------------------------------
(* What the sources say and the code does not do.                         *)

\* README.md, 80: "an unavailable/invalid licensing service does not strand the
\* user's networking path": the check of a phone that stays decides the gate,
\* however the service answers.  A fetch that spins leaves it Pending.
ServiceDoesNotStrand ==
  \A c \in Connections :
    (checkActive /\ checkConnection = c)
      ~> (gate # "Pending" \/ current # c \/ overlapped)

=============================================================================
