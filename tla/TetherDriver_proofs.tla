------------------------ MODULE TetherDriver_proofs ------------------------
(***************************************************************************)
(* Safety of TetherDriver for any set of thread slots and any number of    *)
(* phones.  gWorkerActive is a lock that changes hands: whoever wins the   *)
(* compare-exchange holds it, passes it on to the thread it creates, and   *)
(* that thread gives it back at its end.  ClaimIsHeld says that it is held  *)
(* by exactly one actor while it is up; only four kinds of step touch it,  *)
(* and every other step leaves all holders where they are (Quiet).         *)
(***************************************************************************)
EXTENDS TetherDriver, TLAPS

USE DEF Fail

\* Every thread keeps the shared words and its locals in their types.
LEMMA TypeOKStep == TypeOK /\ [Next]_vars => TypeOK'
<1> SUFFICES ASSUME TypeOK, [Next]_vars PROVE TypeOK'
  OBVIOUS
<1> USE DEF TypeOK, Actors
<1>1. CASE AddDevice
  <2>1. attached' \in BOOLEAN
    BY <1>1 DEF AddDevice, Goto, At, globals, locals
  <2>2. ep0' \in BOOLEAN
    BY <1>1 DEF AddDevice, Goto, At, globals, locals
  <2>3. macKnown' \in BOOLEAN
    BY <1>1 DEF AddDevice, Goto, At, globals, locals
  <2>4. controlBusy' \in BOOLEAN
    BY <1>1 DEF AddDevice, Goto, At, globals, locals
  <2>5. carrierOn' \in BOOLEAN
    BY <1>1 DEF AddDevice, Goto, At, globals, locals
  <2>6. netStarted' \in BOOLEAN
    BY <1>1 DEF AddDevice, Goto, At, globals, locals
  <2>7. state' \in TetherState
    BY <1>1 DEF AddDevice, Goto, At, globals, locals, TetherState
  <2>8. controlOp' \in ControlOp
    BY <1>1 DEF AddDevice, Goto, At, globals, locals, ControlOp
  <2>9. phones' \in 0..MaxPhones
    BY <1>1, MaxPhonesAssumption DEF AddDevice, Goto, At, globals, locals
  <2>10. pc' \in [Actors -> UsbPc \cup StartPc \cup WorkerPc]
    BY <1>1 DEF AddDevice, Goto, At, globals, locals, UsbPc, StartPc,
               RoundPc, WorkerPc
  <2> QED
    BY <1>1, <2>1, <2>2, <2>3, <2>4, <2>5, <2>6, <2>7, <2>8, <2>9, <2>10
    DEF AddDevice, Goto, At, globals, locals
<1>2. CASE RemoveDevice
  <2>1. attached' \in BOOLEAN
    BY <1>2 DEF RemoveDevice, Goto, At, globals, locals
  <2>2. pc' \in [Actors -> UsbPc \cup StartPc \cup WorkerPc]
    BY <1>2 DEF RemoveDevice, Goto, At, globals, locals, UsbPc, StartPc,
               RoundPc, WorkerPc
  <2> QED
    BY <1>2, <2>1, <2>2
    DEF RemoveDevice, Goto, At, globals, locals
<1>3. CASE AddDeclined
  <2>1. attached' \in BOOLEAN
    BY <1>3 DEF AddDeclined, Goto, At, locals
  <2>2. state' \in TetherState
    BY <1>3 DEF AddDeclined, Goto, At, locals, TetherState
  <2>3. inFlight' \in Nat
    BY <1>3 DEF AddDeclined, Goto, At, locals
  <2>4. pc' \in [Actors -> UsbPc \cup StartPc \cup WorkerPc]
    BY <1>3 DEF AddDeclined, Goto, At, locals, UsbPc, StartPc, RoundPc,
               WorkerPc
  <2> QED
    BY <1>3, <2>1, <2>2, <2>3, <2>4
    DEF AddDeclined, Goto, At, locals
<1>4. CASE AddAccepted
  BY <1>4 DEF AddAccepted, Goto, At, context, globals, locals, RoundPc,
             StartPc, UsbPc, WorkerPc
<1>5. CASE AddNoControl
  BY <1>5 DEF AddNoControl, Goto, At, globals, locals, RoundPc, StartPc,
             TetherState, UsbPc, WorkerPc
<1>6. CASE AddControlOpen
  BY <1>6 DEF AddControlOpen, Goto, At, globals, locals, RoundPc, StartPc,
             UsbPc, WorkerPc
<1>7. CASE AddGeneration
  BY <1>7 DEF AddGeneration, Goto, At, context, locals, RoundPc, StartPc,
             UsbPc, WorkerPc
<1>8. CASE RemoveGeneration
  BY <1>8 DEF RemoveGeneration, Goto, At, context, locals, RoundPc, StartPc,
             UsbPc, WorkerPc
<1>9. CASE RemoveBridge
  <2>1. active' \in BOOLEAN
    BY <1>9 DEF RemoveBridge, Goto, At, context, locals
  <2>2. pc' \in [Actors -> UsbPc \cup StartPc \cup WorkerPc]
    BY <1>9 DEF RemoveBridge, Goto, At, context, locals, UsbPc, StartPc,
               RoundPc, WorkerPc
  <2> QED
    BY <1>9, <2>1, <2>2
    DEF RemoveBridge, Goto, At, context, locals
<1>10. CASE RemoveClose
  BY <1>10 DEF RemoveClose, Goto, At, context, locals, RoundPc, StartPc,
              UsbPc, WorkerPc
<1>11. CASE OpenRefused
  BY <1>11 DEF OpenRefused, Goto, At, globals, locals, RoundPc, StartPc,
              TetherState, UsbPc, WorkerPc
<1>12. CASE OpenPoll
  <2>1. ep0' \in BOOLEAN
    BY <1>12 DEF OpenPoll, ControlQueued, ControlRefused, CanQueueControl,
                Goto, At, locals, DeviceHeld
  <2>2. controlBusy' \in BOOLEAN
    BY <1>12 DEF OpenPoll, ControlQueued, ControlRefused, CanQueueControl,
                Goto, At, locals, DeviceHeld
  <2>3. controlOp' \in ControlOp
    BY <1>12 DEF OpenPoll, ControlQueued, ControlRefused, CanQueueControl,
                Goto, At, locals, DeviceHeld, ControlOp
  <2>4. inFlight' \in Nat
    BY <1>12 DEF OpenPoll, ControlQueued, ControlRefused, CanQueueControl,
                Goto, At, locals, DeviceHeld
  <2>5. pc' \in [Actors -> UsbPc \cup StartPc \cup WorkerPc]
    BY <1>12 DEF OpenPoll, ControlQueued, ControlRefused, CanQueueControl,
                Goto, At, locals, DeviceHeld, UsbPc, StartPc, RoundPc,
                WorkerPc
  <2> QED
    BY <1>12, <2>1, <2>2, <2>3, <2>4, <2>5
    DEF OpenPoll, ControlQueued, ControlRefused, CanQueueControl, Goto, At,
       locals, DeviceHeld
<1>13. CASE MacReceived
  <2>1. macKnown' \in BOOLEAN
    BY <1>13 DEF MacReceived, ControlDone, NextControl, locals, At
  <2>2. controlBusy' \in BOOLEAN
    BY <1>13 DEF MacReceived, ControlDone, NextControl, locals, At
  <2>3. state' \in TetherState
    BY <1>13 DEF MacReceived, ControlDone, NextControl, locals, At,
                TetherState
  <2>4. controlOp' \in ControlOp
    BY <1>13 DEF MacReceived, ControlDone, NextControl, locals, At, ControlOp
  <2>5. inFlight' \in Nat
    BY <1>13 DEF MacReceived, ControlDone, NextControl, locals, At
  <2> QED
    BY <1>13, <2>1, <2>2, <2>3, <2>4, <2>5
    DEF MacReceived, ControlDone, NextControl, locals, At
<1>14. CASE NcmEnabled
  <2>1. controlBusy' \in BOOLEAN
    BY <1>14 DEF NcmEnabled, ControlDone, NextControl, locals, At
  <2>2. state' \in TetherState
    BY <1>14 DEF NcmEnabled, ControlDone, NextControl, locals, At,
                TetherState
  <2>3. controlOp' \in ControlOp
    BY <1>14 DEF NcmEnabled, ControlDone, NextControl, locals, At, ControlOp
  <2>4. inFlight' \in Nat
    BY <1>14 DEF NcmEnabled, ControlDone, NextControl, locals, At
  <2> QED
    BY <1>14, <2>1, <2>2, <2>3, <2>4
    DEF NcmEnabled, ControlDone, NextControl, locals, At
<1>15. CASE NcmRejected
  <2>1. controlBusy' \in BOOLEAN
    BY <1>15 DEF NcmRejected, ControlDone, NextControl, locals, At
  <2>2. controlOp' \in ControlOp
    BY <1>15 DEF NcmRejected, ControlDone, NextControl, locals, At, ControlOp
  <2>3. inFlight' \in Nat
    BY <1>15 DEF NcmRejected, ControlDone, NextControl, locals, At
  <2> QED
    BY <1>15, <2>1, <2>2, <2>3
    DEF NcmRejected, ControlDone, NextControl, locals, At
<1>16. CASE ControlFailed
  <2>1. controlBusy' \in BOOLEAN
    BY <1>16 DEF ControlFailed, ControlDone, locals, At
  <2>2. state' \in TetherState
    BY <1>16 DEF ControlFailed, ControlDone, locals, At, TetherState
  <2>3. controlOp' \in ControlOp
    BY <1>16 DEF ControlFailed, ControlDone, locals, At, ControlOp
  <2>4. inFlight' \in Nat
    BY <1>16 DEF ControlFailed, ControlDone, locals, At
  <2> QED
    BY <1>16, <2>1, <2>2, <2>3, <2>4
    DEF ControlFailed, ControlDone, locals, At
<1>17. CASE ControlIgnored
  <2>1. controlBusy' \in BOOLEAN
    BY <1>17 DEF ControlIgnored, ControlDone, locals, At
  <2>2. inFlight' \in Nat
    BY <1>17 DEF ControlIgnored, ControlDone, locals, At
  <2> QED
    BY <1>17, <2>1, <2>2
    DEF ControlIgnored, ControlDone, locals, At
<1>18. CASE EndpointsOpened
  <2>1. controlBusy' \in BOOLEAN
    BY <1>18 DEF EndpointsOpened, ControlDone, Goto, locals, At
  <2>2. state' \in TetherState
    BY <1>18 DEF EndpointsOpened, ControlDone, Goto, locals, At, TetherState
  <2>3. controlOp' \in ControlOp
    BY <1>18 DEF EndpointsOpened, ControlDone, Goto, locals, At, ControlOp
  <2>4. inFlight' \in Nat
    BY <1>18 DEF EndpointsOpened, ControlDone, Goto, locals, At
  <2>5. pc' \in [Actors -> UsbPc \cup StartPc \cup WorkerPc]
    BY <1>18 DEF EndpointsOpened, ControlDone, Goto, locals, At, UsbPc,
                StartPc, RoundPc, WorkerPc
  <2> QED
    BY <1>18, <2>1, <2>2, <2>3, <2>4, <2>5
    DEF EndpointsOpened, ControlDone, Goto, locals, At
<1>19. CASE CarrierReported
  <2>1. controlBusy' \in BOOLEAN
    BY <1>19 DEF CarrierReported, ControlDone, locals, At
  <2>2. carrierOn' \in BOOLEAN
    BY <1>19 DEF CarrierReported, ControlDone, locals, At
  <2>3. controlOp' \in ControlOp
    BY <1>19 DEF CarrierReported, ControlDone, locals, At, ControlOp
  <2>4. inFlight' \in Nat
    BY <1>19 DEF CarrierReported, ControlDone, locals, At
  <2> QED
    BY <1>19, <2>1, <2>2, <2>3, <2>4
    DEF CarrierReported, ControlDone, locals, At
<1>20. CASE DataPathFails
  BY <1>20 DEF DataPathFails, At, globals, locals, TetherState
<1>21. CASE GateChanges
  BY <1>21 DEF GateChanges, context, globals, locals
<1>22. ASSUME NEW a \in Actors, StartClaim(a) PROVE TypeOK'
  BY <1>22 DEF StartClaim, Goto, At, Returned, context, locals, RoundPc,
              StartPc, UsbPc, WorkerPc
<1>23. ASSUME NEW a \in Actors, StartReadGeneration(a) PROVE TypeOK'
  BY <1>23 DEF StartReadGeneration, Goto, At, context, globals, RoundPc,
              StartPc, UsbPc, WorkerPc
<1>24. ASSUME NEW a \in Actors, StartRefused(a) PROVE TypeOK'
  BY <1>24 DEF StartRefused, Goto, At, context, globals, RoundPc, StartPc,
              UsbPc, WorkerPc
<1>25. ASSUME NEW a \in Actors, StartUnclaim(a) PROVE TypeOK'
  <2>1. workerActive' \in BOOLEAN
    BY <1>25 DEF StartUnclaim, Goto, At, context, locals
  <2>2. pc' \in [Actors -> UsbPc \cup StartPc \cup WorkerPc]
    BY <1>25 DEF StartUnclaim, Goto, At, context, locals, UsbPc, StartPc,
                RoundPc, WorkerPc
  <2> QED
    BY <1>25, <2>1, <2>2
    DEF StartUnclaim, Goto, At, context, locals
<1>26. ASSUME NEW a \in Actors, StartFailed(a) PROVE TypeOK'
  BY <1>26 DEF StartFailed, Goto, At, Returned, globals, locals, RoundPc,
              StartPc, TetherState, UsbPc, WorkerPc
<1>27. ASSUME NEW a \in Actors, NEW t \in Threads, StartCreated(a, t)
      PROVE  TypeOK'
  BY <1>27 DEF StartCreated, At, Returned, context, globals, RoundPc,
              StartPc, UsbPc, WorkerPc
<1>28. ASSUME NEW t \in Threads, WorkerCheck(t) PROVE TypeOK'
  BY <1>28 DEF WorkerCheck, Moves, Goto, At, context, globals, locals,
              RoundPc, StartPc, UsbPc, WorkerPc
<1>29. ASSUME NEW t \in Threads, WorkerCheckAttached(t) PROVE TypeOK'
  BY <1>29 DEF WorkerCheckAttached, Moves, Goto, At, context, globals,
              locals, RoundPc, StartPc, UsbPc, WorkerPc
<1>30. ASSUME NEW t \in Threads, WorkerPair(t) PROVE TypeOK'
  BY <1>30 DEF WorkerPair, Moves, Goto, At, context, globals, locals,
              RoundPc, StartPc, UsbPc, WorkerPc
<1>31. ASSUME NEW t \in Threads, WorkerSetPair(t) PROVE TypeOK'
  BY <1>31 DEF WorkerSetPair, Goto, At, globals, locals, RoundPc, StartPc,
              TetherState, UsbPc, WorkerPc
<1>32. ASSUME NEW t \in Threads, WorkerGetMac(t) PROVE TypeOK'
  BY <1>32 DEF WorkerGetMac, CanQueueControl, Goto, At, globals, locals,
              RoundPc, StartPc, TetherState, UsbPc, WorkerPc
<1>33. ASSUME NEW t \in Threads, WorkerSubmitGetMac(t) PROVE TypeOK'
  <2>1. ep0' \in BOOLEAN
    BY <1>33 DEF WorkerSubmitGetMac, ControlQueued, ControlRefused, Goto, At,
                locals, DeviceHeld
  <2>2. controlBusy' \in BOOLEAN
    BY <1>33 DEF WorkerSubmitGetMac, ControlQueued, ControlRefused, Goto, At,
                locals, DeviceHeld
  <2>3. state' \in TetherState
    BY <1>33 DEF WorkerSubmitGetMac, ControlQueued, ControlRefused, Goto, At,
                locals, DeviceHeld, TetherState
  <2>4. controlOp' \in ControlOp
    BY <1>33 DEF WorkerSubmitGetMac, ControlQueued, ControlRefused, Goto, At,
                locals, DeviceHeld, ControlOp
  <2>5. inFlight' \in Nat
    BY <1>33 DEF WorkerSubmitGetMac, ControlQueued, ControlRefused, Goto, At,
                locals, DeviceHeld
  <2>6. pc' \in [Actors -> UsbPc \cup StartPc \cup WorkerPc]
    BY <1>33 DEF WorkerSubmitGetMac, ControlQueued, ControlRefused, Goto, At,
                locals, DeviceHeld, UsbPc, StartPc, RoundPc, WorkerPc
  <2> QED
    BY <1>33, <2>1, <2>2, <2>3, <2>4, <2>5, <2>6
    DEF WorkerSubmitGetMac, ControlQueued, ControlRefused, Goto, At, locals,
       DeviceHeld
<1>34. ASSUME NEW t \in Threads, WorkerReady(t) PROVE TypeOK'
  BY <1>34 DEF WorkerReady, Moves, Goto, At, context, globals, locals,
              RoundPc, StartPc, UsbPc, WorkerPc
<1>35. ASSUME NEW t \in Threads, WorkerPoll(t) PROVE TypeOK'
  BY <1>35 DEF WorkerPoll, CanQueueControl, Moves, Goto, At, context,
              globals, locals, RoundPc, StartPc, UsbPc, WorkerPc
<1>36. ASSUME NEW t \in Threads, WorkerSubmitPoll(t) PROVE TypeOK'
  <2>1. ep0' \in BOOLEAN
    BY <1>36 DEF WorkerSubmitPoll, ControlQueued, ControlRefused, Goto, At,
                locals, DeviceHeld
  <2>2. controlBusy' \in BOOLEAN
    BY <1>36 DEF WorkerSubmitPoll, ControlQueued, ControlRefused, Goto, At,
                locals, DeviceHeld
  <2>3. controlOp' \in ControlOp
    BY <1>36 DEF WorkerSubmitPoll, ControlQueued, ControlRefused, Goto, At,
                locals, DeviceHeld, ControlOp
  <2>4. inFlight' \in Nat
    BY <1>36 DEF WorkerSubmitPoll, ControlQueued, ControlRefused, Goto, At,
                locals, DeviceHeld
  <2>5. pc' \in [Actors -> UsbPc \cup StartPc \cup WorkerPc]
    BY <1>36 DEF WorkerSubmitPoll, ControlQueued, ControlRefused, Goto, At,
                locals, DeviceHeld, UsbPc, StartPc, RoundPc, WorkerPc
  <2> QED
    BY <1>36, <2>1, <2>2, <2>3, <2>4, <2>5
    DEF WorkerSubmitPoll, ControlQueued, ControlRefused, Goto, At, locals,
       DeviceHeld
<1>37. ASSUME NEW t \in Threads, WorkerCarrierOff(t) PROVE TypeOK'
  BY <1>37 DEF WorkerCarrierOff, Goto, At, locals, RoundPc, StartPc, UsbPc,
              WorkerPc
<1>38. ASSUME NEW t \in Threads, WorkerCarrierUp(t) PROVE TypeOK'
  <2>1. netStarted' \in BOOLEAN
    BY <1>38 DEF WorkerCarrierUp, Goto, At, locals
  <2>2. configured' \in BOOLEAN
    BY <1>38 DEF WorkerCarrierUp, Goto, At, locals
  <2>3. pc' \in [Actors -> UsbPc \cup StartPc \cup WorkerPc]
    BY <1>38 DEF WorkerCarrierUp, Goto, At, locals, UsbPc, StartPc, RoundPc,
                WorkerPc
  <2> QED
    BY <1>38, <2>1, <2>2, <2>3
    DEF WorkerCarrierUp, Goto, At, locals
<1>39. ASSUME NEW t \in Threads, WorkerFrames(t) PROVE TypeOK'
  BY <1>39 DEF WorkerFrames, Goto, At, context, locals, RoundPc, StartPc,
              UsbPc, WorkerPc
<1>40. ASSUME NEW t \in Threads, WorkerEvalLink(t) PROVE TypeOK'
  BY <1>40 DEF WorkerEvalLink, Goto, At, context, globals, RoundPc, StartPc,
              UsbPc, WorkerPc
<1>41. ASSUME NEW t \in Threads, WorkerEvalGate(t) PROVE TypeOK'
  BY <1>41 DEF WorkerEvalGate, Goto, At, context, globals, RoundPc, StartPc,
              UsbPc, WorkerPc
<1>42. ASSUME NEW t \in Threads, WorkerApply(t) PROVE TypeOK'
  <2>1. active' \in BOOLEAN
    BY <1>42 DEF WorkerApply, Goto, At, context
  <2>2. enable' \in [Threads -> BOOLEAN]
    BY <1>42 DEF WorkerApply, Goto, At, context
  <2>3. pc' \in [Actors -> UsbPc \cup StartPc \cup WorkerPc]
    BY <1>42 DEF WorkerApply, Goto, At, context, UsbPc, StartPc, RoundPc,
                WorkerPc
  <2> QED
    BY <1>42, <2>1, <2>2, <2>3
    DEF WorkerApply, Goto, At, context
<1>43. ASSUME NEW t \in Threads, WorkerPump(t) PROVE TypeOK'
  BY <1>43 DEF WorkerPump, Goto, At, globals, locals, RoundPc, StartPc,
              TetherState, UsbPc, WorkerPc
<1>44. ASSUME NEW t \in Threads, WorkerRestart(t) PROVE TypeOK'
  <2>1. netStarted' \in BOOLEAN
    BY <1>44 DEF WorkerRestart, Goto, At, locals
  <2>2. configured' \in BOOLEAN
    BY <1>44 DEF WorkerRestart, Goto, At, locals
  <2>3. pc' \in [Actors -> UsbPc \cup StartPc \cup WorkerPc]
    BY <1>44 DEF WorkerRestart, Goto, At, locals, UsbPc, StartPc, RoundPc,
                WorkerPc
  <2> QED
    BY <1>44, <2>1, <2>2, <2>3
    DEF WorkerRestart, Goto, At, locals
<1>45. ASSUME NEW t \in Threads, WorkerExit(t) PROVE TypeOK'
  <2>1. workerActive' \in BOOLEAN
    BY <1>45 DEF WorkerExit, Goto, At, context
  <2>2. gen' \in [Actors -> Nat]
    BY <1>45 DEF WorkerExit, Goto, At, context
  <2>3. pc' \in [Actors -> UsbPc \cup StartPc \cup WorkerPc]
    BY <1>45 DEF WorkerExit, Goto, At, context, UsbPc, StartPc, RoundPc,
                WorkerPc
  <2> QED
    BY <1>45, <2>1, <2>2, <2>3
    DEF WorkerExit, Goto, At, context
<1>46. ASSUME NEW t \in Threads, WorkerTail(t) PROVE TypeOK'
  BY <1>46 DEF WorkerTail, Moves, Goto, At, context, globals, locals,
              RoundPc, StartPc, UsbPc, WorkerPc
<1>47. CASE UNCHANGED vars
  BY <1>47 DEF vars, context, globals, locals
<1> QED
  BY <1>1, <1>2, <1>3, <1>4, <1>5, <1>6, <1>7, <1>8, <1>9, <1>10, <1>11,
    <1>12, <1>13, <1>14, <1>15, <1>16, <1>17, <1>18, <1>19, <1>20, <1>21,
    <1>22, <1>23, <1>24, <1>25, <1>26, <1>27, <1>28, <1>29, <1>30, <1>31,
    <1>32, <1>33, <1>34, <1>35, <1>36, <1>37, <1>38, <1>39, <1>40, <1>41,
    <1>42, <1>43, <1>44, <1>45, <1>46, <1>47
  DEF Next, UsbCall, Completion, Worker, StartWorker

-----------------------------------------------------------------------------
(* The claim on gWorkerActive.                                             *)

\* A step that moves nobody into or out of the claim.
Quiet ==
  /\ workerActive' = workerActive
  /\ \A a \in Actors : Claimed(a)' <=> Claimed(a)

\* The holder of a claim is the actor whose program counter says so: a step of
\* one actor that stays on its side of the claim is quiet.
LEMMA QuietMove ==
  ASSUME TypeOK, workerActive' = workerActive,
         NEW a \in Actors, NEW p, Goto(a, p),
         Claimed(a) <=> p \in {"readGeneration", "create", "unclaim", "exit"}
                                \cup RoundPc
  PROVE  Quiet
BY DEF Quiet, TypeOK, Goto, Claimed

\* All steps but the compare-exchange, the creation of a thread and the two
\* places that clear gWorkerActive are quiet.
LEMMA QuietSteps ==
  ASSUME TypeOK, [Next]_vars
  PROVE  \/ Quiet
         \/ \E a \in Actors : StartClaim(a) \/ StartUnclaim(a)
         \/ \E a \in Actors, t \in Threads : StartCreated(a, t)
         \/ \E t \in Threads : WorkerExit(t)
<1> USE DEF Claimed, RoundPc, At
<1>1. CASE UNCHANGED vars
  BY <1>1 DEF vars, Quiet, globals
<1>2. CASE AddDevice
  BY <1>2, QuietMove DEF Actors, AddDevice, globals, locals
<1>3. CASE RemoveDevice
  BY <1>3, QuietMove DEF Actors, RemoveDevice, globals, locals
<1>4. CASE AddDeclined
  BY <1>4, QuietMove DEF Actors, AddDeclined, locals
<1>5. CASE AddAccepted
  BY <1>5, QuietMove DEF Actors, AddAccepted, context, globals, locals
<1>6. CASE AddNoControl
  BY <1>6, QuietMove DEF Actors, AddNoControl, globals, locals
<1>7. CASE AddControlOpen
  BY <1>7, QuietMove DEF Actors, AddControlOpen, globals, locals
<1>8. CASE AddGeneration
  BY <1>8, QuietMove DEF Actors, AddGeneration, context, locals
<1>9. CASE RemoveGeneration
  BY <1>9, QuietMove DEF Actors, RemoveGeneration, context, locals
<1>10. CASE RemoveBridge
  BY <1>10, QuietMove DEF Actors, RemoveBridge, context, locals
<1>11. CASE RemoveClose
  BY <1>11, QuietMove DEF Actors, RemoveClose, context, locals
<1>12. CASE OpenRefused
  BY <1>12, QuietMove DEF Actors, OpenRefused, globals, locals
<1>13. CASE OpenPoll
  BY <1>13, QuietMove DEF Actors, OpenPoll, ControlQueued, ControlRefused,
                         CanQueueControl, locals, DeviceHeld
<1>14. CASE MacReceived
  BY <1>14 DEF Quiet, MacReceived, ControlDone, NextControl, locals
<1>15. CASE NcmEnabled
  BY <1>15 DEF Quiet, NcmEnabled, ControlDone, NextControl, locals
<1>16. CASE NcmRejected
  BY <1>16 DEF Quiet, NcmRejected, ControlDone, NextControl, locals
<1>17. CASE ControlFailed
  BY <1>17 DEF Quiet, ControlFailed, ControlDone, locals
<1>18. CASE ControlIgnored
  BY <1>18 DEF Quiet, ControlIgnored, ControlDone, locals
<1>19. CASE EndpointsOpened
  BY <1>19, QuietMove DEF Actors, EndpointsOpened, ControlDone, locals
<1>20. CASE CarrierReported
  BY <1>20 DEF Quiet, CarrierReported, ControlDone, locals
<1>21. CASE DataPathFails
  BY <1>21 DEF Quiet, DataPathFails, globals, locals
<1>22. CASE GateChanges
  BY <1>22 DEF Quiet, GateChanges, context, globals, locals
<1>23. ASSUME NEW a \in Actors, StartReadGeneration(a) PROVE Quiet
  BY <1>23, QuietMove DEF StartReadGeneration, context, globals
<1>24. ASSUME NEW a \in Actors, StartRefused(a) PROVE Quiet
  BY <1>24, QuietMove DEF StartRefused, context, globals
<1>25. ASSUME NEW a \in Actors, StartFailed(a) PROVE Quiet
  BY <1>25, QuietMove DEF StartFailed, Returned, globals, locals
<1>26. ASSUME NEW t \in Threads, WorkerCheck(t) PROVE Quiet
  BY <1>26, QuietMove DEF Actors, WorkerCheck, Moves, context, globals,
                         locals
<1>27. ASSUME NEW t \in Threads, WorkerCheckAttached(t) PROVE Quiet
  BY <1>27, QuietMove DEF Actors, WorkerCheckAttached, Moves, context,
                         globals, locals
<1>28. ASSUME NEW t \in Threads, WorkerPair(t) PROVE Quiet
  BY <1>28, QuietMove DEF Actors, WorkerPair, Moves, context, globals, locals
<1>29. ASSUME NEW t \in Threads, WorkerSetPair(t) PROVE Quiet
  BY <1>29, QuietMove DEF Actors, WorkerSetPair, globals, locals
<1>30. ASSUME NEW t \in Threads, WorkerGetMac(t) PROVE Quiet
  BY <1>30, QuietMove DEF Actors, WorkerGetMac, CanQueueControl, globals,
                         locals
<1>31. ASSUME NEW t \in Threads, WorkerSubmitGetMac(t) PROVE Quiet
  BY <1>31, QuietMove DEF Actors, WorkerSubmitGetMac, ControlQueued,
                         ControlRefused, locals, DeviceHeld
<1>32. ASSUME NEW t \in Threads, WorkerReady(t) PROVE Quiet
  BY <1>32, QuietMove DEF Actors, WorkerReady, Moves, context, globals,
                         locals
<1>33. ASSUME NEW t \in Threads, WorkerPoll(t) PROVE Quiet
  BY <1>33, QuietMove DEF Actors, WorkerPoll, CanQueueControl, Moves,
                         context, globals, locals
<1>34. ASSUME NEW t \in Threads, WorkerSubmitPoll(t) PROVE Quiet
  BY <1>34, QuietMove DEF Actors, WorkerSubmitPoll, ControlQueued,
                         ControlRefused, locals, DeviceHeld
<1>35. ASSUME NEW t \in Threads, WorkerCarrierOff(t) PROVE Quiet
  BY <1>35, QuietMove DEF Actors, WorkerCarrierOff, locals
<1>36. ASSUME NEW t \in Threads, WorkerCarrierUp(t) PROVE Quiet
  BY <1>36, QuietMove DEF Actors, WorkerCarrierUp, locals
<1>37. ASSUME NEW t \in Threads, WorkerFrames(t) PROVE Quiet
  BY <1>37, QuietMove DEF Actors, WorkerFrames, context, locals
<1>38. ASSUME NEW t \in Threads, WorkerEvalLink(t) PROVE Quiet
  BY <1>38, QuietMove DEF Actors, WorkerEvalLink, context, globals
<1>39. ASSUME NEW t \in Threads, WorkerEvalGate(t) PROVE Quiet
  BY <1>39, QuietMove DEF Actors, WorkerEvalGate, context, globals
<1>40. ASSUME NEW t \in Threads, WorkerApply(t) PROVE Quiet
  BY <1>40, QuietMove DEF Actors, WorkerApply, context
<1>41. ASSUME NEW t \in Threads, WorkerPump(t) PROVE Quiet
  BY <1>41, QuietMove DEF Actors, WorkerPump, globals, locals
<1>42. ASSUME NEW t \in Threads, WorkerRestart(t) PROVE Quiet
  BY <1>42, QuietMove DEF Actors, WorkerRestart, locals
<1>43. ASSUME NEW t \in Threads, WorkerTail(t) PROVE Quiet
  BY <1>43, QuietMove DEF Actors, WorkerTail, Moves, context, globals, locals
<1> QED
  BY <1>1, <1>2, <1>3, <1>4, <1>5, <1>6, <1>7, <1>8, <1>9, <1>10, <1>11,
    <1>12, <1>13, <1>14, <1>15, <1>16, <1>17, <1>18, <1>19, <1>20, <1>21,
    <1>22, <1>23, <1>24, <1>25, <1>26, <1>27, <1>28, <1>29, <1>30, <1>31,
    <1>32, <1>33, <1>34, <1>35, <1>36, <1>37, <1>38, <1>39, <1>40, <1>41,
    <1>42, <1>43
  DEF Next, UsbCall, Completion, Worker, StartWorker, Actors

\* The claim is taken only while it is free, passed on whole, and given back.
LEMMA HandoffStep == TypeOK /\ ClaimIsHeld /\ [Next]_vars => ClaimIsHeld'
<1> SUFFICES ASSUME TypeOK, ClaimIsHeld, [Next]_vars PROVE ClaimIsHeld'
  OBVIOUS
<1> USE DEF ClaimIsHeld
<1>1. CASE Quiet
  BY <1>1 DEF Quiet
<1>2. ASSUME NEW a \in Actors, StartClaim(a) PROVE ClaimIsHeld'
  BY <1>2 DEF StartClaim, Goto, At, Returned, Claimed, RoundPc, TypeOK
<1>3. ASSUME NEW a \in Actors, StartUnclaim(a) PROVE ClaimIsHeld'
  BY <1>3 DEF StartUnclaim, Goto, At, Claimed, RoundPc, TypeOK
<1>4. ASSUME NEW a \in Actors, NEW t \in Threads, StartCreated(a, t)
      PROVE  ClaimIsHeld'
  BY <1>4 DEF StartCreated, At, Returned, Claimed, RoundPc, TypeOK, Actors,
              globals
<1>5. ASSUME NEW t \in Threads, WorkerExit(t) PROVE ClaimIsHeld'
  BY <1>5 DEF WorkerExit, Goto, At, Claimed, RoundPc, TypeOK, Actors
<1> QED
  BY <1>1, <1>2, <1>3, <1>4, <1>5, QuietSteps

\* Before the first phone no thread holds the claim.
LEMMA InitInv == Init => TypeOK /\ ClaimIsHeld
<1> SUFFICES ASSUME Init PROVE TypeOK /\ ClaimIsHeld
  OBVIOUS
<1>1. pc \in [Actors -> UsbPc \cup StartPc \cup WorkerPc]
  BY DEF Init, Returned, UsbPc, WorkerPc
<1>2. /\ gen \in [Actors -> Nat]
      /\ enable \in [Threads -> BOOLEAN]
      /\ phones \in 0..MaxPhones
  BY MaxPhonesAssumption DEF Init
<1>3. TypeOK
  BY <1>1, <1>2 DEF Init, TypeOK, TetherState, ControlOp
<1>4. ClaimIsHeld
  BY DEF Init, ClaimIsHeld, Claimed, RoundPc, Returned
<1> QED
  BY <1>3, <1>4

-----------------------------------------------------------------------------
(* What follows for every behaviour.                                       *)

\* gWorkerActive is up exactly while one actor holds the claim, throughout the
\* session and across every handoff from one Worker to the next.
THEOREM Handoff == Spec => [](TypeOK /\ ClaimIsHeld)
<1>1. TypeOK /\ ClaimIsHeld /\ [Next]_vars => (TypeOK /\ ClaimIsHeld)'
  BY TypeOKStep, HandoffStep
<1> QED
  BY InitInv, <1>1, PTL DEF Spec

\* Type correctness of the tether driver.
THEOREM TetherTypeCorrect == Spec => []TypeOK
BY Handoff, PTL

\* Never two Workers in the loop, over any number of phones and threads.
THEOREM SingleWorker == Spec => []OneWorker
<1>1. ClaimIsHeld => OneWorker
  BY DEF ClaimIsHeld, OneWorker, InRound, Claimed, Actors
<1> QED
  BY <1>1, Handoff, PTL

\* gWorkerActive is never left up with nobody to clear it.
THEOREM ClaimNeverLeaks == Spec => []ClaimIsHeld
BY Handoff, PTL

-----------------------------------------------------------------------------
(* Setup.  SetupInOrder is not inductive: a request outlives the state that  *)
(* queued it, and a Worker acts on a state it read some steps before.        *)

Starting(t) == pc[t] \in {"setPair", "getMac", "submitGetMac"}
Polling(t)  == pc[t] \in {"poll", "submitPoll"}
Setup       == state \in {"GetMac", "EnableNcm", "SetInterface"}
SetupOp     == controlOp \in {"GetMac", "EnableNcm", "SetInterface"}

\* What the USB stack holds belongs to the phone that is held.
FlightInv == inFlight > 0 => ep0 /\ DeviceHeld

\* While a setup request is named nothing else runs beside it.
OpInv ==
  SetupOp => /\ inFlight <= 1 /\ controlBusy /\ state # "Ready"
             /\ ~At(Usb, "openPoll")
             /\ \A t \in Threads : ~Starting(t) /\ ~Polling(t)

MacInv ==
  /\ controlOp \in {"EnableNcm", "SetInterface"} => macKnown
  /\ state \in {"EnableNcm", "SetInterface", "Ready"} => macKnown /\ ep0

\* Until the phone is ready a request in flight keeps controlBusy up.
StateInv ==
  Setup \/ state = "WaitingPair" =>
    /\ inFlight <= 1 /\ (inFlight = 1 => controlBusy)
    /\ ~At(Usb, "openPoll")

\* What a Worker read of the state still bounds what it may find.
WorkerInv ==
  \A t \in Threads :
    /\ Starting(t) => /\ inFlight = 0 /\ ~At(Usb, "openPoll")
                      /\ state \notin {"EnableNcm", "SetInterface", "Ready"}
    /\ Polling(t)  => ~Setup
    /\ At(t, "submitPoll") /\ state = "WaitingPair" => inFlight = 0

SetupInv == FlightInv /\ OpInv /\ MacInv /\ StateInv /\ WorkerInv

\* Before the first phone there is no request and no Worker.
LEMMA InitSetup == Init => SetupInv
BY ActorsAssumption
DEF Init, SetupInv, FlightInv, OpInv, MacInv, StateInv, WorkerInv, Starting,
    Polling, Setup, SetupOp, At, Returned, Actors

\* A step that leaves the request alone, advances no state and brings nobody
\* to a place where one is queued.
Still ==
  /\ UNCHANGED <<macKnown, controlBusy, controlOp, inFlight>>
  /\ ep0 => ep0'
  /\ DeviceHeld => DeviceHeld'
  /\ state' \in {state, "Failed"}
  /\ At(Usb, "openPoll")' => At(Usb, "openPoll")
  /\ \A t \in Threads : /\ Starting(t)' => Starting(t)
                        /\ Polling(t)' => Polling(t)
                        /\ At(t, "submitPoll")' => At(t, "submitPoll")

\* Such a step keeps the invariant.
LEMMA StillKeeps == TypeOK /\ SetupInv /\ Still => SetupInv'
<1> SUFFICES ASSUME TypeOK, SetupInv, Still PROVE SetupInv'
  OBVIOUS
<1> USE DEF Still, SetupInv
<1>1. FlightInv'
  BY DEF FlightInv
<1>2. OpInv'
  BY DEF OpInv, SetupOp
<1>3. MacInv'
  BY DEF MacInv
<1>4. StateInv'
  BY DEF StateInv, Setup
<1>5. WorkerInv'
  BY DEF WorkerInv, Setup
<1> QED
  BY <1>1, <1>2, <1>3, <1>4, <1>5

\* A step of one actor that touches no setup word and enters no such place.
Leaves(a, p) ==
  /\ UNCHANGED <<attached, macKnown, controlBusy, controlOp, inFlight>>
  /\ ep0 => ep0'
  /\ state' \in {state, "Failed"}
  /\ Goto(a, p)

\* The USB thread keeps the device while it moves through RemoveDevice.
LEMMA UsbStill ==
  ASSUME TypeOK, NEW p, Leaves(Usb, p), p # "openPoll",
         pc[Usb] \in {"retire", "detachBridge"}
           => p \in {"detachBridge", "close"},
         pc[Usb] # "close"
  PROVE  Still
BY ActorsAssumption
DEF Still, Leaves, Goto, TypeOK, Actors, Starting, Polling, At, DeviceHeld

\* A Worker that stays away from, or leaves, the places that queue a request.
LEMMA ThreadStill ==
  ASSUME TypeOK, NEW t \in Threads, NEW p, Leaves(t, p),
         p \in {"setPair", "getMac", "submitGetMac"} => Starting(t),
         p \notin {"poll", "submitPoll"}
  PROVE  Still
BY ActorsAssumption
DEF Still, Leaves, Goto, TypeOK, Actors, Starting, Polling, At, DeviceHeld

-----------------------------------------------------------------------------
\* The steps of AddDevice and RemoveDevice that queue nothing.
LEMMA UsbStillSteps ==
  ASSUME TypeOK,
         \/ AddAccepted \/ AddNoControl \/ AddControlOpen \/ AddGeneration
         \/ RemoveGeneration \/ RemoveBridge \/ OpenRefused
  PROVE  Still
<1> USE DEF Leaves, At
<1>1. CASE AddAccepted
  BY <1>1, UsbStill DEF AddAccepted, context, globals
<1>2. CASE AddNoControl
  BY <1>2, UsbStill DEF AddNoControl, Fail, globals
<1>3. CASE AddControlOpen
  BY <1>3, UsbStill DEF AddControlOpen, globals
<1>4. CASE AddGeneration
  BY <1>4, UsbStill DEF AddGeneration, context
<1>5. CASE RemoveGeneration
  BY <1>5, UsbStill DEF RemoveGeneration, context
<1>6. CASE RemoveBridge
  BY <1>6, UsbStill DEF RemoveBridge, context
<1>7. CASE OpenRefused
  BY <1>7, UsbStill DEF OpenRefused, Fail, globals
<1> QED
  BY <1>1, <1>2, <1>3, <1>4, <1>5, <1>6, <1>7

\* StartWorker queues nothing, whoever calls it.
LEMMA StartStill ==
  ASSUME TypeOK, NEW a \in Actors, StartWorker(a)
  PROVE  Still
<1> USE DEF Leaves, At
<1>1. SUFFICES ASSUME StartClaim(a) \/ StartReadGeneration(a)
                      \/ StartRefused(a) \/ StartUnclaim(a) \/ StartFailed(a)
               PROVE  Still
  <2>1. ASSUME NEW t \in Threads, StartCreated(a, t) PROVE Still
    BY <2>1, ActorsAssumption
    DEF StartCreated, Returned, Still, Starting, Polling, DeviceHeld, TypeOK,
        Actors, context, globals
  <2> QED
    BY <2>1 DEF StartWorker
<1>2. \E p \in {"idle", "none", "readGeneration", "create", "unclaim",
                 "failed"} : Leaves(a, p)
  <2>1. CASE StartClaim(a)
    BY <2>1 DEF StartClaim, Returned, context
  <2>2. CASE StartReadGeneration(a)
    BY <2>2 DEF StartReadGeneration, context, globals
  <2>3. CASE StartRefused(a)
    BY <2>3 DEF StartRefused, context, globals
  <2>4. CASE StartUnclaim(a)
    BY <2>4 DEF StartUnclaim, context
  <2>5. CASE StartFailed(a)
    BY <2>5 DEF StartFailed, Returned, Fail, globals
  <2> QED
    BY <1>1, <2>1, <2>2, <2>3, <2>4, <2>5
<1>3. At(a, "claim") \/ At(a, "readGeneration") \/ At(a, "create")
      \/ At(a, "unclaim") \/ At(a, "failed")
  BY <1>1
  DEF StartClaim, StartReadGeneration, StartRefused, StartUnclaim, StartFailed
<1>4. CASE a = Usb
  BY <1>2, <1>3, <1>4, UsbStill
<1>5. CASE a \in Threads
  BY <1>2, <1>5, ThreadStill
<1> QED
  BY <1>4, <1>5 DEF Actors

\* The rest of a Worker's round only moves on from request to request.
LEMMA WorkerStill ==
  ASSUME TypeOK, NEW t \in Threads,
         \/ WorkerCheck(t) \/ WorkerCheckAttached(t) \/ WorkerGetMac(t)
         \/ WorkerCarrierOff(t) \/ WorkerCarrierUp(t) \/ WorkerFrames(t)
         \/ WorkerEvalLink(t) \/ WorkerEvalGate(t) \/ WorkerApply(t)
         \/ WorkerPump(t) \/ WorkerRestart(t) \/ WorkerExit(t) \/ WorkerTail(t)
  PROVE  Still
<1> USE DEF Leaves, At, Starting
<1>1. CASE WorkerCheck(t)
  BY <1>1, ThreadStill DEF WorkerCheck, Moves, context, globals
<1>2. CASE WorkerCheckAttached(t)
  BY <1>2, ThreadStill DEF WorkerCheckAttached, Moves, context, globals
<1>3. CASE WorkerGetMac(t)
  BY <1>3, ThreadStill DEF WorkerGetMac, globals
<1>4. CASE WorkerCarrierOff(t)
  BY <1>4, ThreadStill DEF WorkerCarrierOff
<1>5. CASE WorkerCarrierUp(t)
  BY <1>5, ThreadStill DEF WorkerCarrierUp
<1>6. CASE WorkerFrames(t)
  BY <1>6, ThreadStill DEF WorkerFrames, context
<1>7. CASE WorkerEvalLink(t)
  BY <1>7, ThreadStill DEF WorkerEvalLink, context, globals
<1>8. CASE WorkerEvalGate(t)
  BY <1>8, ThreadStill DEF WorkerEvalGate, context, globals
<1>9. CASE WorkerApply(t)
  BY <1>9, ThreadStill DEF WorkerApply, context
<1>10. CASE WorkerPump(t)
  BY <1>10, ThreadStill DEF WorkerPump, Fail, globals
<1>11. CASE WorkerRestart(t)
  BY <1>11, ThreadStill DEF WorkerRestart
<1>12. CASE WorkerExit(t)
  BY <1>12, ThreadStill DEF WorkerExit, context
<1>13. CASE WorkerTail(t)
  BY <1>13, ThreadStill DEF WorkerTail, Moves, context, globals
<1> QED
  BY <1>1, <1>2, <1>3, <1>4, <1>5, <1>6, <1>7, <1>8, <1>9, <1>10, <1>11, <1>12,
     <1>13

\* A phone is added only after everything of the last one came back.
LEMMA AddSetup ==
  ASSUME TypeOK, SetupInv, AddDevice
  PROVE  SetupInv'
<1> USE ActorsAssumption
    DEF SetupInv, AddDevice, globals,
        Starting, Polling, Setup, SetupOp, At, Goto, TypeOK, Actors, DeviceHeld
<1>1. FlightInv'
  BY DEF FlightInv, OpInv, MacInv, StateInv, WorkerInv
<1>2. OpInv'
  BY DEF FlightInv, OpInv, MacInv, StateInv, WorkerInv
<1>3. MacInv'
  BY DEF FlightInv, OpInv, MacInv, StateInv, WorkerInv
<1>4. StateInv'
  BY DEF FlightInv, OpInv, MacInv, StateInv, WorkerInv
<1>5. WorkerInv'
  BY DEF FlightInv, OpInv, MacInv, StateInv, WorkerInv
<1> QED
  BY <1>1, <1>2, <1>3, <1>4, <1>5

\* A declined phone leaves nothing in flight.
LEMMA DeclineSetup ==
  ASSUME TypeOK, SetupInv, AddDeclined
  PROVE  SetupInv'
<1> USE ActorsAssumption
    DEF SetupInv, AddDeclined, Fail,
        Starting, Polling, Setup, SetupOp, At, Goto, TypeOK, Actors, DeviceHeld
<1>1. FlightInv'
  BY DEF FlightInv, OpInv, MacInv, StateInv, WorkerInv
<1>2. OpInv'
  BY DEF FlightInv, OpInv, MacInv, StateInv, WorkerInv
<1>3. MacInv'
  BY DEF FlightInv, OpInv, MacInv, StateInv, WorkerInv
<1>4. StateInv'
  BY DEF FlightInv, OpInv, MacInv, StateInv, WorkerInv
<1>5. WorkerInv'
  BY DEF FlightInv, OpInv, MacInv, StateInv, WorkerInv
<1> QED
  BY <1>1, <1>2, <1>3, <1>4, <1>5

\* A phone that leaves stays held until its endpoints are closed,
LEMMA RemoveSetup ==
  ASSUME TypeOK, SetupInv, RemoveDevice
  PROVE  SetupInv'
<1> USE ActorsAssumption
    DEF SetupInv, RemoveDevice, globals,
        Starting, Polling, Setup, SetupOp, At, Goto, TypeOK, Actors, DeviceHeld
<1>1. FlightInv'
  BY DEF FlightInv, OpInv, MacInv, StateInv, WorkerInv
<1>2. OpInv'
  BY DEF FlightInv, OpInv, MacInv, StateInv, WorkerInv
<1>3. MacInv'
  BY DEF FlightInv, OpInv, MacInv, StateInv, WorkerInv
<1>4. StateInv'
  BY DEF FlightInv, OpInv, MacInv, StateInv, WorkerInv
<1>5. WorkerInv'
  BY DEF FlightInv, OpInv, MacInv, StateInv, WorkerInv
<1> QED
  BY <1>1, <1>2, <1>3, <1>4, <1>5

\* and closing them returns every request.
LEMMA CloseSetup ==
  ASSUME TypeOK, SetupInv, RemoveClose
  PROVE  SetupInv'
<1> USE ActorsAssumption
    DEF SetupInv, RemoveClose, context,
        Starting, Polling, Setup, SetupOp, At, Goto, TypeOK, Actors, DeviceHeld
<1>1. FlightInv'
  BY DEF FlightInv, OpInv, MacInv, StateInv, WorkerInv
<1>2. OpInv'
  BY DEF FlightInv, OpInv, MacInv, StateInv, WorkerInv
<1>3. MacInv'
  BY DEF FlightInv, OpInv, MacInv, StateInv, WorkerInv
<1>4. StateInv'
  BY DEF FlightInv, OpInv, MacInv, StateInv, WorkerInv
<1>5. WorkerInv'
  BY DEF FlightInv, OpInv, MacInv, StateInv, WorkerInv
<1> QED
  BY <1>1, <1>2, <1>3, <1>4, <1>5

\* The first carrier request comes after the last setup request.
LEMMA OpenPollSetup ==
  ASSUME TypeOK, SetupInv, OpenPoll
  PROVE  SetupInv'
<1> USE ActorsAssumption
    DEF SetupInv, OpenPoll, ControlQueued, ControlRefused, CanQueueControl,
        Starting, Polling, Setup, SetupOp, At, Goto, TypeOK, Actors, DeviceHeld
<1>1. FlightInv'
  BY DEF FlightInv, OpInv, MacInv, StateInv, WorkerInv
<1>2. OpInv'
  BY DEF FlightInv, OpInv, MacInv, StateInv, WorkerInv
<1>3. MacInv'
  BY DEF FlightInv, OpInv, MacInv, StateInv, WorkerInv
<1>4. StateInv'
  BY DEF FlightInv, OpInv, MacInv, StateInv, WorkerInv
<1>5. WorkerInv'
  BY DEF FlightInv, OpInv, MacInv, StateInv, WorkerInv
<1> QED
  BY <1>1, <1>2, <1>3, <1>4, <1>5

\* A completion finds its request alone, and queues the next in its place.
LEMMA MacReceivedSetup ==
  ASSUME TypeOK, SetupInv, MacReceived
  PROVE  SetupInv'
<1> USE ActorsAssumption
    DEF SetupInv, MacReceived, ControlDone, NextControl,
        Starting, Polling, Setup, SetupOp, At, Goto, TypeOK, Actors, DeviceHeld
<1>1. FlightInv'
  BY DEF FlightInv, OpInv, MacInv, StateInv, WorkerInv
<1>2. OpInv'
  BY DEF FlightInv, OpInv, MacInv, StateInv, WorkerInv
<1>3. MacInv'
  BY DEF FlightInv, OpInv, MacInv, StateInv, WorkerInv
<1>4. StateInv'
  BY DEF FlightInv, OpInv, MacInv, StateInv, WorkerInv
<1>5. WorkerInv'
  BY DEF FlightInv, OpInv, MacInv, StateInv, WorkerInv
<1> QED
  BY <1>1, <1>2, <1>3, <1>4, <1>5

\* The same, for ENABLE_NCM.
LEMMA NcmEnabledSetup ==
  ASSUME TypeOK, SetupInv, NcmEnabled
  PROVE  SetupInv'
<1> USE ActorsAssumption
    DEF SetupInv, NcmEnabled, ControlDone, NextControl,
        Starting, Polling, Setup, SetupOp, At, Goto, TypeOK, Actors, DeviceHeld
<1>1. FlightInv'
  BY DEF FlightInv, OpInv, MacInv, StateInv, WorkerInv
<1>2. OpInv'
  BY DEF FlightInv, OpInv, MacInv, StateInv, WorkerInv
<1>3. MacInv'
  BY DEF FlightInv, OpInv, MacInv, StateInv, WorkerInv
<1>4. StateInv'
  BY DEF FlightInv, OpInv, MacInv, StateInv, WorkerInv
<1>5. WorkerInv'
  BY DEF FlightInv, OpInv, MacInv, StateInv, WorkerInv
<1> QED
  BY <1>1, <1>2, <1>3, <1>4, <1>5

\* The same, when the phone rejects it.
LEMMA NcmRejectedSetup ==
  ASSUME TypeOK, SetupInv, NcmRejected
  PROVE  SetupInv'
<1> USE ActorsAssumption
    DEF SetupInv, NcmRejected, ControlDone, NextControl,
        Starting, Polling, Setup, SetupOp, At, Goto, TypeOK, Actors, DeviceHeld
<1>1. FlightInv'
  BY DEF FlightInv, OpInv, MacInv, StateInv, WorkerInv
<1>2. OpInv'
  BY DEF FlightInv, OpInv, MacInv, StateInv, WorkerInv
<1>3. MacInv'
  BY DEF FlightInv, OpInv, MacInv, StateInv, WorkerInv
<1>4. StateInv'
  BY DEF FlightInv, OpInv, MacInv, StateInv, WorkerInv
<1>5. WorkerInv'
  BY DEF FlightInv, OpInv, MacInv, StateInv, WorkerInv
<1> QED
  BY <1>1, <1>2, <1>3, <1>4, <1>5

\* A failed request ends the setup.
LEMMA ControlFailedSetup ==
  ASSUME TypeOK, SetupInv, ControlFailed
  PROVE  SetupInv'
<1> USE ActorsAssumption
    DEF SetupInv, ControlFailed, ControlDone, Fail,
        Starting, Polling, Setup, SetupOp, At, Goto, TypeOK, Actors, DeviceHeld
<1>1. FlightInv'
  BY DEF FlightInv, OpInv, MacInv, StateInv, WorkerInv
<1>2. OpInv'
  BY DEF FlightInv, OpInv, MacInv, StateInv, WorkerInv
<1>3. MacInv'
  BY DEF FlightInv, OpInv, MacInv, StateInv, WorkerInv
<1>4. StateInv'
  BY DEF FlightInv, OpInv, MacInv, StateInv, WorkerInv
<1>5. WorkerInv'
  BY DEF FlightInv, OpInv, MacInv, StateInv, WorkerInv
<1> QED
  BY <1>1, <1>2, <1>3, <1>4, <1>5

\* A completion that finds no operation changes no setup word but busy.
LEMMA ControlIgnoredSetup ==
  ASSUME TypeOK, SetupInv, ControlIgnored
  PROVE  SetupInv'
<1> USE ActorsAssumption
    DEF SetupInv, ControlIgnored, ControlDone,
        Starting, Polling, Setup, SetupOp, At, Goto, TypeOK, Actors, DeviceHeld
<1>1. FlightInv'
  BY DEF FlightInv, OpInv, MacInv, StateInv, WorkerInv
<1>2. OpInv'
  BY DEF FlightInv, OpInv, MacInv, StateInv, WorkerInv
<1>3. MacInv'
  BY DEF FlightInv, OpInv, MacInv, StateInv, WorkerInv
<1>4. StateInv'
  BY DEF FlightInv, OpInv, MacInv, StateInv, WorkerInv
<1>5. WorkerInv'
  BY DEF FlightInv, OpInv, MacInv, StateInv, WorkerInv
<1> QED
  BY <1>1, <1>2, <1>3, <1>4, <1>5

\* SET_INTERFACE is the last request of the setup.
LEMMA EndpointsOpenedSetup ==
  ASSUME TypeOK, SetupInv, EndpointsOpened
  PROVE  SetupInv'
<1> USE ActorsAssumption
    DEF SetupInv, EndpointsOpened, ControlDone,
        Starting, Polling, Setup, SetupOp, At, Goto, TypeOK, Actors, DeviceHeld
<1>1. FlightInv'
  BY DEF FlightInv, OpInv, MacInv, StateInv, WorkerInv
<1>2. OpInv'
  BY DEF FlightInv, OpInv, MacInv, StateInv, WorkerInv
<1>3. MacInv'
  BY DEF FlightInv, OpInv, MacInv, StateInv, WorkerInv
<1>4. StateInv'
  BY DEF FlightInv, OpInv, MacInv, StateInv, WorkerInv
<1>5. WorkerInv'
  BY DEF FlightInv, OpInv, MacInv, StateInv, WorkerInv
<1> QED
  BY <1>1, <1>2, <1>3, <1>4, <1>5

\* A carrier answer may find a newer phone, but never beside a setup request.
LEMMA CarrierReportedSetup ==
  ASSUME TypeOK, SetupInv, CarrierReported
  PROVE  SetupInv'
<1> USE ActorsAssumption
    DEF SetupInv, CarrierReported, ControlDone,
        Starting, Polling, Setup, SetupOp, At, Goto, TypeOK, Actors, DeviceHeld
<1>1. FlightInv'
  BY DEF FlightInv, OpInv, MacInv, StateInv, WorkerInv
<1>2. OpInv'
  BY DEF FlightInv, OpInv, MacInv, StateInv, WorkerInv
<1>3. MacInv'
  BY DEF FlightInv, OpInv, MacInv, StateInv, WorkerInv
<1>4. StateInv'
  BY DEF FlightInv, OpInv, MacInv, StateInv, WorkerInv
<1>5. WorkerInv'
  BY DEF FlightInv, OpInv, MacInv, StateInv, WorkerInv
<1> QED
  BY <1>1, <1>2, <1>3, <1>4, <1>5

\* A Worker starts the setup only while nothing is in flight.
LEMMA WorkerPairSetup ==
  ASSUME TypeOK, SetupInv, NEW t \in Threads,
         WorkerPair(t)
  PROVE  SetupInv'
<1> USE ActorsAssumption
    DEF SetupInv, WorkerPair, Moves, context, globals,
        Starting, Polling, Setup, SetupOp, At, Goto, TypeOK, Actors, DeviceHeld
<1>1. FlightInv'
  BY DEF FlightInv, OpInv, MacInv, StateInv, WorkerInv
<1>2. OpInv'
  BY DEF FlightInv, OpInv, MacInv, StateInv, WorkerInv
<1>3. MacInv'
  BY DEF FlightInv, OpInv, MacInv, StateInv, WorkerInv
<1>4. StateInv'
  BY DEF FlightInv, OpInv, MacInv, StateInv, WorkerInv
<1>5. WorkerInv'
  BY DEF FlightInv, OpInv, MacInv, StateInv, WorkerInv
<1> QED
  BY <1>1, <1>2, <1>3, <1>4, <1>5

\* A Worker polls only a phone that was ready.
LEMMA WorkerReadySetup ==
  ASSUME TypeOK, SetupInv, NEW t \in Threads,
         WorkerReady(t)
  PROVE  SetupInv'
<1> USE ActorsAssumption
    DEF SetupInv, WorkerReady, Moves, context, globals,
        Starting, Polling, Setup, SetupOp, At, Goto, TypeOK, Actors, DeviceHeld
<1>1. FlightInv'
  BY DEF FlightInv, OpInv, MacInv, StateInv, WorkerInv
<1>2. OpInv'
  BY DEF FlightInv, OpInv, MacInv, StateInv, WorkerInv
<1>3. MacInv'
  BY DEF FlightInv, OpInv, MacInv, StateInv, WorkerInv
<1>4. StateInv'
  BY DEF FlightInv, OpInv, MacInv, StateInv, WorkerInv
<1>5. WorkerInv'
  BY DEF FlightInv, OpInv, MacInv, StateInv, WorkerInv
<1> QED
  BY <1>1, <1>2, <1>3, <1>4, <1>5

\* Queueing a poll on a newer phone finds its control pipe free.
LEMMA WorkerPollSetup ==
  ASSUME TypeOK, SetupInv, NEW t \in Threads,
         WorkerPoll(t)
  PROVE  SetupInv'
<1> USE ActorsAssumption
    DEF SetupInv, WorkerPoll, Moves, CanQueueControl, context,
        globals,
        Starting, Polling, Setup, SetupOp, At, Goto, TypeOK, Actors, DeviceHeld
<1>1. FlightInv'
  BY DEF FlightInv, OpInv, MacInv, StateInv, WorkerInv
<1>2. OpInv'
  BY DEF FlightInv, OpInv, MacInv, StateInv, WorkerInv
<1>3. MacInv'
  BY DEF FlightInv, OpInv, MacInv, StateInv, WorkerInv
<1>4. StateInv'
  BY DEF FlightInv, OpInv, MacInv, StateInv, WorkerInv
<1>5. WorkerInv'
  BY DEF FlightInv, OpInv, MacInv, StateInv, WorkerInv
<1> QED
  BY <1>1, <1>2, <1>3, <1>4, <1>5

\* No other Worker is polling when one starts the setup,
LEMMA WorkerSetPairSetup ==
  ASSUME TypeOK, SetupInv, NEW t \in Threads,
         OneWorker, WorkerSetPair(t)
  PROVE  SetupInv'
<1> USE ActorsAssumption
    DEF SetupInv, OneWorker, InRound, RoundPc, WorkerSetPair, globals,
        Starting, Polling, Setup, SetupOp, At, Goto, TypeOK, Actors, DeviceHeld
<1>1. FlightInv'
  BY DEF FlightInv, OpInv, MacInv, StateInv, WorkerInv
<1>2. OpInv'
  BY DEF FlightInv, OpInv, MacInv, StateInv, WorkerInv
<1>3. MacInv'
  BY DEF FlightInv, OpInv, MacInv, StateInv, WorkerInv
<1>4. StateInv'
  BY DEF FlightInv, OpInv, MacInv, StateInv, WorkerInv
<1>5. WorkerInv'
  BY DEF FlightInv, OpInv, MacInv, StateInv, WorkerInv
<1> QED
  BY <1>1, <1>2, <1>3, <1>4, <1>5

\* nor when it queues GET_MACADDR,
LEMMA WorkerSubmitGetMacSetup ==
  ASSUME TypeOK, SetupInv, NEW t \in Threads,
         OneWorker, WorkerSubmitGetMac(t)
  PROVE  SetupInv'
<1> USE ActorsAssumption
    DEF SetupInv, OneWorker, InRound, RoundPc, WorkerSubmitGetMac,
        ControlQueued, ControlRefused, Fail,
        Starting, Polling, Setup, SetupOp, At, Goto, TypeOK, Actors, DeviceHeld
<1>1. FlightInv'
  BY DEF FlightInv, OpInv, MacInv, StateInv, WorkerInv
<1>2. OpInv'
  BY DEF FlightInv, OpInv, MacInv, StateInv, WorkerInv
<1>3. MacInv'
  BY DEF FlightInv, OpInv, MacInv, StateInv, WorkerInv
<1>4. StateInv'
  BY DEF FlightInv, OpInv, MacInv, StateInv, WorkerInv
<1>5. WorkerInv'
  BY DEF FlightInv, OpInv, MacInv, StateInv, WorkerInv
<1> QED
  BY <1>1, <1>2, <1>3, <1>4, <1>5

\* and none is starting one when it queues a carrier request.
LEMMA WorkerSubmitPollSetup ==
  ASSUME TypeOK, SetupInv, NEW t \in Threads,
         OneWorker, WorkerSubmitPoll(t)
  PROVE  SetupInv'
<1> USE ActorsAssumption
    DEF SetupInv, OneWorker, InRound, RoundPc, WorkerSubmitPoll,
        ControlQueued, ControlRefused,
        Starting, Polling, Setup, SetupOp, At, Goto, TypeOK, Actors, DeviceHeld
<1>1. FlightInv'
  BY DEF FlightInv, OpInv, MacInv, StateInv, WorkerInv
<1>2. OpInv'
  BY DEF FlightInv, OpInv, MacInv, StateInv, WorkerInv
<1>3. MacInv'
  BY DEF FlightInv, OpInv, MacInv, StateInv, WorkerInv
<1>4. StateInv'
  BY DEF FlightInv, OpInv, MacInv, StateInv, WorkerInv
<1>5. WorkerInv'
  BY DEF FlightInv, OpInv, MacInv, StateInv, WorkerInv
<1> QED
  BY <1>1, <1>2, <1>3, <1>4, <1>5

-----------------------------------------------------------------------------
\* Every step keeps the setup in order.
LEMMA SetupStep ==
  ASSUME TypeOK, OneWorker, SetupInv, [Next]_vars
  PROVE  SetupInv'
<1>1. CASE UNCHANGED vars
  <2>1. Still
    BY <1>1 DEF vars, context, globals, Still, Starting, Polling, At,
                DeviceHeld
  <2> QED
    BY <2>1, StillKeeps
<1>2. CASE GateChanges
  <2>1. Still
    BY <1>2 DEF GateChanges, context, globals, Still, Starting, Polling, At,
                DeviceHeld
  <2> QED
    BY <2>1, StillKeeps
<1>3. CASE DataPathFails
  <2>1. Still
    BY <1>3 DEF DataPathFails, Fail, globals, Still, Starting, Polling, At,
                DeviceHeld
  <2> QED
    BY <2>1, StillKeeps
<1>4. CASE AddDevice
  BY <1>4, AddSetup
<1>5. CASE RemoveDevice
  BY <1>5, RemoveSetup
<1>6. CASE UsbCall
  <2>1. Usb \in Actors
    BY DEF Actors
  <2> QED
    BY <1>6, <2>1, UsbStillSteps, StartStill, StillKeeps, DeclineSetup,
       CloseSetup, OpenPollSetup
    DEF UsbCall
<1>7. CASE Completion
  BY <1>7, MacReceivedSetup, NcmEnabledSetup, NcmRejectedSetup,
     ControlFailedSetup, ControlIgnoredSetup, EndpointsOpenedSetup,
     CarrierReportedSetup
  DEF Completion
<1>8. ASSUME NEW t \in Threads, Worker(t) PROVE SetupInv'
  <2>1. t \in Actors
    BY DEF Actors
  <2> QED
    BY <1>8, <2>1, WorkerStill, StartStill, StillKeeps, WorkerPairSetup,
       WorkerReadySetup, WorkerPollSetup, WorkerSetPairSetup,
       WorkerSubmitGetMacSetup, WorkerSubmitPollSetup
    DEF Worker
<1> QED
  BY <1>1, <1>2, <1>3, <1>4, <1>5, <1>6, <1>7, <1>8 DEF Next

\* A phone is set up one request at a time, and nothing past GET_MACADDR runs
\* without its MAC, however its setup overlaps the Workers and the requests
\* that an earlier phone left behind.
THEOREM SetupOrdered == Spec => []SetupInOrder
<1>1. TypeOK /\ OneWorker /\ SetupInv /\ [Next]_vars => SetupInv'
  BY SetupStep
<1>2. SetupInv => SetupInOrder
  BY DEF SetupInv, StateInv, MacInv, Setup, SetupInOrder
<1> QED
  BY InitSetup, <1>1, <1>2, TetherTypeCorrect, SingleWorker, PTL DEF Spec
=============================================================================
