---------------------------- MODULE TetherDriver ----------------------------
(***************************************************************************)
(* The tether driver (tether_driver.cpp): the USB callback thread, which   *)
(* runs AddDevice, RemoveDevice and the transfer completions one at a      *)
(* time, and the detached Worker threads that share the context gCtx with  *)
(* it, without a lock.                                                     *)
(*                                                                         *)
(* A Worker is handed from one phone to the next through gWorkerActive and *)
(* gGeneration.  Every access to a word that another thread may use is a   *)
(* step; accesses to words of the running thread are folded together.      *)
(*                                                                         *)
(* Not modelled here: the frame queues, the notification flags, and the    *)
(* licence runtime (its gate is the input `allowed`).                      *)
(***************************************************************************)
EXTENDS Integers

CONSTANTS
  Threads,     \* slots for Worker threads
  Usb,         \* the USB callback thread
  MaxPhones    \* bound: devices added in one Core session

ASSUME ActorsAssumption == Usb \notin Threads
ASSUME MaxPhonesAssumption == MaxPhones \in Nat \ {0}

Actors == Threads \cup {Usb}

VARIABLES
  attached,      \* gCtx.attached
  state,         \* gCtx.state
  ep0,           \* gCtx.control.trb.endpoint is set
  macKnown,      \* gCtx.mac is set
  controlBusy,   \* gCtx.controlBusy
  controlOp,     \* gCtx.controlOp
  carrierOn,     \* gCtx.carrierOn
  netStarted,    \* gCtx.netStarted
  generation,    \* gGeneration
  workerActive,  \* gWorkerActive
  configured,    \* gNet.IsConfigured()
  active,        \* gBridge.active
  inFlight,      \* control transfers the USB stack holds
  allowed,       \* input: it360_license_runtime::NativeNetworkAllowed()
  pc,            \* where each thread is
  gen,           \* Worker's generation, or StartWorker's local of that name
  enable,        \* the arguments Worker has evaluated for the bridge
  phones         \* number of devices added, for the bound

context == <<attached, state, ep0, macKnown, controlBusy, controlOp,
             carrierOn, netStarted>>
globals == <<generation, workerActive, configured, active, inFlight>>
locals  == <<gen, enable>>
vars    == <<context, globals, allowed, pc, locals, phones>>

TetherState == {"Idle", "WaitingPair", "GetMac", "EnableNcm", "SetInterface",
                "Ready", "Failed"}
ControlOp   == {"None", "GetMac", "EnableNcm", "SetInterface", "Carrier"}

UsbPc    == {"idle", "added", "accepted", "announce", "openPoll",
             "retire", "detachBridge", "close"}
StartPc  == {"claim", "readGeneration", "create", "unclaim", "failed"}
RoundPc  == {"check", "checkAttached", "pair", "setPair", "getMac",
             "submitGetMac", "ready", "poll", "submitPoll", "carrierOff",
             "carrierUp", "frames", "evalLink", "evalGate", "apply", "pump",
             "restart"}
WorkerPc == RoundPc \cup {"none", "exit", "tail"}

TypeOK ==
  /\ attached \in BOOLEAN /\ ep0 \in BOOLEAN /\ macKnown \in BOOLEAN
  /\ state \in TetherState
  /\ controlBusy \in BOOLEAN
  /\ controlOp \in ControlOp
  /\ carrierOn \in BOOLEAN /\ netStarted \in BOOLEAN
  /\ generation \in Nat
  /\ workerActive \in BOOLEAN
  /\ configured \in BOOLEAN /\ active \in BOOLEAN
  /\ inFlight \in Nat
  /\ allowed \in BOOLEAN
  /\ pc \in [Actors -> UsbPc \cup StartPc \cup WorkerPc]
  /\ gen \in [Actors -> Nat]
  /\ enable \in [Threads -> BOOLEAN]
  /\ phones \in 0..MaxPhones

At(a, p)   == pc[a] = p
Goto(a, p) == pc' = [pc EXCEPT ![a] = p]

\* Where an actor goes when it returns from the driver.
Returned(a) == IF a = Usb THEN "idle" ELSE "none"

Init ==
  /\ attached = FALSE /\ state = "Idle" /\ ep0 = FALSE /\ macKnown = FALSE
  /\ controlBusy = FALSE /\ controlOp = "None"
  /\ carrierOn = FALSE /\ netStarted = FALSE
  /\ generation = 0 /\ workerActive = FALSE
  /\ configured = FALSE /\ active = FALSE /\ inFlight = 0
  /\ allowed = FALSE
  /\ pc = [a \in Actors |-> Returned(a)]
  /\ gen = [a \in Actors |-> 0]
  /\ enable = [t \in Threads |-> FALSE]
  /\ phones = 0

-----------------------------------------------------------------------------
\* Fail and FailStatus, which also tell the user.
Fail == state' = "Failed"

(* QueueControl, the parts its callers share.                              *)

CanQueueControl == attached /\ ep0 /\ ~controlBusy

\* The USB stack holds the device from AddDevice to the end of RemoveDevice.
DeviceHeld == attached \/ pc[Usb] \in {"retire", "detachBridge", "close"}

\* It takes the transfer.  The endpoint is saved before the control block is
\* cleared, and written back.
ControlQueued(op) ==
  /\ DeviceHeld
  /\ ep0' = TRUE
  /\ controlOp' = op
  /\ controlBusy' = TRUE
  /\ inFlight' = inFlight + 1

\* It refuses: busy and operation are cleared again.
ControlRefused ==
  /\ ep0' = TRUE
  /\ controlOp' = "None"
  /\ controlBusy' = FALSE
  /\ UNCHANGED inFlight

-----------------------------------------------------------------------------
(* AddDevice and RemoveDevice.                                             *)

\* The context is zeroed; nothing else is reset.
AddDevice ==
  /\ At(Usb, "idle") /\ ~attached
  /\ phones < MaxPhones
  /\ phones' = phones + 1
  /\ attached' = TRUE
  /\ state' = "WaitingPair"
  /\ ep0' = FALSE /\ macKnown' = FALSE
  /\ controlBusy' = FALSE /\ controlOp' = "None"
  /\ carrierOn' = FALSE /\ netStarted' = FALSE
  /\ Goto(Usb, "added")
  /\ UNCHANGED <<globals, allowed, locals>>

\* Bulk endpoints not found: the device is declined.
AddDeclined ==
  /\ At(Usb, "added")
  /\ Fail
  /\ attached' = FALSE
  /\ inFlight' = 0
  /\ Goto(Usb, "idle")
  /\ UNCHANGED <<ep0, macKnown, controlBusy, controlOp, carrierOn, netStarted,
                 generation, workerActive, configured, active, allowed, locals,
                 phones>>

AddAccepted ==
  /\ At(Usb, "added")
  /\ Goto(Usb, "accepted")
  /\ UNCHANGED <<context, globals, allowed, locals, phones>>

\* EP0 cannot be opened: the device stays attached, with no Worker of its own.
AddNoControl ==
  /\ At(Usb, "accepted")
  /\ Fail
  /\ Goto(Usb, "idle")
  /\ UNCHANGED <<attached, ep0, macKnown, controlBusy, controlOp, carrierOn,
                 netStarted, globals, allowed, locals, phones>>

AddControlOpen ==
  /\ At(Usb, "accepted")
  /\ ep0' = TRUE
  /\ Goto(Usb, "announce")
  /\ UNCHANGED <<attached, state, macKnown, controlBusy, controlOp, carrierOn,
                 netStarted, globals, allowed, locals, phones>>

\* The phone has its serial and the licence runtime knows it: a new generation.
AddGeneration ==
  /\ At(Usb, "announce")
  /\ generation' = generation + 1
  /\ Goto(Usb, "claim")
  /\ UNCHANGED <<context, workerActive, configured, active, inFlight,
                 allowed, locals, phones>>

RemoveDevice ==
  /\ At(Usb, "idle") /\ attached
  /\ attached' = FALSE
  /\ Goto(Usb, "retire")
  /\ UNCHANGED <<state, ep0, macKnown, controlBusy, controlOp, carrierOn,
                 netStarted, globals, allowed, locals, phones>>

RemoveGeneration ==
  /\ At(Usb, "retire")
  /\ generation' = generation + 1
  /\ Goto(Usb, "detachBridge")
  /\ UNCHANGED <<context, workerActive, configured, active, inFlight,
                 allowed, locals, phones>>

\* PhoneDetached.
RemoveBridge ==
  /\ At(Usb, "detachBridge")
  /\ active' = FALSE
  /\ Goto(Usb, "close")
  /\ UNCHANGED <<context, generation, workerActive, configured, inFlight,
                 allowed, locals, phones>>

\* Closing the endpoints returns what the USB stack still holds.
RemoveClose ==
  /\ At(Usb, "close")
  /\ inFlight' = 0
  /\ Goto(Usb, "idle")
  /\ UNCHANGED <<context, generation, workerActive, configured, active,
                 allowed, locals, phones>>

-----------------------------------------------------------------------------
(* Transfer completions.                                                   *)

\* What ControlComplete does before it looks at the status.
ControlDone(op) ==
  /\ At(Usb, "idle") /\ attached
  /\ inFlight > 0
  /\ controlOp = op

\* The next request, queued from the completion of this one.  A refusal is
\* ignored: the state stays where it is.
NextControl(op) ==
  \/ /\ ep0
     /\ controlOp' = op /\ controlBusy' = TRUE
     /\ inFlight' = inFlight
  \/ /\ controlOp' = "None" /\ controlBusy' = FALSE
     /\ inFlight' = inFlight - 1

\* Mutant: the MAC is not kept.
MacReceivedNotKept ==
  /\ ControlDone("GetMac")
  /\ state' = "EnableNcm"
  /\ NextControl("EnableNcm")
  /\ UNCHANGED <<attached, ep0, macKnown, carrierOn, netStarted, generation,
                 workerActive, configured, active, allowed, pc, locals,
                 phones>>

MacReceived ==
  /\ ControlDone("GetMac")
  /\ macKnown' = TRUE
  /\ state' = "EnableNcm"
  /\ NextControl("EnableNcm")
  /\ UNCHANGED <<attached, ep0, carrierOn, netStarted, generation,
                 workerActive, configured, active, allowed, pc, locals,
                 phones>>

NcmEnabled ==
  /\ ControlDone("EnableNcm")
  /\ state' = "SetInterface"
  /\ NextControl("SetInterface")
  /\ UNCHANGED <<attached, ep0, macKnown, carrierOn, netStarted, generation,
                 workerActive, configured, active, allowed, pc, locals,
                 phones>>

\* ENABLE_NCM rejected: legacy frames, and the state stays EnableNcm.
NcmRejected ==
  /\ ControlDone("EnableNcm")
  /\ NextControl("SetInterface")
  /\ UNCHANGED <<attached, state, ep0, macKnown, carrierOn, netStarted,
                 generation, workerActive, configured, active, allowed, pc,
                 locals, phones>>

\* An all-zero or group MAC, an endpoint that cannot be opened, or an error.
ControlFailed ==
  /\ \/ ControlDone("GetMac")
     \/ ControlDone("SetInterface")
     \/ ControlDone("None")
  /\ Fail
  /\ controlOp' = "None" /\ controlBusy' = FALSE
  /\ inFlight' = inFlight - 1
  /\ UNCHANGED <<attached, ep0, macKnown, carrierOn, netStarted, generation,
                 workerActive, configured, active, allowed, pc, locals,
                 phones>>

\* A second completion of the same request finds no operation.
ControlIgnored ==
  /\ ControlDone("None")
  /\ controlBusy' = FALSE
  /\ inFlight' = inFlight - 1
  /\ UNCHANGED <<attached, state, ep0, macKnown, controlOp, carrierOn,
                 netStarted, generation, workerActive, configured, active,
                 allowed, pc, locals, phones>>

\* SET_INTERFACE done: OpenDataEndpoints, up to the first Bulk IN transfer.
EndpointsOpened ==
  /\ ControlDone("SetInterface")
  /\ controlOp' = "None" /\ controlBusy' = FALSE
  /\ inFlight' = inFlight - 1
  /\ state' = "Ready"
  /\ Goto(Usb, "openPoll")
  /\ UNCHANGED <<attached, ep0, macKnown, carrierOn, netStarted, generation,
                 workerActive, configured, active, allowed, locals, phones>>

\* ... which is refused,
OpenRefused ==
  /\ At(Usb, "openPoll")
  /\ Fail
  /\ Goto(Usb, "idle")
  /\ UNCHANGED <<attached, ep0, macKnown, controlBusy, controlOp, carrierOn,
                 netStarted, globals, allowed, locals, phones>>

\* ... or the first carrier request is queued.
OpenPoll ==
  /\ At(Usb, "openPoll")
  /\ \/ CanQueueControl /\ ControlQueued("Carrier")
     \/ CanQueueControl /\ ControlRefused
     \/ ~CanQueueControl /\ UNCHANGED <<ep0, controlOp, controlBusy, inFlight>>
  /\ Goto(Usb, "idle")
  /\ UNCHANGED <<attached, state, macKnown, carrierOn, netStarted,
                 generation, workerActive, configured, active, allowed, locals,
                 phones>>

\* Any carrier status; a failed request leaves carrierOn as it is.
CarrierReported ==
  /\ ControlDone("Carrier")
  /\ controlOp' = "None" /\ controlBusy' = FALSE
  /\ inFlight' = inFlight - 1
  /\ carrierOn' \in BOOLEAN
  /\ UNCHANGED <<attached, state, ep0, macKnown, netStarted, generation,
                 workerActive, configured, active, allowed, pc, locals,
                 phones>>

\* Bulk completions: TxComplete with an error, or RxComplete after too many.
DataPathFails ==
  /\ At(Usb, "idle") /\ attached
  /\ state = "Ready"
  /\ Fail
  /\ UNCHANGED <<attached, ep0, macKnown, controlBusy, controlOp, carrierOn,
                 netStarted, globals, allowed, pc, locals, phones>>

-----------------------------------------------------------------------------
(* StartWorker, called by AddDevice and by a Worker that ends.             *)

\* The compare-exchange on gWorkerActive: someone else's Worker will do.
StartClaim(a) ==
  /\ At(a, "claim")
  /\ Goto(a, IF workerActive THEN Returned(a) ELSE "readGeneration")
  /\ workerActive' = TRUE
  /\ UNCHANGED <<context, generation, configured, active, inFlight, allowed,
                 locals, phones>>

StartReadGeneration(a) ==
  /\ At(a, "readGeneration")
  /\ gen' = [gen EXCEPT ![a] = generation]
  /\ Goto(a, "create")
  /\ UNCHANGED <<context, globals, allowed, enable, phones>>

StartCreated(a, t) ==
  /\ At(a, "create") /\ At(t, "none")
  /\ pc' = [pc EXCEPT ![a] = Returned(a), ![t] = "check"]
  /\ gen' = [gen EXCEPT ![t] = gen[a], ![a] = 0]
  /\ UNCHANGED <<context, globals, allowed, enable, phones>>

\* Mutant: the claim is kept when no thread could be created.
StartRefusedKeepsClaim(a) ==
  /\ At(a, "create")
  /\ Goto(a, "failed")
  /\ gen' = [gen EXCEPT ![a] = 0]
  /\ UNCHANGED <<context, globals, allowed, enable, phones>>

\* No thread: the claim is given back, then the state fails.
StartRefused(a) ==
  /\ At(a, "create")
  /\ Goto(a, "unclaim")
  /\ gen' = [gen EXCEPT ![a] = 0]
  /\ UNCHANGED <<context, globals, allowed, enable, phones>>

StartUnclaim(a) ==
  /\ At(a, "unclaim")
  /\ workerActive' = FALSE
  /\ Goto(a, "failed")
  /\ UNCHANGED <<context, generation, configured, active, inFlight, allowed,
                 locals, phones>>

StartFailed(a) ==
  /\ At(a, "failed")
  /\ Fail
  /\ Goto(a, Returned(a))
  /\ UNCHANGED <<attached, ep0, macKnown, controlBusy, controlOp, carrierOn,
                 netStarted, globals, allowed, locals, phones>>

-----------------------------------------------------------------------------
(* Worker: one round after each sleep.                                     *)

\* A step of the Worker's round that only moves on.
Moves(t, from, to) ==
  /\ At(t, from)
  /\ Goto(t, to)
  /\ UNCHANGED <<context, globals, allowed, locals, phones>>

WorkerCheck(t) ==
  Moves(t, "check", IF generation = gen[t] THEN "checkAttached" ELSE "exit")

WorkerCheckAttached(t) ==
  Moves(t, "checkAttached", IF attached THEN "pair" ELSE "exit")

\* IsPairReady may say anything here: the usbmux driver decides it.
WorkerPair(t) ==
  \/ Moves(t, "pair", "ready")
  \/ state = "WaitingPair" /\ ~controlBusy /\ Moves(t, "pair", "setPair")

WorkerSetPair(t) ==
  /\ At(t, "setPair")
  /\ state' = "GetMac"
  /\ Goto(t, "getMac")
  /\ UNCHANGED <<attached, ep0, macKnown, controlBusy, controlOp, carrierOn,
                 netStarted, globals, allowed, locals, phones>>

\* QueueControl(CtrlGetMac): its tests, then its writes and the transfer.
WorkerGetMac(t) ==
  /\ At(t, "getMac")
  /\ state' = IF CanQueueControl THEN state ELSE "Failed"
  /\ Goto(t, IF CanQueueControl THEN "submitGetMac" ELSE "ready")
  /\ UNCHANGED <<attached, ep0, macKnown, controlBusy, controlOp, carrierOn,
                 netStarted, globals, allowed, locals, phones>>

WorkerSubmitGetMac(t) ==
  /\ At(t, "submitGetMac")
  /\ \/ ControlQueued("GetMac") /\ UNCHANGED state
     \/ ControlRefused /\ Fail
  /\ Goto(t, "ready")
  /\ UNCHANGED <<attached, macKnown, carrierOn, netStarted, generation,
                 workerActive, configured, active, allowed, locals, phones>>

\* Everything below runs in the Ready state, tested once for the round; every
\* twentieth round polls the carrier.
WorkerReady(t) ==
  IF state = "Ready"
  THEN Moves(t, "ready", "poll") \/ Moves(t, "ready", "carrierOff")
  ELSE Moves(t, "ready", "check")

WorkerPoll(t) ==
  Moves(t, "poll", IF CanQueueControl THEN "submitPoll" ELSE "carrierOff")

WorkerSubmitPoll(t) ==
  /\ At(t, "submitPoll")
  /\ ControlQueued("Carrier") \/ ControlRefused
  /\ Goto(t, "carrierOff")
  /\ UNCHANGED <<attached, state, macKnown, carrierOn, netStarted,
                 generation, workerActive, configured, active, allowed, locals,
                 phones>>

\* The carrier is lost: the network stack is reset.
WorkerCarrierOff(t) ==
  /\ At(t, "carrierOff")
  /\ netStarted' = (netStarted /\ carrierOn)
  /\ configured' = (configured /\ (carrierOn \/ ~netStarted))
  /\ Goto(t, "carrierUp")
  /\ UNCHANGED <<attached, state, ep0, macKnown, controlBusy, controlOp,
                 carrierOn, generation, workerActive, active, inFlight,
                 allowed, locals, phones>>

\* Start resets the stack and fails when the Discover frame cannot be queued.
WorkerCarrierUp(t) ==
  /\ At(t, "carrierUp")
  /\ IF carrierOn /\ ~netStarted
     THEN /\ netStarted' \in {FALSE, macKnown}
          /\ configured' = FALSE
     ELSE UNCHANGED <<netStarted, configured>>
  /\ Goto(t, "frames")
  /\ UNCHANGED <<attached, state, ep0, macKnown, controlBusy, controlOp,
                 carrierOn, generation, workerActive, active, inFlight,
                 allowed, locals, phones>>

\* Received frames may configure the stack or take its lease away.
WorkerFrames(t) ==
  /\ At(t, "frames")
  /\ IF netStarted THEN configured' \in BOOLEAN ELSE UNCHANGED configured
  /\ Goto(t, "evalLink")
  /\ UNCHANGED <<context, generation, workerActive, active, inFlight, allowed,
                 locals, phones>>

\* The arguments of UpdateTransportState, one after the other.
WorkerEvalLink(t) ==
  /\ At(t, "evalLink")
  /\ enable' = [enable EXCEPT ![t] = carrierOn /\ netStarted /\ configured]
  /\ Goto(t, "evalGate")
  /\ UNCHANGED <<context, globals, allowed, gen, phones>>

WorkerEvalGate(t) ==
  /\ At(t, "evalGate")
  /\ enable' = [enable EXCEPT ![t] = @ /\ allowed]
  /\ Goto(t, "apply")
  /\ UNCHANGED <<context, globals, allowed, gen, phones>>

\* Mutant: a bridge that is up is never paused.
WorkerApplyNeverPauses(t) ==
  /\ At(t, "apply")
  /\ IF enable[t] /\ macKnown THEN active' \in {TRUE, FALSE, active}
                              ELSE active' = active
  /\ enable' = [enable EXCEPT ![t] = FALSE]
  /\ Goto(t, "pump")
  /\ UNCHANGED <<context, generation, workerActive, configured, inFlight,
                 allowed, gen, phones>>

\* UpdateTransportState: enabling may find state_lock held, or XAM may refuse
\* the callbacks.
WorkerApply(t) ==
  /\ At(t, "apply")
  /\ IF enable[t] /\ macKnown THEN active' \in {TRUE, FALSE, active}
                              ELSE active' = FALSE
  /\ enable' = [enable EXCEPT ![t] = FALSE]
  /\ Goto(t, "pump")
  /\ UNCHANGED <<context, generation, workerActive, configured, inFlight,
                 allowed, gen, phones>>

\* PumpTx: nothing to send, a Bulk OUT transfer queued, or one refused.
WorkerPump(t) ==
  /\ At(t, "pump")
  /\ \/ UNCHANGED state
     \/ attached /\ state = "Ready" /\ Fail
  /\ Goto(t, "restart")
  /\ UNCHANGED <<attached, ep0, macKnown, controlBusy, controlOp, carrierOn,
                 netStarted, globals, allowed, locals, phones>>

\* Validation failed or took too long: back to DHCP.
WorkerRestart(t) ==
  /\ At(t, "restart")
  /\ \/ UNCHANGED <<netStarted, configured>>
     \/ netStarted /\ netStarted' = FALSE /\ configured' = FALSE
  /\ Goto(t, "check")
  /\ UNCHANGED <<attached, state, ep0, macKnown, controlBusy, controlOp,
                 carrierOn, generation, workerActive, active, inFlight,
                 allowed, locals, phones>>

\* The end of Worker: give the claim back, then look for a newer phone.
WorkerExit(t) ==
  /\ At(t, "exit")
  /\ workerActive' = FALSE
  /\ gen' = [gen EXCEPT ![t] = 0]
  /\ Goto(t, "tail")
  /\ UNCHANGED <<context, generation, configured, active, inFlight, allowed,
                 enable, phones>>

\* Mutant: a Worker that ends does not look for a newer phone.
WorkerTailLeaves(t) == Moves(t, "tail", "none")

WorkerTail(t) == Moves(t, "tail", IF attached THEN "claim" ELSE "none")

-----------------------------------------------------------------------------
(* Input from the licence runtime.                                         *)

GateChanges ==
  /\ allowed' = ~allowed
  /\ UNCHANGED <<context, globals, pc, locals, phones>>

-----------------------------------------------------------------------------

StartWorker(a) ==
  \/ StartClaim(a) \/ StartReadGeneration(a)
  \/ \E t \in Threads : StartCreated(a, t)
  \/ StartRefused(a) \/ StartUnclaim(a) \/ StartFailed(a)

UsbCall ==
  \/ AddDeclined \/ AddAccepted \/ AddNoControl \/ AddControlOpen
  \/ AddGeneration \/ StartWorker(Usb)
  \/ RemoveGeneration \/ RemoveBridge \/ RemoveClose
  \/ OpenRefused \/ OpenPoll

Completion ==
  \/ MacReceived \/ NcmEnabled \/ NcmRejected \/ ControlFailed
  \/ ControlIgnored \/ EndpointsOpened \/ CarrierReported

Worker(t) ==
  \/ WorkerCheck(t) \/ WorkerCheckAttached(t)
  \/ WorkerPair(t) \/ WorkerSetPair(t) \/ WorkerGetMac(t)
  \/ WorkerSubmitGetMac(t)
  \/ WorkerReady(t) \/ WorkerPoll(t) \/ WorkerSubmitPoll(t)
  \/ WorkerCarrierOff(t) \/ WorkerCarrierUp(t) \/ WorkerFrames(t)
  \/ WorkerEvalLink(t) \/ WorkerEvalGate(t) \/ WorkerApply(t)
  \/ WorkerPump(t) \/ WorkerRestart(t)
  \/ WorkerExit(t) \/ WorkerTail(t) \/ StartWorker(t)

Next ==
  \/ AddDevice \/ RemoveDevice \/ UsbCall
  \/ Completion \/ DataPathFails
  \/ \E t \in Threads : Worker(t)
  \/ GateChanges

Spec == Init /\ [][Next]_vars

\* The USB thread finishes the call it is in, the stack completes transfers,
\* and threads run.  Phones, pairing and licences may do what they like.
FairSpec ==
  /\ Spec
  /\ WF_vars(UsbCall) /\ WF_vars(Completion)
  /\ \A t \in Threads : WF_vars(Worker(t))

-----------------------------------------------------------------------------
(* Properties that hold.                                                   *)

InRound(t) == pc[t] \in RoundPc

\* VALIDATION.md: "One worker owns the standalone network state": however
\* removals, additions and ending Workers overlap, one thread is in the loop.
OneWorker == \A t, u \in Threads : InRound(t) /\ InRound(u) => t = u

\* A phone is set up with one control request at a time, so a completion is
\* always taken for the request it answers; and nothing past GET_MACADDR
\* happens without the MAC of this phone.
SetupInOrder ==
  /\ state \in {"GetMac", "EnableNcm", "SetInterface"} => inFlight <= 1
  /\ state \in {"EnableNcm", "SetInterface", "Ready"} => macKnown /\ ep0

\* gWorkerActive is up exactly while a thread is between winning it and giving
\* it back, and it is one thread: a claim nobody holds would leave every later
\* phone without a Worker, one that two hold would give it two.
Claimed(a) == pc[a] \in {"readGeneration", "create", "unclaim", "exit"} \cup RoundPc

ClaimIsHeld ==
  /\ workerActive <=> \E a \in Actors : Claimed(a)
  /\ \A a, b \in Actors : Claimed(a) /\ Claimed(b) => a = b

\* The Worker handoff loses no phone: one that AddDevice took over gets a
\* Worker of its own generation, unless a thread could not be created.
PhoneIsServed ==
  (attached /\ At(Usb, "claim"))
    ~> (\/ \E t \in Threads : InRound(t) /\ gen[t] = generation
        \/ state = "Failed" \/ ~attached)

Serving ==
  /\ attached /\ state = "Ready"
  /\ \E t \in Threads : InRound(t) /\ gen[t] = generation

\* A denied licence, or a lost carrier, takes the bridge down while the phone is
\* served.
BridgeFollows ==
  LET may == allowed /\ carrierOn
  IN  (active /\ ~may) ~> (~active \/ may \/ ~Serving)

=============================================================================
