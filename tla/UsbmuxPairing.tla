--------------------------- MODULE UsbmuxPairing ----------------------------
(***************************************************************************)
(* The usbmux driver (usbmux_probe.cpp): it opens the iPhone's usbmux      *)
(* interface, speaks TCP and lockdown over it, and pairs.                  *)
(*                                                                         *)
(* Two kinds of threads write gCtx without a lock: the USB callback thread *)
(* (AddDevice, RemoveDevice and the completions, one at a time), and the   *)
(* detached TrustRetryThread, which repeats the Pair request while the     *)
(* user has not answered the trust dialog.  A completion is one step,      *)
(* except where it starts that thread; every access of the retry thread    *)
(* that the USB thread can observe is a step of its own.                   *)
(*                                                                         *)
(* A lockdown message is one packet here, whatever its size, and sequence  *)
(* numbers and message contents are left out.                              *)
(***************************************************************************)
EXTENDS Integers

CONSTANTS
  Threads,      \* slots for retry threads
  Usb,          \* the USB callback thread
  MaxPhones,    \* bound: devices added in one Core session
  MaxAttempts,  \* rounds of one retry thread, 30 in the code
  QueueDepth    \* kTxQueueDepth, 12 in the code

ASSUME ActorsAssumption == Usb \notin Threads
ASSUME BoundsAssumption ==
  /\ MaxPhones \in Nat \ {0}
  /\ MaxAttempts \in Nat \ {0}
  /\ QueueDepth \in Nat \ {0}

Actors == Threads \cup {Usb}

VARIABLES
  ctx,          \* gCtx, gPairSession.state_ and it360_link's ready flag
  generation,   \* gDeviceGeneration
  retryActive,  \* gTrustRetryActive
  pc,           \* where each thread is
  gen,          \* TrustRetryThread's generation, or StartTrustRetry's local
  attempts,     \* rounds each retry thread has made
  phones,       \* number of devices added, for the bound
  accepted,     \* history: the newest device that accepted Pair or ValidatePair
  interfered    \* history: a retry thread wrote for a state that had changed

retryVars == <<retryActive, gen, attempts>>
history   == <<accepted, interfered>>
vars      == <<ctx, generation, retryVars, pc, phones, history>>

\* The states a callback leaves behind; the others last only within one.
LastingState == {"Idle", "Configuring", "VersionSent", "SynSent", "QuerySent",
                 "GetUdidSent", "GetWifiSent", "ValidatePairSent",
                 "GetPublicKeySent", "PairSent", "TrustPending", "Paired",
                 "Validated", "CryptoBlocked", "Failed"}
SessionState == {"Idle", "GetValueSent", "PairSent", "PendingTrust", "Paired",
                 "Denied", "Failed"}

Context ==
  [attached : BOOLEAN,
   state    : LastingState,
   control  : BOOLEAN,       \* SET_CONFIGURATION is in flight
   rx       : BOOLEAN,       \* a Bulk IN transfer is in flight
   txBusy   : BOOLEAN,
   out      : BOOLEAN,       \* bulkOut is in flight; queued twice, it is so once
   qCount   : Nat,
   frame    : BOOLEAN,       \* pairFrameLength is not 0
   asked    : Nat,           \* requests the phone has not answered yet
   session  : SessionState,
   ready    : BOOLEAN]

UsbPc    == {"idle", "retire", "close", "ack"}
StartPc  == {"claim", "readGeneration", "create", "unclaim", "failed"}
LoopPc   == {"sleep", "checkGeneration", "checkAttached", "checkEnded",
             "checkPending", "checkTx", "retry", "send", "submit"}
RetryPc  == LoopPc \cup {"none", "exit", "tail", "tailState", "tailGeneration"}

TypeOK ==
  /\ ctx \in Context
  /\ generation \in Nat
  /\ retryActive \in BOOLEAN
  /\ pc \in [Actors -> UsbPc \cup StartPc \cup RetryPc]
  /\ gen \in [Actors -> Nat]
  /\ attempts \in [Threads -> 0..MaxAttempts]
  /\ phones \in 0..MaxPhones
  /\ accepted \in 0..MaxPhones
  /\ interfered \in BOOLEAN

At(a, p)    == pc[a] = p
Goto(a, p)  == pc' = [pc EXCEPT ![a] = p]
Returned(a) == IF a = Usb THEN "ack" ELSE "none"

\* gCtx after memset, and a session after Reset.
Cleared ==
  [attached |-> FALSE, state |-> "Idle", control |-> FALSE, rx |-> FALSE,
   txBusy |-> FALSE, out |-> FALSE, qCount |-> 0, frame |-> FALSE, asked |-> 0,
   session |-> "Idle", ready |-> FALSE]

Init ==
  /\ ctx = Cleared
  /\ generation = 0
  /\ retryActive = FALSE
  /\ pc = [a \in Actors |-> IF a = Usb THEN "idle" ELSE "none"]
  /\ gen = [a \in Actors |-> 0]
  /\ attempts = [t \in Threads |-> 0]
  /\ phones = 0
  /\ accepted = 0 /\ interfered = FALSE

-----------------------------------------------------------------------------
(* What a handler does to the context: the set of contexts it may leave.   *)

\* Mutant of Fail: the tether driver is not told.
FailKeepsReady(c) == [c EXCEPT !.state = "Failed"]

Fail(c) == [c EXCEPT !.state = "Failed", !.ready = FALSE]

\* PumpTx: the head of the queue is given to the USB stack, or refused.
PumpTx(c) ==
  IF ~c.attached \/ c.txBusy \/ c.qCount = 0 \/ c.state = "Failed"
  THEN {c}
  ELSE {[c EXCEPT !.qCount = @ - 1, !.txBusy = TRUE, !.out = TRUE],
        Fail([c EXCEPT !.qCount = @ - 1])}

\* Enqueue: a full queue fails.  A transfer PumpTx could not start fails too,
\* but Enqueue then still returns true.
Full(c)    == c.qCount >= QueueDepth
Enqueue(c) == IF Full(c) THEN {Fail(c)} ELSE PumpTx([c EXCEPT !.qCount = @ + 1])

\* A packet is sent and the state set when Enqueue returned true, which
\* replaces a failure of PumpTx.
Send(c, next) ==
  IF Full(c) THEN {Fail(c)} ELSE {[d EXCEPT !.state = next] : d \in Enqueue(c)}

\* ... a packet that the phone will answer, if it got out.
Request(c, next) ==
  IF Full(c)
  THEN {Fail(c)}
  ELSE {[d EXCEPT !.state = next,
                  !.asked = IF d.state = "Failed" THEN @ ELSE @ + 1]
          : d \in Enqueue(c)}

\* The rest of a handler runs in the contexts that have not failed.
RequestFrom(C, next) ==
  UNION {IF c.state = "Failed" THEN {c} ELSE Request(c, next) : c \in C}

\* QueueRx at the end of RxComplete, and when the transport starts.
Rearm(C) ==
  UNION {IF c.attached /\ c.state # "Failed"
         THEN {[c EXCEPT !.rx = TRUE], Fail(c)} ELSE {c} : c \in C}

\* HandleTcp acknowledges the data it has consumed.
Acknowledge(C) ==
  UNION {IF c.state = "Failed" THEN {c} ELSE Enqueue(c) : c \in C}

Answer(C) == Rearm(Acknowledge(C))

-----------------------------------------------------------------------------
(* AddDevice and RemoveDevice.                                             *)

\* Mutant of Added: the session of the phone before is kept.
AddedKeepsSession ==
  LET c == [Cleared EXCEPT !.attached = TRUE, !.session = ctx.session]
  IN  {Fail(c), [c EXCEPT !.state = "Configuring", !.control = TRUE]}

\* Declined for its descriptors; EP0 or SET_CONFIGURATION refused, and then it
\* stays attached; or SET_CONFIGURATION on its way.  A write of the retry
\* thread in between is overwritten.
Added ==
  LET c == [Cleared EXCEPT !.attached = TRUE]
  IN  {Fail(Cleared), Fail(c),
       [c EXCEPT !.state = "Configuring", !.control = TRUE]}

AddDevice ==
  /\ At(Usb, "idle") /\ ~ctx.attached
  /\ phones < MaxPhones
  /\ phones' = phones + 1
  /\ generation' = generation + 1
  /\ ctx' \in Added
  /\ interfered' = FALSE
  /\ UNCHANGED <<retryVars, pc, accepted>>

RemoveDevice ==
  /\ At(Usb, "idle") /\ ctx.attached
  /\ ctx' = [ctx EXCEPT !.attached = FALSE, !.ready = FALSE]
  /\ Goto(Usb, "retire")
  /\ UNCHANGED <<generation, retryVars, phones, history>>

RemoveGeneration ==
  /\ At(Usb, "retire")
  /\ generation' = generation + 1
  /\ Goto(Usb, "close")
  /\ UNCHANGED <<ctx, retryVars, phones, history>>

\* Closing the endpoints returns what the USB stack still holds; the session
\* is not reset.
RemoveClose ==
  /\ At(Usb, "close")
  /\ ctx' = [Cleared EXCEPT !.session = ctx.session]
  /\ Goto(Usb, "idle")
  /\ UNCHANGED <<generation, retryVars, phones, history>>

-----------------------------------------------------------------------------
(* Completions.  A callback for a device that is gone returns at once.     *)

Callback == At(Usb, "idle") /\ ctx.attached

\* A completion that only changes the context.
Leaves(C) ==
  /\ ctx' \in C
  /\ UNCHANGED <<generation, retryVars, pc, phones, history>>

\* SET_CONFIGURATION: StartMuxTransport opens the endpoints, arms Bulk IN and
\* asks for the version.
ControlComplete ==
  LET c == [ctx EXCEPT !.control = FALSE]
  IN  /\ Callback /\ ctx.control
      /\ Leaves({Fail(c)} \cup
                IF c.state = "Configuring"
                THEN RequestFrom(Rearm({c}), "VersionSent") ELSE {})

\* TxComplete: an error, or the next packet.
TxComplete ==
  LET c == [ctx EXCEPT !.txBusy = FALSE, !.out = FALSE]
  IN  /\ Callback /\ ctx.out
      /\ Leaves({Fail(c)} \cup PumpTx(c))

\* RxComplete with a USB error, a malformed packet or a TCP reset.
RxFails ==
  /\ Callback /\ ctx.rx
  /\ Leaves({Fail([ctx EXCEPT !.rx = FALSE])})

\* A packet that answers nothing: part of a message, an ACK, or a FIN.
InStream == ctx.state \notin {"Idle", "Configuring", "VersionSent", "SynSent"}

RxOther ==
  LET c == [ctx EXCEPT !.rx = FALSE]
  IN  /\ Callback /\ ctx.rx
      /\ Leaves(Rearm({c}) \cup IF InStream THEN Answer({c}) ELSE {})

\* The phone answers the request that the state waits for.
Answered(s) == Callback /\ ctx.rx /\ ctx.asked > 0 /\ ctx.state = s
Taken       == [ctx EXCEPT !.rx = FALSE, !.asked = @ - 1]

\* Version 2 is set up, and TCP opened.
VersionReply ==
  /\ Answered("VersionSent")
  /\ Leaves({Fail(Taken)} \cup
            Rearm(RequestFrom(Send(Taken, "MuxV2"), "SynSent")))

\* SYN|ACK is acknowledged, and lockdownd asked for its type.
SynReply ==
  /\ Answered("SynSent")
  /\ Leaves({Fail(Taken)} \cup
            Rearm(RequestFrom(Send(Taken, "Connected"), "QuerySent")))

QueryReply ==
  /\ Answered("QuerySent")
  /\ Leaves(Answer({Fail(Taken)} \cup Request(Taken, "GetUdidSent")))

\* A stored record for the UDID is validated; without one a Pair flow starts.
UdidReply ==
  /\ Answered("GetUdidSent")
  /\ Leaves(Answer({Fail(Taken)} \cup Request(Taken, "ValidatePairSent")
                                 \cup Request(Taken, "GetWifiSent")))

ValidateAccepted ==
  /\ Answered("ValidatePairSent")
  /\ ctx' \in Answer({[Taken EXCEPT !.state = "Validated", !.ready = TRUE]})
  /\ accepted' = phones
  /\ UNCHANGED <<generation, retryVars, pc, phones, interfered>>

\* FallBackFromStoredPair.
ValidateRejected ==
  /\ Answered("ValidatePairSent")
  /\ Leaves(Answer(Request(Taken, "GetWifiSent")))

\* PairSession::Begin refuses a session that is not idle.
WifiReply ==
  /\ Answered("GetWifiSent")
  /\ Leaves(Answer(
       IF Taken.session = "Idle"
       THEN Request([Taken EXCEPT !.session = "GetValueSent"], "GetPublicKeySent")
       ELSE {Fail(Taken)}))

\* No crypto; a key that cannot be used; or an identity and its Pair frame.
KeyReply ==
  LET made == [Taken EXCEPT !.session = "PairSent", !.frame = TRUE]
  IN  /\ Answered("GetPublicKeySent")
      /\ Leaves(Answer({Fail(Taken), [Taken EXCEPT !.state = "CryptoBlocked"]}
           \cup IF Taken.session = "GetValueSent"
                THEN {Fail([Taken EXCEPT !.session = "Failed"])}
                       \cup Request(made, "PairSent")
                ELSE {}))

PairAnswered == Answered("PairSent") \/ Answered("TrustPending")
SessionOpen  == ctx.session \in {"PairSent", "PendingTrust"}

PairAccepted ==
  /\ PairAnswered /\ SessionOpen
  /\ ctx' \in Answer({[Taken EXCEPT !.session = "Paired", !.state = "Paired",
                                    !.ready = TRUE]})
  /\ accepted' = phones
  /\ UNCHANGED <<generation, retryVars, pc, phones, interfered>>

\* The trust dialog is open: StartTrustRetry, then the acknowledgement.
PairPending ==
  /\ PairAnswered /\ SessionOpen
  /\ ctx' = [Taken EXCEPT !.session = "PendingTrust", !.state = "TrustPending"]
  /\ Goto(Usb, "claim")
  /\ UNCHANGED <<generation, retryVars, phones, history>>

\* Denied, an error, or a reply the session does not expect.
PairRefused ==
  /\ PairAnswered
  /\ Leaves({Fail(IF SessionOpen THEN [Taken EXCEPT !.session = s] ELSE Taken)
               : s \in {"Denied", "Failed"}})

\* Mutant: a pending reply does not arm the next receive.
PendingAckForgetsRx ==
  /\ At(Usb, "ack")
  /\ ctx' \in Acknowledge({ctx})
  /\ Goto(Usb, "idle")
  /\ UNCHANGED <<generation, retryVars, phones, history>>

PendingAck ==
  /\ At(Usb, "ack")
  /\ ctx' \in Answer({ctx})
  /\ Goto(Usb, "idle")
  /\ UNCHANGED <<generation, retryVars, phones, history>>

-----------------------------------------------------------------------------
(* StartTrustRetry, called by PairPending and by a retry thread that ends. *)

StartClaim(a) ==
  /\ At(a, "claim")
  /\ Goto(a, IF retryActive THEN Returned(a) ELSE "readGeneration")
  /\ retryActive' = TRUE
  /\ UNCHANGED <<ctx, generation, gen, attempts, phones, history>>

StartReadGeneration(a) ==
  /\ At(a, "readGeneration")
  /\ gen' = [gen EXCEPT ![a] = generation]
  /\ Goto(a, "create")
  /\ UNCHANGED <<ctx, generation, retryActive, attempts, phones, history>>

StartCreated(a, t) ==
  /\ At(a, "create") /\ At(t, "none")
  /\ pc' = [pc EXCEPT ![a] = Returned(a), ![t] = "sleep"]
  /\ gen' = [gen EXCEPT ![t] = gen[a], ![a] = 0]
  /\ attempts' = [attempts EXCEPT ![t] = 0]
  /\ UNCHANGED <<ctx, generation, retryActive, phones, history>>

\* Mutant: the claim is kept when no thread could be created.
StartRefusedKeepsClaim(a) ==
  /\ At(a, "create")
  /\ Goto(a, "failed")
  /\ gen' = [gen EXCEPT ![a] = 0]
  /\ UNCHANGED <<ctx, generation, retryActive, attempts, phones, history>>

StartRefused(a) ==
  /\ At(a, "create")
  /\ Goto(a, "unclaim")
  /\ gen' = [gen EXCEPT ![a] = 0]
  /\ UNCHANGED <<ctx, generation, retryActive, attempts, phones, history>>

StartUnclaim(a) ==
  /\ At(a, "unclaim")
  /\ retryActive' = FALSE
  /\ Goto(a, "failed")
  /\ UNCHANGED <<ctx, generation, gen, attempts, phones, history>>

StartFailed(a) ==
  /\ At(a, "failed")
  /\ ctx' = Fail(ctx)
  /\ Goto(a, Returned(a))
  /\ UNCHANGED <<generation, retryVars, phones, history>>

-----------------------------------------------------------------------------
(* TrustRetryThread.                                                       *)

\* A step of the thread that only moves on.
Moves(t, from, to) ==
  /\ At(t, from)
  /\ Goto(t, to)
  /\ UNCHANGED <<ctx, generation, retryVars, phones, history>>

\* Two seconds later, unless all rounds are over.
RetryWake(t) ==
  /\ At(t, "sleep")
  /\ IF attempts[t] < MaxAttempts
     THEN /\ attempts' = [attempts EXCEPT ![t] = @ + 1]
          /\ Goto(t, "checkGeneration")
     ELSE UNCHANGED attempts /\ Goto(t, "exit")
  /\ UNCHANGED <<ctx, generation, retryActive, gen, phones, history>>

RetryCheckGeneration(t) ==
  Moves(t, "checkGeneration",
        IF generation = gen[t] THEN "checkAttached" ELSE "exit")

RetryCheckAttached(t) ==
  Moves(t, "checkAttached", IF ctx.attached THEN "checkEnded" ELSE "exit")

RetryCheckEnded(t) ==
  Moves(t, "checkEnded",
        IF ctx.state \in {"Failed", "Paired", "Validated"} THEN "exit"
                                                           ELSE "checkPending")

RetryCheckPending(t) ==
  Moves(t, "checkPending",
        IF ctx.state = "TrustPending" THEN "checkTx" ELSE "sleep")

RetryCheckTx(t) ==
  Moves(t, "checkTx",
        IF ctx.txBusy \/ ctx.qCount > 0 THEN "sleep" ELSE "retry")

\* Everything was checked in earlier steps; the state is written now.
Stale(t, s) == gen[t] # generation \/ ctx.state # s

RetryRestate(t) ==
  /\ At(t, "retry")
  /\ ctx' = [ctx EXCEPT !.state = "PairSent"]
  /\ interfered' = (interfered \/ Stale(t, "TrustPending"))
  /\ Goto(t, "send")
  /\ UNCHANGED <<generation, retryVars, phones, accepted>>

\* SendTcpPayload: without a frame, or with a full queue, the loop ends.
\* Otherwise the packet is queued and PumpTx makes its tests.
RetrySend(t) ==
  LET c == [ctx EXCEPT !.qCount = @ + 1]
  IN  /\ At(t, "send")
      /\ IF ~ctx.frame THEN ctx' = ctx /\ Goto(t, "exit")
         ELSE IF Full(ctx) THEN ctx' = Fail(ctx) /\ Goto(t, "exit")
         ELSE IF ~c.attached \/ c.txBusy \/ c.state = "Failed"
              THEN ctx' = [c EXCEPT !.asked = @ + 1] /\ Goto(t, "sleep")
              ELSE ctx' = c /\ Goto(t, "submit")
      /\ interfered' = (interfered \/ Stale(t, "PairSent"))
      /\ UNCHANGED <<generation, retryVars, phones, accepted>>

\* The rest of PumpTx: an entry that is gone has no length.
RetrySubmit(t) ==
  LET c == [ctx EXCEPT !.qCount = @ - 1]
  IN  /\ At(t, "submit")
      /\ ctx' \in IF ctx.qCount = 0 THEN {Fail(ctx)}
                  ELSE {[c EXCEPT !.txBusy = TRUE, !.out = TRUE,
                                  !.asked = @ + 1],
                        Fail([c EXCEPT !.txBusy = FALSE])}
      /\ interfered' = (interfered \/ Stale(t, "PairSent"))
      /\ Goto(t, "sleep")
      /\ UNCHANGED <<generation, retryVars, phones, accepted>>

RetryExit(t) ==
  /\ At(t, "exit")
  /\ retryActive' = FALSE
  /\ Goto(t, "tail")
  /\ UNCHANGED <<ctx, generation, gen, attempts, phones, history>>

\* Mutant: a thread that ends does not look for a newer phone.
RetryTailLeaves(t) == Moves(t, "tail", "none")

\* A newer phone that waits for trust gets a thread of its own.
RetryTail(t) ==
  Moves(t, "tail", IF ctx.attached THEN "tailState" ELSE "none")

RetryTailState(t) ==
  Moves(t, "tailState",
        IF ctx.state = "TrustPending" THEN "tailGeneration" ELSE "none")

RetryTailGeneration(t) ==
  Moves(t, "tailGeneration", IF generation # gen[t] THEN "claim" ELSE "none")

-----------------------------------------------------------------------------

StartTrustRetry(a) ==
  \/ StartClaim(a) \/ StartReadGeneration(a)
  \/ \E t \in Threads : StartCreated(a, t)
  \/ StartRefused(a) \/ StartUnclaim(a) \/ StartFailed(a)

Completion ==
  \/ ControlComplete \/ TxComplete \/ RxFails \/ RxOther
  \/ VersionReply \/ SynReply \/ QueryReply \/ UdidReply
  \/ ValidateAccepted \/ ValidateRejected \/ WifiReply \/ KeyReply
  \/ PairAccepted \/ PairPending \/ PairRefused

UsbCall == RemoveGeneration \/ RemoveClose \/ StartTrustRetry(Usb) \/ PendingAck

Retry(t) ==
  \/ RetryWake(t) \/ RetryCheckGeneration(t) \/ RetryCheckAttached(t)
  \/ RetryCheckEnded(t) \/ RetryCheckPending(t) \/ RetryCheckTx(t)
  \/ RetryRestate(t) \/ RetrySend(t) \/ RetrySubmit(t)
  \/ RetryExit(t) \/ RetryTail(t) \/ RetryTailState(t)
  \/ RetryTailGeneration(t) \/ StartTrustRetry(t)

Next ==
  \/ AddDevice \/ RemoveDevice \/ UsbCall \/ Completion
  \/ \E t \in Threads : Retry(t)

Spec == Init /\ [][Next]_vars

\* The USB thread finishes the call it is in, the stack returns transfers, and
\* threads run.  The phone may stay silent and the user may never answer.
FairSpec ==
  /\ Spec
  /\ WF_vars(UsbCall) /\ WF_vars(TxComplete)
  /\ \A t \in Threads : WF_vars(Retry(t))

-----------------------------------------------------------------------------
(* Properties that hold.                                                   *)

InLoop(t) == pc[t] \in LoopPc

\* gTrustRetryActive lets one thread at a time repeat Pair, across replugs and
\* the handoff from an ending thread.
OneRetryThread == \A t, u \in Threads : InLoop(t) /\ InLoop(u) => t = u

\* The flag is up exactly while an actor is between winning it and giving it
\* back, and it is one actor: a lost claim would leave every later dialog without
\* a retry, one that two hold would repeat Pair from both.
Claimed(a) == pc[a] \in {"readGeneration", "create", "unclaim", "exit"} \cup LoopPc

RetryClaimIsHeld ==
  /\ retryActive <=> \E a \in Actors : Claimed(a)
  /\ \A a, b \in Actors : Claimed(a) /\ Claimed(b) => a = b

\* The tether driver starts on the ready flag: it is up only for the phone that
\* is attached, after that phone accepted, and while its pairing has not failed
\* since; a failed transfer takes it down.
ReadyIsEarned ==
  ctx.ready => /\ ctx.attached /\ accepted = phones
               /\ interfered \/ ctx.state \in {"Paired", "Validated"}

\* Two machines record the progress of one pairing, gCtx.state and the session
\* of pair_session.cpp; they agree, whatever is refused on the way.
SessionAgrees ==
  ctx.attached /\ ~interfered =>
    CASE ctx.state = "GetPublicKeySent" -> ctx.session = "GetValueSent"
      [] ctx.state = "PairSent"         -> SessionOpen
      [] ctx.state = "TrustPending"     -> ctx.session = "PendingTrust"
      [] ctx.state = "Paired"           -> ctx.session = "Paired"
      [] ctx.state \in {"Failed", "CryptoBlocked"} -> TRUE
      [] OTHER                          -> ctx.session = "Idle"

\* A pairing that has not failed can still hear the phone: a receive is armed
\* whenever the callback thread is between two calls.
PairingHears ==
  (/\ At(Usb, "idle") /\ ctx.attached /\ ~interfered
   /\ ctx.state \notin {"Configuring", "Failed"})
    => ctx.rx

\* A phone that asks for trust while the thread of an earlier phone still holds
\* the flag gets a thread of its own generation.
RetryHandoff ==
  (/\ At(Usb, "claim") /\ ctx.state = "TrustPending"
   /\ \A t \in Threads : At(t, "none") \/ gen[t] # generation)
    ~> (\/ \E t \in Threads : InLoop(t) /\ gen[t] = generation
        \/ ctx.state # "TrustPending" \/ ~ctx.attached)

=============================================================================
