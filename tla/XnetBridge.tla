----------------------------- MODULE XnetBridge -----------------------------
(***************************************************************************)
(* The bridge between the console's network stack and the iPhone           *)
(* (native_net/xnet_bridge.cpp).                                           *)
(*                                                                         *)
(* XAM calls the transmit callback on threads of its own; the tether       *)
(* Worker injects, pops, and switches the bridge; RemoveDevice switches it *)
(* off on the USB thread.  The queue and the MAC addresses are behind two  *)
(* locks that are tried for a bounded number of spins: a thread that finds *)
(* one taken for long enough gives up, and what it does then is part of    *)
(* each operation.                                                         *)
(*                                                                         *)
(* A frame is a number and the phone that was connected when XAM sent it;  *)
(* its source address is drawn where it is used.  tether_mac is written    *)
(* and read by the Worker only, and left out as contents, counters and the *)
(* translation are.                                                        *)
(***************************************************************************)
EXTENDS Naturals, Sequences

CONSTANTS
  Xam,        \* XAM's transmitting threads
  Worker,     \* the tether Worker
  Usb,        \* the USB callback thread
  Macs,       \* usable source addresses
  Nobody,     \* no holder, no address, no frame
  Depth,      \* kQueueDepth, 64 in the code
  MaxPhones,  \* bound: phones in one session
  MaxFrames   \* bound: frames XAM sends

ASSUME ActorsAssumption == Worker # Usb /\ {Worker, Usb} \cap Xam = {}
ASSUME BoundsAssumption ==
  Depth \in Nat \ {0} /\ MaxPhones \in Nat /\ MaxFrames \in Nat

Actors == Xam \cup {Worker, Usb}

VARIABLES
  active,       \* gBridge.active
  registered,   \* gBridge.registered
  queue,        \* gBridge.queue with head, tail and count
  queueLock,    \* the actor that holds queue_lock
  stateLock,    \* the actor that holds state_lock
  nativeMac,    \* gBridge.native_mac
  macValid,     \* gBridge.native_mac_valid
  announce,     \* gBridge.native_mac_announce
  pc,           \* where each actor is
  frame,        \* the frame an actor is working on
  attached,     \* the tether driver's gCtx.attached
  phone,        \* the phone that is or was last connected
  served,       \* the phone the Worker was started for
  sent,         \* number of frames XAM has sent, for the bound
  leaky         \* history: a queue was not flushed for a phone that left, or
                \* the bridge was activated for one

Frame == [id : 1..MaxFrames, phone : 1..MaxPhones, late : BOOLEAN]

ASSUME NobodyAssumption == Nobody \notin Actors \cup Frame

R == INSTANCE FrameRing WITH NoFrame <- Nobody

locks   == <<queueLock, stateLock>>
macs    == <<nativeMac, macValid, announce>>
phones  == <<attached, phone, served>>
bridge  == <<active, registered>>
work    == <<frame, sent, leaky>>
vars    == <<bridge, queue, locks, macs, pc, phones, work>>

XamPc    == {"none", "capture", "captureLock", "captureAgain", "copy", "queue",
             "fill", "append", "drop"}
FlushPc  == {"flush", "clear"}
WorkerPc == {"none", "round", "inject", "injectLock", "injectRead", "update",
             "updateLock", "updateStore", "register", "activate", "pop",
             "take", "remove", "translate", "translateRead", "report",
             "reportRead"} \cup FlushPc
UsbPc    == {"idle", "pause"} \cup FlushPc

TypeOK ==
  /\ active \in BOOLEAN /\ registered \in BOOLEAN
  /\ queue \in R!Ring
  /\ queueLock \in Actors \cup {Nobody}
  /\ stateLock \in Actors \cup {Nobody}
  /\ nativeMac \in Macs \cup {Nobody, "half"}
  /\ macValid \in BOOLEAN /\ announce \in BOOLEAN
  /\ pc \in [Actors -> XamPc \cup WorkerPc \cup UsbPc]
  /\ frame \in [Xam \cup {Worker} -> Frame \cup {Nobody}]
  /\ attached \in BOOLEAN
  /\ phone \in 0..MaxPhones /\ served \in 0..MaxPhones
  /\ sent \in 0..MaxFrames
  /\ leaky \in BOOLEAN

At(a, p)   == pc[a] = p
Goto(a, p) == pc' = [pc EXCEPT ![a] = p]
Forget(a)  == frame' = [frame EXCEPT ![a] = Nobody]

Init ==
  /\ active = FALSE /\ registered = FALSE
  /\ queue = R!EmptyRing
  /\ queueLock = Nobody /\ stateLock = Nobody
  /\ nativeMac = Nobody /\ macValid = FALSE /\ announce = FALSE
  /\ pc = [a \in Actors |-> IF a = Usb THEN "idle" ELSE "none"]
  /\ frame = [a \in Xam \cup {Worker} |-> Nobody]
  /\ attached = FALSE /\ phone = 0 /\ served = 0
  /\ sent = 0 /\ leaky = FALSE

-----------------------------------------------------------------------------
(* TryLock: the lock is taken if it is free, and given up if it is held    *)
(* for as long as the spins last.                                          *)

TryQueueLock(a, taken_, given) ==
  \/ queueLock = Nobody /\ queueLock' = a /\ Goto(a, taken_)
  \/ queueLock # Nobody /\ UNCHANGED queueLock /\ Goto(a, given)

TryStateLock(a, taken_, given) ==
  \/ stateLock = Nobody /\ stateLock' = a /\ Goto(a, taken_)
  \/ stateLock # Nobody /\ UNCHANGED stateLock /\ Goto(a, given)

-----------------------------------------------------------------------------
(* XboxTransmitCallback.                                                   *)

\* A frame while the bridge is active.  Others are only counted.
Transmit(x) ==
  /\ At(x, "none") /\ registered /\ active
  /\ sent < MaxFrames
  /\ sent' = sent + 1
  /\ frame' = [frame EXCEPT ![x] = [id |-> sent + 1, phone |-> phone,
                                    late |-> FALSE]]
  /\ Goto(x, "capture")
  /\ UNCHANGED <<bridge, queue, locks, macs, phones, leaky>>

\* CaptureNativeMac: nothing to do, or state_lock, or the frame is dropped.
Capture(x) ==
  /\ At(x, "capture")
  /\ Goto(x, IF macValid THEN "queue" ELSE "captureLock")
  /\ UNCHANGED <<bridge, queue, locks, macs, phones, work>>

CaptureLock(x) ==
  /\ At(x, "captureLock")
  /\ TryStateLock(x, "captureAgain", "drop")
  /\ UNCHANGED <<bridge, queue, queueLock, macs, phones, work>>

\* Another thread may have captured its address in between.
CaptureAgain(x) ==
  /\ At(x, "captureAgain")
  /\ IF macValid THEN /\ Goto(x, "queue")
                      /\ stateLock' = Nobody
                      /\ UNCHANGED nativeMac
                 ELSE /\ Goto(x, "copy")
                      /\ nativeMac' = "half"
                      /\ UNCHANGED stateLock
  /\ UNCHANGED <<bridge, queue, queueLock, macValid, announce, phones, work>>

CaptureDone(x) ==
  /\ At(x, "copy")
  /\ \E m \in Macs : nativeMac' = m
  /\ macValid' = TRUE /\ announce' = TRUE
  /\ stateLock' = Nobody
  /\ Goto(x, "queue")
  /\ UNCHANGED <<bridge, queue, queueLock, phones, work>>

\* Mutant of TransmitLock: the lock is taken whoever holds it.
TransmitLockUntested(x) ==
  /\ At(x, "queue")
  /\ IF queue.count < Depth
     THEN queueLock' = x /\ Goto(x, "fill")
     ELSE UNCHANGED queueLock /\ Goto(x, "drop")
  /\ UNCHANGED <<bridge, queue, stateLock, macs, phones, work>>

\* queue_lock is taken and the queue not full, or the frame is dropped.
TransmitLock(x) ==
  /\ At(x, "queue")
  /\ IF queueLock = Nobody /\ queue.count < Depth
     THEN queueLock' = x /\ Goto(x, "fill")
     ELSE UNCHANGED queueLock /\ Goto(x, "drop")
  /\ UNCHANGED <<bridge, queue, stateLock, macs, phones, work>>

TransmitFill(x) ==
  /\ At(x, "fill")
  /\ queue' = R!Filled(queue, frame[x])
  /\ Goto(x, "append")
  /\ UNCHANGED <<bridge, locks, macs, phones, work>>

TransmitAppend(x) ==
  /\ At(x, "append")
  /\ queue' = R!Appended(queue)
  /\ queueLock' = Nobody
  /\ Goto(x, "none") /\ Forget(x)
  /\ UNCHANGED <<bridge, stateLock, macs, phones, sent, leaky>>

TransmitDrops(x) ==
  /\ At(x, "drop")
  /\ Goto(x, "none") /\ Forget(x)
  /\ UNCHANGED <<bridge, queue, locks, macs, phones, sent, leaky>>

-----------------------------------------------------------------------------
(* FlushQueue, called by UpdateTransportState and PhoneDetached.           *)

Flushed(a) == IF a = Usb THEN "idle" ELSE "pop"

\* Without the lock the frames stay.
FlushLock(a) ==
  /\ At(a, "flush")
  /\ TryQueueLock(a, "clear", Flushed(a))
  /\ leaky' = (leaky \/ (a = Usb /\ queueLock # Nobody))
  /\ UNCHANGED <<bridge, queue, stateLock, macs, phones, frame, sent>>

FlushClear(a) ==
  /\ At(a, "clear")
  /\ queue' = R!EmptyRing
  /\ queueLock' = Nobody
  /\ Goto(a, Flushed(a))
  /\ UNCHANGED <<bridge, stateLock, macs, phones, work>>

-----------------------------------------------------------------------------
(* The Worker's round.                                                     *)

Moves(from, to) ==
  /\ At(Worker, from)
  /\ Goto(Worker, to)
  /\ UNCHANGED <<bridge, queue, locks, macs, phones, work>>

WorkerStart ==
  /\ At(Worker, "none") /\ attached
  /\ served' = phone
  /\ Goto(Worker, "round")
  /\ UNCHANGED <<bridge, queue, locks, macs, attached, phone, work>>

\* A Worker whose phone has left ends.
WorkerRound ==
  Moves("round", IF attached /\ served = phone THEN "inject" ELSE "none")

\* InjectIphoneFrame, for each frame received: only while the bridge is
\* active and registered, and with both addresses.
WorkerInject ==
  \/ active /\ registered /\ Moves("inject", "injectLock")
  \/ Moves("inject", "update")

InjectLock ==
  /\ At(Worker, "injectLock")
  /\ TryStateLock(Worker, "injectRead", "inject")
  /\ UNCHANGED <<bridge, queue, queueLock, macs, phones, work>>

InjectRead ==
  /\ At(Worker, "injectRead")
  /\ stateLock' = Nobody
  /\ Goto(Worker, "inject")
  /\ UNCHANGED <<bridge, queue, queueLock, macs, phones, work>>

\* UpdateTransportState(transport_ready, licence_allows, mac).
UpdateDisable ==
  /\ At(Worker, "update")
  /\ active' = FALSE
  /\ Goto(Worker, IF active THEN "flush" ELSE "pop")
  /\ UNCHANGED <<registered, queue, locks, macs, phones, work>>

UpdateEnable == Moves("update", "updateLock")

UpdateLock ==
  /\ At(Worker, "updateLock")
  /\ TryStateLock(Worker, "updateStore", "pop")
  /\ UNCHANGED <<bridge, queue, queueLock, macs, phones, work>>

UpdateStore ==
  /\ At(Worker, "updateStore")
  /\ stateLock' = Nobody
  /\ Goto(Worker, "register")
  /\ UNCHANGED <<bridge, queue, queueLock, macs, phones, work>>

\* RegisterCallbacks: XAM accepts them once, or refuses.
RegisterAccepted ==
  /\ At(Worker, "register")
  /\ registered' = TRUE
  /\ Goto(Worker, "activate")
  /\ UNCHANGED <<active, queue, locks, macs, phones, work>>

RegisterRefused ==
  /\ At(Worker, "register") /\ ~registered
  /\ active' = FALSE
  /\ Goto(Worker, "pop")
  /\ UNCHANGED <<registered, queue, locks, macs, phones, work>>

UpdateActivate ==
  /\ At(Worker, "activate")
  /\ active' = TRUE
  /\ leaky' = (leaky \/ ~attached \/ served # phone)
  /\ Goto(Worker, "pop")
  /\ UNCHANGED <<registered, queue, locks, macs, phones, frame, sent>>

\* PopXboxTransmit, up to eight times.
PopLock ==
  /\ At(Worker, "pop")
  /\ IF queueLock = Nobody /\ queue.count > 0
     THEN queueLock' = Worker /\ Goto(Worker, "take")
     ELSE UNCHANGED queueLock /\ Goto(Worker, "report")
  /\ UNCHANGED <<bridge, queue, stateLock, macs, phones, work>>

PopEnds == Moves("pop", "report")

PopTake ==
  /\ At(Worker, "take")
  /\ frame' = [frame EXCEPT ![Worker] = R!First(queue)]
  /\ Goto(Worker, "remove")
  /\ UNCHANGED <<bridge, queue, locks, macs, phones, sent, leaky>>

PopRemove ==
  /\ At(Worker, "remove")
  /\ queue' = R!Removed(queue)
  /\ queueLock' = Nobody
  /\ Goto(Worker, "translate")
  /\ UNCHANGED <<bridge, stateLock, macs, phones, work>>

\* Without the addresses the frame is dropped, and the drain ends.
PopTranslate ==
  /\ At(Worker, "translate")
  /\ TryStateLock(Worker, "translateRead", "report")
  /\ IF stateLock = Nobody THEN UNCHANGED frame ELSE Forget(Worker)
  /\ UNCHANGED <<bridge, queue, queueLock, macs, phones, sent, leaky>>

PopTranslated ==
  /\ At(Worker, "translateRead")
  /\ stateLock' = Nobody
  /\ Goto(Worker, IF macValid THEN "pop" ELSE "report")
  /\ Forget(Worker)
  /\ UNCHANGED <<bridge, queue, queueLock, macs, phones, sent, leaky>>

\* ReportDiagnostics reads the address for the log, once, or loses it.
Report ==
  /\ At(Worker, "report")
  /\ announce' = FALSE
  /\ IF announce THEN TryStateLock(Worker, "reportRead", "round")
                 ELSE UNCHANGED stateLock /\ Goto(Worker, "round")
  /\ UNCHANGED <<bridge, queue, queueLock, nativeMac, macValid, phones, work>>

ReportRead ==
  /\ At(Worker, "reportRead")
  /\ stateLock' = Nobody
  /\ Goto(Worker, "round")
  /\ UNCHANGED <<bridge, queue, queueLock, macs, phones, work>>

-----------------------------------------------------------------------------
(* The USB thread.                                                         *)

AddDevice ==
  /\ At(Usb, "idle") /\ ~attached /\ phone < MaxPhones
  /\ attached' = TRUE /\ phone' = phone + 1
  /\ UNCHANGED <<bridge, queue, locks, macs, pc, served, work>>

RemoveDevice ==
  /\ At(Usb, "idle") /\ attached
  /\ attached' = FALSE
  /\ Goto(Usb, "pause")
  /\ UNCHANGED <<bridge, queue, locks, macs, phone, served, work>>

\* Mutant of PhoneDetached: the queue is not flushed.
PhoneDetachedKeepsQueue ==
  /\ At(Usb, "pause")
  /\ active' = FALSE
  /\ frame' = [a \in DOMAIN frame |->
                 IF a \in Xam /\ ~At(a, "none")
                 THEN [frame[a] EXCEPT !.late = TRUE] ELSE frame[a]]
  /\ Goto(Usb, "idle")
  /\ UNCHANGED <<registered, queue, locks, macs, phones, sent, leaky>>

\* PhoneDetached.  Callbacks that have passed their test are late.
PhoneDetached ==
  /\ At(Usb, "pause")
  /\ active' = FALSE
  /\ frame' = [a \in DOMAIN frame |->
                 IF a \in Xam /\ ~At(a, "none")
                 THEN [frame[a] EXCEPT !.late = TRUE] ELSE frame[a]]
  /\ Goto(Usb, "flush")
  /\ UNCHANGED <<registered, queue, locks, macs, phones, sent, leaky>>

-----------------------------------------------------------------------------

XboxTransmitCallback(x) ==
  \/ Transmit(x) \/ Capture(x) \/ CaptureLock(x) \/ CaptureAgain(x)
  \/ CaptureDone(x) \/ TransmitLock(x)
  \/ TransmitFill(x) \/ TransmitAppend(x) \/ TransmitDrops(x)

FlushQueue(a) == FlushLock(a) \/ FlushClear(a)

WorkerStep ==
  \/ WorkerStart \/ WorkerRound
  \/ WorkerInject \/ InjectLock \/ InjectRead
  \/ UpdateDisable \/ UpdateEnable \/ UpdateLock \/ UpdateStore
  \/ RegisterAccepted \/ RegisterRefused \/ UpdateActivate
  \/ PopLock \/ PopEnds \/ PopTake \/ PopRemove
  \/ PopTranslate \/ PopTranslated \/ Report \/ ReportRead

Next ==
  \/ AddDevice \/ RemoveDevice \/ PhoneDetached
  \/ \E a \in {Worker, Usb} : FlushQueue(a)
  \/ WorkerStep
  \/ \E x \in Xam : XboxTransmitCallback(x)

Spec == Init /\ [][Next]_vars

-----------------------------------------------------------------------------
(* Properties.                                                             *)

\* The queue is a bounded FIFO although four threads work on its words: every
\* frame leaves once, in order, and none appears from a slot half written.
Fifo == INSTANCE FrameQueue
          WITH frames <- R!Content(queue),
               taken  <- IF At(Worker, "remove") THEN Nobody ELSE frame[Worker],
               NoFrame <- Nobody
QueueIsFifo == Fifo!Spec

\* A frame meets the next phone only if its callback overlapped RemoveDevice,
\* the flush was refused, or a stale Worker switched the bridge on.
OnlyLateFramesCross ==
  \A i \in 1..queue.count :
    LET f == R!Content(queue)[i]
    IN  f.phone # phone => f.late \/ leaky
=============================================================================
