---------------------------- MODULE TetherQueues ----------------------------
(***************************************************************************)
(* The data path of the tether driver (tether_driver.cpp): the transmit    *)
(* queue that the Worker and the licence check fill and only the Worker    *)
(* empties, the one Bulk OUT transfer, the one Bulk IN transfer, and the   *)
(* receive queue from the USB thread to the Worker.                        *)
(*                                                                         *)
(* Both queues are rings behind a lock; nobody waits for one: who finds it *)
(* taken drops the frame or tries again in the next round.  AddDevice      *)
(* zeroes all of it, whoever is at work.  Frames are numbered as they are  *)
(* put into a queue, from 1 for each phone.                                *)
(***************************************************************************)
EXTENDS Naturals, Sequences

CONSTANTS
  TxDepth,    \* kTxDepth, 16 in the code
  RxDepth,    \* kRxFrameDepth, 32
  MaxErrors,  \* failed Bulk IN transfers that are borne, 8
  MaxSent,    \* bound: frames put into the transmit queue for one phone
  MaxCame,    \* bound: frames put into the receive queue for one phone
  PerBlock,   \* bound: frames in one transfer block
  MaxPhones   \* bound: phones in one session

ASSUME SizesAssumption ==
  /\ TxDepth \in Nat \ {0} /\ RxDepth \in Nat \ {0} /\ MaxErrors \in Nat
  /\ MaxSent \in Nat /\ MaxCame \in Nat
  /\ PerBlock \in Nat /\ MaxPhones \in Nat

Worker  == "tether Worker"
Licence == "licence check"
Usb     == "USB thread"
Nobody  == "nobody"
Threads == {Worker, Licence, Usb}

Frames == Nat \ {0}

Tx == INSTANCE FrameRing
      WITH Depth <- TxDepth, Frame <- Frames, NoFrame <- 0
Rx == INSTANCE FrameRing
      WITH Depth <- RxDepth, Frame <- Frames, NoFrame <- 0

VARIABLES
  attached,  \* gCtx.attached
  state,     \* gCtx.state
  opened,    \* the USB stack takes transfers for the two Bulk endpoints
  txq,       \* q with qHead, qTail, qCount
  txLock,    \* who holds txQueueLock
  txBusy,    \* gCtx.txBusy
  sending,   \* Bulk OUT transfers in flight
  rxq,       \* rxQ with rxQHead, rxQTail, rxQCount
  rxLock,    \* who holds rxQueueLock
  rxErrors,  \* gCtx.rxErrors
  armed,     \* the Bulk IN transfer is in flight
  block,     \* frames of the block in hand still to be handed on
  pc,        \* where each thread is
  accepted,  \* number of the last frame put into the transmit queue
  left,      \* number of the last frame taken out of it
  came,      \* number of the last frame put into the receive queue
  handed,    \* number of the last frame taken out of it
  phones,    \* devices added, for the bound
  stale      \* history: AddDevice zeroed the context under a thread's hands

device  == <<attached, state, opened>>
out     == <<txq, txLock, txBusy, sending, accepted, left>>
in      == <<rxq, rxLock, came, handed>>
receipt == <<rxErrors, armed, block>>
vars    == <<device, out, in, receipt, pc, phones, stale>>

States   == {"idle", "waiting", "ready", "failed"}
SenderPc == {"sendLock", "sendCopy", "sendIndex"}
PumpPc   == {"pumpLock", "pumpTake", "submit"}
WorkerPc == SenderPc \cup PumpPc \cup {"rest", "receive", "pop", "send", "pump"}
UsbPc    == {"idle", "block", "push", "arm", "close"}

TypeOK ==
  /\ attached \in BOOLEAN /\ state \in States /\ opened \in BOOLEAN
  /\ ~stale => txq \in Tx!Ring
  /\ rxq \in Rx!Ring
  /\ txLock \in {Worker, Licence, Nobody}
  /\ rxLock \in {Worker, Usb, Nobody}
  /\ txBusy \in BOOLEAN /\ sending \in Nat
  /\ rxErrors \in 0..(MaxErrors + 1) /\ armed \in BOOLEAN
  /\ block \in 0..PerBlock
  /\ pc \in [Threads -> WorkerPc \cup UsbPc]
  /\ pc[Worker] \in WorkerPc /\ pc[Usb] \in UsbPc
  /\ pc[Licence] \in SenderPc \cup {"rest"}
  /\ {accepted, left, came, handed} \subseteq Nat
  /\ phones \in 0..MaxPhones
  /\ stale \in BOOLEAN

At(t, p)   == pc[t] = p
Goto(t, p) == pc' = [pc EXCEPT ![t] = p]

Ready == attached /\ state = "ready"
Fail  == state' = "failed"

Zeroed ==
  /\ txq' = Tx!EmptyRing /\ txLock' = Nobody /\ txBusy' = FALSE
  /\ rxq' = Rx!EmptyRing /\ rxLock' = Nobody
  /\ rxErrors' = 0
  /\ accepted' = 0 /\ left' = 0 /\ came' = 0 /\ handed' = 0

Init ==
  /\ attached = FALSE /\ state = "idle" /\ opened = FALSE
  /\ txq = Tx!EmptyRing /\ txLock = Nobody /\ txBusy = FALSE /\ sending = 0
  /\ rxq = Rx!EmptyRing /\ rxLock = Nobody
  /\ rxErrors = 0 /\ armed = FALSE /\ block = 0
  /\ pc = [t \in Threads |-> IF t = Usb THEN "idle" ELSE "rest"]
  /\ accepted = 0 /\ left = 0 /\ came = 0 /\ handed = 0
  /\ phones = 0 /\ stale = FALSE

-----------------------------------------------------------------------------
(* SendEthernet, for the Worker's own stack and the native bridge, and for *)
(* the licence check.                                                      *)

BeforeSend(t) == IF t = Worker THEN "send" ELSE "rest"

\* A round of the Worker sends a few frames; one stands for them.
AfterSend(t) == IF t = Worker THEN "pump" ELSE "rest"

SendStarts(t) ==
  /\ At(t, BeforeSend(t))
  /\ Ready /\ accepted < MaxSent
  /\ Goto(t, "sendLock")
  /\ UNCHANGED <<device, out, in, receipt, phones, stale>>

SendLocks(t) ==
  /\ At(t, "sendLock") /\ txLock = Nobody
  /\ txLock' = t
  /\ Goto(t, "sendCopy")
  /\ UNCHANGED <<device, txq, txBusy, sending, accepted, left, in, receipt,
                 phones, stale>>

\* Mutant of SendGivesUp: the copy goes on without the lock.
SendGoesOn(t) ==
  /\ At(t, "sendLock") /\ txLock # Nobody
  /\ Goto(t, "sendCopy")
  /\ UNCHANGED <<device, out, in, receipt, phones, stale>>

\* The lock stays taken for 512 tries.
SendGivesUp(t) ==
  /\ At(t, "sendLock") /\ txLock # Nobody
  /\ Goto(t, AfterSend(t))
  /\ UNCHANGED <<device, out, in, receipt, phones, stale>>

\* A full queue drops the new frame.  Whoever adds a frame under the lock
\* finds the number of the next one; the count is not looked at again.
SendCopies(t) ==
  /\ At(t, "sendCopy")
  /\ IF txq.count = TxDepth
     THEN /\ txLock' = Nobody
          /\ Goto(t, AfterSend(t))
          /\ UNCHANGED txq
     ELSE /\ txq' = Tx!Filled(txq, accepted + 1)
          /\ Goto(t, "sendIndex")
          /\ UNCHANGED txLock
  /\ UNCHANGED <<device, txBusy, sending, accepted, left, in, receipt, phones,
                 stale>>

SendAppends(t) ==
  /\ At(t, "sendIndex")
  /\ txq' = Tx!Appended(txq)
  /\ accepted' = accepted + 1
  /\ txLock' = Nobody
  /\ Goto(t, AfterSend(t))
  /\ UNCHANGED <<device, txBusy, sending, left, in, receipt, phones, stale>>

SendStep(t) ==
  SendLocks(t) \/ SendGivesUp(t) \/ SendCopies(t) \/ SendAppends(t)

-----------------------------------------------------------------------------
(* A round of the Worker: frames that came, frames to send, the transfer.  *)

RoundStarts ==
  /\ At(Worker, "rest") /\ Ready
  /\ Goto(Worker, "receive")
  /\ UNCHANGED <<device, out, in, receipt, phones, stale>>

\* PopEthernet tries the lock once, and the round has no more frames if the
\* USB thread has it.
PopTries ==
  /\ At(Worker, "receive")
  /\ IF rxLock = Nobody
     THEN rxLock' = Worker /\ Goto(Worker, "pop")
     ELSE UNCHANGED rxLock /\ Goto(Worker, "send")
  /\ UNCHANGED <<device, out, rxq, came, handed, receipt, phones, stale>>

Pops ==
  /\ At(Worker, "pop")
  /\ IF rxq.count = 0
     THEN UNCHANGED <<rxq, handed>> /\ Goto(Worker, "send")
     ELSE /\ handed' = Rx!First(rxq)
          /\ rxq' = Rx!Removed(rxq)
          /\ Goto(Worker, "receive")
  /\ rxLock' = Nobody
  /\ UNCHANGED <<device, out, came, receipt, phones, stale>>

\* No more to send in this round.
SendsDone ==
  /\ At(Worker, "send")
  /\ Goto(Worker, "pump")
  /\ UNCHANGED <<device, out, in, receipt, phones, stale>>

\* Mutant of PumpTx: what is in flight is not asked for.
PumpTxUnasked ==
  /\ At(Worker, "pump")
  /\ IF Ready
     THEN txBusy' = TRUE /\ Goto(Worker, "pumpLock")
     ELSE UNCHANGED txBusy /\ Goto(Worker, "rest")
  /\ UNCHANGED <<device, txq, txLock, sending, accepted, left, in, receipt,
                 phones, stale>>

PumpTx ==
  /\ At(Worker, "pump")
  /\ IF Ready /\ ~txBusy
     THEN txBusy' = TRUE /\ Goto(Worker, "pumpLock")
     ELSE UNCHANGED txBusy /\ Goto(Worker, "rest")
  /\ UNCHANGED <<device, txq, txLock, sending, accepted, left, in, receipt,
                 phones, stale>>

\* Mutant of PumpLocks: the early return keeps the mark.
PumpLocksOrKeeps ==
  /\ At(Worker, "pumpLock")
  /\ IF txLock = Nobody
     THEN txLock' = Worker /\ Goto(Worker, "pumpTake")
     ELSE Goto(Worker, "rest") /\ UNCHANGED txLock
  /\ UNCHANGED <<device, txq, txBusy, sending, accepted, left, in, receipt,
                 phones, stale>>

PumpLocks ==
  /\ At(Worker, "pumpLock")
  /\ IF txLock = Nobody
     THEN txLock' = Worker /\ Goto(Worker, "pumpTake") /\ UNCHANGED txBusy
     ELSE txBusy' = FALSE /\ Goto(Worker, "rest") /\ UNCHANGED txLock
  /\ UNCHANGED <<device, txq, sending, accepted, left, in, receipt, phones,
                 stale>>

\* An empty queue ends the round; a slot without a length is an error.
PumpTakes ==
  /\ At(Worker, "pumpTake")
  /\ txLock' = Nobody
  /\ IF txq.count = 0 \/ Tx!First(txq) = 0
     THEN /\ txBusy' = FALSE
          /\ IF txq.count = 0 THEN UNCHANGED state ELSE Fail
          /\ Goto(Worker, "rest")
          /\ UNCHANGED <<txq, left>>
     ELSE /\ left' = Tx!First(txq)
          /\ txq' = Tx!Removed(txq)
          /\ Goto(Worker, "submit")
          /\ UNCHANGED <<txBusy, state>>
  /\ UNCHANGED <<attached, opened, sending, accepted, in, receipt, phones,
                 stale>>

\* The USB stack takes the transfer, if it has the endpoint, or refuses it.
Submits ==
  /\ At(Worker, "submit")
  /\ \/ opened /\ sending' = sending + 1 /\ UNCHANGED <<txBusy, state>>
     \/ txBusy' = FALSE /\ Fail /\ UNCHANGED sending
  /\ Goto(Worker, "rest")
  /\ UNCHANGED <<attached, opened, txq, txLock, accepted, left, in, receipt,
                 phones, stale>>

WorkerStep ==
  \/ RoundStarts \/ PopTries \/ Pops \/ SendsDone
  \/ PumpTx \/ PumpLocks \/ PumpTakes \/ Submits
  \/ SendStep(Worker)

-----------------------------------------------------------------------------
(* The USB thread: the device and the completions, one at a time.          *)

\* The whole context is zeroed; the threads are where they are.
AddDevice ==
  /\ At(Usb, "idle") /\ ~attached /\ phones < MaxPhones
  /\ phones' = phones + 1
  /\ attached' = TRUE /\ state' = "waiting"
  /\ Zeroed
  /\ stale' = (pc[Worker] # "rest" \/ pc[Licence] # "rest")
  /\ UNCHANGED <<opened, sending, armed, block, pc>>

\* The set-up ends: OpenDataEndpoints, or a failure.
OpensData ==
  /\ At(Usb, "idle") /\ attached /\ state = "waiting"
  /\ \/ opened' = TRUE /\ state' = "ready" /\ Goto(Usb, "arm")
     \/ Fail /\ UNCHANGED <<opened, pc>>
  /\ UNCHANGED <<attached, out, in, receipt, phones, stale>>

\* QueueRx.
Arms ==
  /\ At(Usb, "arm")
  /\ Goto(Usb, "idle")
  /\ IF Ready
     THEN \/ armed' = TRUE /\ UNCHANGED state
          \/ Fail /\ UNCHANGED armed
     ELSE UNCHANGED <<armed, state>>
  /\ UNCHANGED <<attached, opened, out, in, rxErrors, block, phones, stale>>

\* RxComplete with an error: after too many the driver fails.
RxFails ==
  /\ At(Usb, "idle") /\ armed /\ attached
  /\ armed' = FALSE
  /\ rxErrors' = IF rxErrors > MaxErrors THEN rxErrors ELSE rxErrors + 1
  /\ IF rxErrors' > MaxErrors
     THEN Fail /\ UNCHANGED pc
     ELSE UNCHANGED state /\ Goto(Usb, "arm")
  /\ UNCHANGED <<attached, opened, out, in, block, phones, stale>>

\* A block that DecodeIphethRx does not take: it counts, but never fails.
RxMalformed ==
  /\ At(Usb, "idle") /\ armed /\ attached
  /\ armed' = FALSE
  /\ rxErrors' = IF rxErrors > MaxErrors THEN rxErrors ELSE rxErrors + 1
  /\ Goto(Usb, "arm")
  /\ UNCHANGED <<device, out, in, block, phones, stale>>

\* A block with frames: the errors so far are forgiven.
RxComes ==
  /\ At(Usb, "idle") /\ armed /\ attached
  /\ armed' = FALSE
  /\ \E n \in 0..PerBlock :
       /\ came + n <= MaxCame
       /\ block' = n
       /\ rxErrors' = IF n = 0 THEN rxErrors ELSE 0
  /\ Goto(Usb, "block")
  /\ UNCHANGED <<device, out, in, phones, stale>>

\* ConsumeEthernet tries the lock once, and drops the frame if the Worker has
\* it.
Consumes ==
  /\ At(Usb, "block") /\ block > 0
  /\ block' = block - 1
  /\ IF rxLock = Nobody
     THEN rxLock' = Usb /\ Goto(Usb, "push")
     ELSE UNCHANGED <<rxLock, pc>>
  /\ UNCHANGED <<device, out, rxq, came, handed, rxErrors, armed, phones,
                 stale>>

\* A full queue drops the new frame.
Pushes ==
  /\ At(Usb, "push")
  /\ rxLock' = Nobody
  /\ IF rxq.count = RxDepth
     THEN UNCHANGED <<rxq, came>>
     ELSE /\ rxq' = Rx!Appended(Rx!Filled(rxq, came + 1))
          /\ came' = came + 1
  /\ Goto(Usb, "block")
  /\ UNCHANGED <<device, out, handed, receipt, phones, stale>>

BlockEnds ==
  /\ At(Usb, "block") /\ block = 0
  /\ Goto(Usb, "arm")
  /\ UNCHANGED <<device, out, in, receipt, phones, stale>>

\* TxComplete: whatever the status, another transfer may go out.
TxComplete ==
  /\ At(Usb, "idle") /\ sending > 0
  /\ sending' = sending - 1
  /\ txBusy' = FALSE
  /\ UNCHANGED state \/ (attached /\ Fail)
  /\ UNCHANGED <<attached, opened, txq, txLock, accepted, left, in, receipt,
                 pc, phones, stale>>

RemoveDevice ==
  /\ At(Usb, "idle") /\ attached
  /\ attached' = FALSE
  /\ Goto(Usb, "close")
  /\ UNCHANGED <<state, opened, out, in, receipt, phones, stale>>

\* The endpoints are closed; a transfer still in flight is given back to
\* TxComplete or forgotten.
Closes ==
  /\ At(Usb, "close")
  /\ opened' = FALSE /\ armed' = FALSE /\ sending' = 0
  /\ txBusy' \in {txBusy, txBusy /\ sending = 0}
  /\ Goto(Usb, "idle")
  /\ UNCHANGED <<attached, state, txq, txLock, accepted, left, in, rxErrors,
                 block, phones, stale>>

UsbStep == Arms \/ Consumes \/ Pushes \/ BlockEnds \/ Closes

UsbEvent ==
  \/ AddDevice \/ OpensData \/ RemoveDevice
  \/ RxFails \/ RxMalformed \/ RxComes

Next ==
  \/ WorkerStep \/ SendStep(Licence)
  \/ \E t \in {Worker, Licence} : SendStarts(t)
  \/ UsbStep \/ UsbEvent \/ TxComplete

\* The threads go on with what they do, and the USB stack completes what it
\* has taken; it owes no data and no device.
Spec == Init /\ [][Next]_vars
        /\ WF_vars(WorkerStep) /\ WF_vars(SendStep(Licence))
        /\ WF_vars(UsbStep) /\ SF_vars(TxComplete)

-----------------------------------------------------------------------------
(* Properties.                                                             *)

\* The driver knows its transfers.  txBusy is up exactly while one Bulk OUT
\* transfer is in flight or the Worker, which has raised it, is on its way to
\* one: so the one buffer is not written while it is sent, and no early return,
\* refusal or failed transfer leaves the flag up, which would end all sending.
\* And while the driver is ready, a Bulk IN transfer is armed: every way through
\* RxComplete asks for the next block or fails the driver.  A Worker that a
\* replug has overtaken (stale) may submit into the new phone's context.
TransfersAreKnown ==
  /\ attached /\ ~stale =>
       /\ txBusy <=> sending = 1 \/ pc[Worker] \in PumpPc
       /\ sending <= 1 /\ ~(sending = 1 /\ pc[Worker] \in PumpPc)
  /\ Ready /\ At(Usb, "idle") => armed

Numbers(from, to) == [i \in 1..(to - from) |-> from + i]

\* With producers and a consumer that only try the lock, each queue holds
\* exactly what was accepted and has not left, in its order.
FramesInOrder ==
  ~stale => /\ Tx!Content(txq) = Numbers(left, accepted)
            /\ Rx!Content(rxq) = Numbers(handed, came)

\* What was accepted is sent, as long as the phone is there and working, once
\* the licence check, which has a deadline, is over: until then its attempts
\* to send may take the lock at each of the Worker's rounds.
FramesLeave ==
  <>[]At(Licence, "rest") =>
  \A n \in 1..MaxSent : (Ready /\ accepted >= n) ~> (left >= n \/ ~Ready)
=============================================================================
