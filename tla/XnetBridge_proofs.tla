------------------------- MODULE XnetBridge_proofs --------------------------
(***************************************************************************)
(* Proofs that the queue of XnetBridge is a bounded FIFO, and of which     *)
(* frames another phone can meet in it, for any number of transmitting     *)
(* threads, phones and frames and any size of the queue.                   *)
(***************************************************************************)
EXTENDS XnetBridge, TLAPS

P == INSTANCE FrameRing_proofs WITH NoFrame <- Nobody

LEMMA QueueRing ==
  /\ P!Tight(R!EmptyRing) /\ R!Content(R!EmptyRing) = <<>>
  /\ \A r : P!Tight(r) =>
       /\ r.count \in 0..Depth /\ Len(R!Content(r)) = r.count
       /\ R!Content(r) \in Seq(Frame \cup {Nobody})
       /\ r.count < Depth => \A f \in Frame :
            /\ P!Tight(R!Filled(r, f))
            /\ R!Content(R!Filled(r, f)) = R!Content(r)
            /\ R!Filled(r, f).count = r.count
            /\ R!Filled(r, f).slot[R!Filled(r, f).tail] = f
       /\ r.count < Depth =>
            /\ P!Tight(R!Appended(r))
            /\ R!Content(R!Appended(r)) =
                 Append(R!Content(r), r.slot[r.tail])
       /\ r.count > 0 =>
            /\ P!Tight(R!Removed(r))
            /\ R!Content(r) # <<>>
            /\ R!First(r) = Head(R!Content(r))
            /\ R!Content(R!Removed(r)) = Tail(R!Content(r))
<1> USE BoundsAssumption
<1>1. P!EmptyRing = R!EmptyRing
  BY DEF P!EmptyRing, R!EmptyRing, P!Slots, R!Slots
<1>2. \A r : P!Content(r) = R!Content(r)
  BY DEF P!Content, R!Content
<1>3. \A r, f : P!Filled(r, f) = R!Filled(r, f)
  BY DEF P!Filled, R!Filled
<1>4. \A r : P!Appended(r) = R!Appended(r)
  BY DEF P!Appended, R!Appended
<1>5. \A r : P!Removed(r) = R!Removed(r) /\ P!First(r) = R!First(r)
  BY DEF P!Removed, R!Removed, P!First, R!First
<1>6. ASSUME NEW r, P!Tight(r)
      PROVE  /\ r.count \in 0..Depth /\ Len(R!Content(r)) = r.count
             /\ R!Content(r) \in Seq(Frame \cup {Nobody})
  <2>1. r \in P!Ring
    BY <1>6 DEF P!Tight
  <2>2. PICK sl \in P!SlotsOf, h \in P!Slots, t \in P!Slots, c \in 0..Depth :
          r = P!RingOf(sl, h, t, c)
    BY <2>1, P!Fields
  <2>3. Len(P!Content(r)) = c /\ P!Content(r) \in Seq(Frame \cup {Nobody})
    BY <2>2, P!ContentIs
  <2> QED
    BY <1>2, <2>2, <2>3 DEF P!RingOf
<1>7. ASSUME NEW r, P!Tight(r), r.count < Depth, NEW f \in Frame
      PROVE  /\ P!Tight(R!Filled(r, f))
             /\ R!Content(R!Filled(r, f)) = R!Content(r)
             /\ R!Filled(r, f).count = r.count
             /\ R!Filled(r, f).slot[R!Filled(r, f).tail] = f
  BY <1>2, <1>3, <1>7, P!FilledKeepsContent
<1>8. ASSUME NEW r, P!Tight(r), r.count < Depth
      PROVE  /\ P!Tight(R!Appended(r))
             /\ R!Content(R!Appended(r)) = Append(R!Content(r), r.slot[r.tail])
  BY <1>2, <1>4, <1>8, P!AppendedAppends
<1>9. ASSUME NEW r, P!Tight(r), r.count > 0
      PROVE  /\ P!Tight(R!Removed(r))
             /\ R!Content(r) # <<>>
             /\ R!First(r) = Head(R!Content(r))
             /\ R!Content(R!Removed(r)) = Tail(R!Content(r))
  BY <1>2, <1>5, <1>9, P!RemovedRemoves
<1>10. P!Tight(R!EmptyRing) /\ R!Content(R!EmptyRing) = <<>>
  BY <1>1, <1>2, P!EmptyIsTight
<1> QED
  BY <1>6, <1>7, <1>8, <1>9, <1>10

-----------------------------------------------------------------------------
(* The inductive invariant.  What an actor does to the queue's words is    *)
(* exclusive because it has the lock there, so what it has found or left   *)
(* in one step it finds in the next.                                       *)

Holding  == {"fill", "append", "clear", "take", "remove"}
Carrying == {"remove", "translate", "translateRead"}

Base ==
  /\ DOMAIN pc = Actors
  /\ frame \in [Xam \cup {Worker} -> Frame \cup {Nobody}]
  /\ sent \in Nat

\* There has been a phone once a callback is registered.
PhoneInv ==
  /\ phone \in 0..MaxPhones
  /\ attached \/ registered \/ ~At(Worker, "none") => phone > 0

XamInv == \A x \in Xam : ~At(x, "none") => frame[x] \in Frame

LockInv == \A a \in Actors : pc[a] \in Holding => queueLock = a

FillInv ==
  \A x \in Xam : /\ pc[x] \in {"fill", "append"} => queue.count < Depth
                 /\ At(x, "append") => queue.slot[queue.tail] \in Frame

TakeInv ==
  /\ pc[Worker] \in {"take", "remove"} => queue.count > 0
  /\ At(Worker, "remove") => frame[Worker] = R!First(queue)
  /\ frame[Worker] # Nobody => pc[Worker] \in Carrying

QueueInv == P!Tight(queue) /\ LockInv /\ FillInv /\ TakeInv

IInv == Base /\ PhoneInv /\ XamInv /\ QueueInv

LEMMA InitInv == Init => IInv
<1> SUFFICES ASSUME Init PROVE IInv
  OBVIOUS
<1>1. DOMAIN pc = Actors /\ \A a \in Actors : pc[a] = IF a = Usb THEN "idle" ELSE "none"
  BY DEF Init
<1> USE ActorsAssumption, BoundsAssumption DEF Actors
<1>2. Base
  <2>1. frame = [a \in Xam \cup {Worker} |-> Nobody] /\ sent = 0
    BY DEF Init
  <2>2. frame \in [Xam \cup {Worker} -> Frame \cup {Nobody}]
    BY <2>1
  <2> QED
    BY <1>1, <2>1, <2>2 DEF Base
<1>3. PhoneInv
  <2>1. phone = 0 /\ attached = FALSE /\ registered = FALSE /\ pc[Worker] = "none"
    BY <1>1 DEF Init
  <2> QED
    BY <2>1 DEF PhoneInv, At
<1>4. XamInv
  BY <1>1 DEF XamInv, At
<1>5. LockInv /\ FillInv
  BY <1>1 DEF LockInv, FillInv, Holding, At
<1>6. TakeInv
  BY <1>1 DEF TakeInv, At, Init
<1> QED
  BY <1>2, <1>3, <1>4, <1>5, <1>6, QueueRing DEF IInv, QueueInv, Init

(***************************************************************************)
(* Moves(a, p) and what it leaves, for the steps that do not touch queue.  *)
(***************************************************************************)
LEMMA Moved ==
  ASSUME Base, NEW a \in Actors, NEW p, Goto(a, p)
  PROVE  /\ DOMAIN pc' = Actors /\ pc'[a] = p
         /\ \A b \in Actors : b # a => pc'[b] = pc[b]
BY DEF Base, Goto

\* A step that leaves the queue alone and brings nobody to it.
LEMMA QuietStep ==
  ASSUME IInv, NEW a \in Actors, NEW p, Goto(a, p),
         UNCHANGED <<queue, queueLock, frame>>,
         p \notin Holding, a \in Xam => ~At(a, "none"),
         a = Worker => pc[Worker] \notin Carrying
  PROVE  XamInv' /\ QueueInv' /\ UNCHANGED Fifo!fvars
<1> USE DEF At
<1>1. /\ pc'[a] = p /\ \A b \in Actors : b # a => pc'[b] = pc[b]
      /\ Xam \subseteq Actors /\ Worker \in Actors
  BY Moved DEF IInv, Actors
<1>2. XamInv'
  BY <1>1 DEF IInv, XamInv
<1>3. LockInv'
  BY <1>1 DEF IInv, QueueInv, LockInv
<1>4. FillInv'
  BY <1>1 DEF IInv, QueueInv, FillInv, Holding
<1>5. TakeInv'
  BY <1>1 DEF IInv, QueueInv, TakeInv, Holding, Carrying
<1>6. UNCHANGED Fifo!fvars
  <2>1. a = Worker => frame[Worker] = Nobody
    BY DEF IInv, QueueInv, TakeInv
  <2>2. a # Worker => pc'[Worker] = pc[Worker]
    BY <1>1
  <2>3. R!Content(queue)' = R!Content(queue)
    OBVIOUS
  <2> QED
    BY <2>1, <2>2, <2>3 DEF Fifo!fvars
<1> QED
  BY <1>2, <1>3, <1>4, <1>5, <1>6 DEF IInv, QueueInv

-----------------------------------------------------------------------------
(* Base and PhoneInv, action by action where they are touched.             *)

LEMMA BaseStep == IInv /\ [Next]_vars => Base'
<1> SUFFICES ASSUME IInv, [Next]_vars PROVE Base'
  OBVIOUS
<1>1. /\ DOMAIN pc = Actors /\ sent \in Nat
      /\ frame \in [Xam \cup {Worker} -> Frame \cup {Nobody}]
  BY DEF IInv, Base
<1> USE DEF bridge, locks, macs, phones, work, Goto, Forget
<1> DEFINE Same == DOMAIN pc' = Actors /\ UNCHANGED <<frame, sent>>
           Forgot(a) == DOMAIN pc' = Actors /\ Forget(a) /\ UNCHANGED sent
<1>2. Same => Base'
  BY <1>1 DEF Base
<1>3. ASSUME NEW a \in Xam \cup {Worker}, Forgot(a)
      PROVE  Base'
  BY <1>1, <1>3 DEF Base
<1>4. ASSUME NEW x \in Xam, XboxTransmitCallback(x)
      PROVE  Base'
  <2>1. CASE Transmit(x)
    <3> DEFINE f == [id |-> sent + 1, phone |-> phone, late |-> FALSE]
    <3>1. sent' = sent + 1 /\ sent + 1 \in 1..MaxFrames /\ DOMAIN pc' = Actors
          /\ frame' = [frame EXCEPT ![x] = f]
      BY <1>1, <2>1, BoundsAssumption DEF Transmit
    <3>2. phone \in 1..MaxPhones
      BY <2>1, BoundsAssumption DEF Transmit, IInv, PhoneInv
    <3>3. f \in Frame
      BY <3>1, <3>2 DEF Frame
    <3> QED
      BY <1>1, <3>1, <3>3 DEF Base
  <2>2. CASE TransmitAppend(x)
    BY <1>1, <1>3, <2>2 DEF TransmitAppend
  <2>3. CASE TransmitDrops(x)
    BY <1>1, <1>3, <2>3 DEF TransmitDrops
  <2>4. CASE Capture(x) \/ CaptureLock(x) \/ CaptureAgain(x) \/ CaptureDone(x)
    BY <1>1, <1>2, <2>4 DEF Capture, CaptureLock, CaptureAgain, CaptureDone, TryStateLock
  <2>5. CASE TransmitLock(x) \/ TransmitFill(x)
    BY <1>1, <1>2, <2>5 DEF TransmitLock, TransmitFill
  <2> QED
    BY <1>4, <2>1, <2>2, <2>3, <2>4, <2>5 DEF XboxTransmitCallback
<1>5. ASSUME NEW a \in {Worker, Usb}, FlushQueue(a)
      PROVE  Base'
  BY <1>1, <1>2, <1>5 DEF FlushQueue, FlushLock, FlushClear, TryQueueLock
<1>6. CASE AddDevice \/ RemoveDevice
  BY <1>1, <1>2, <1>6 DEF AddDevice, RemoveDevice
<1>7. CASE PhoneDetached
  <2>1. \A x \in Xam : ~At(x, "none") =>
          frame[x] \in Frame /\ [frame[x] EXCEPT !.late = TRUE] \in Frame
    BY DEF IInv, XamInv, Frame
  <2> QED
    BY <1>1, <1>7, <2>1 DEF PhoneDetached, Base
<1>8. CASE WorkerStep
  <2>1. CASE PopTake
    <3>1. queue.count > 0 /\ P!Tight(queue)
      BY <2>1 DEF PopTake, IInv, QueueInv, TakeInv, At
    <3>2. R!First(queue) \in Frame \cup {Nobody}
      BY <3>1 DEF P!Tight, P!Ring, R!First
    <3> QED
      BY <1>1, <2>1, <3>2 DEF PopTake, Base
  <2>2. CASE PopTranslate
    BY <1>1, <1>2, <1>3, <2>2 DEF PopTranslate, TryStateLock
  <2>3. CASE PopTranslated
    BY <1>1, <1>3, <2>3 DEF PopTranslated
  <2>4. CASE WorkerStart \/ WorkerRound \/ WorkerInject \/ InjectLock \/ InjectRead
    BY <1>1, <1>2, <2>4
       DEF WorkerStart, WorkerRound, WorkerInject, InjectLock, InjectRead,
           Moves, TryStateLock
  <2>5. CASE UpdateDisable \/ UpdateEnable \/ UpdateLock \/ UpdateStore \/ UpdateActivate
    BY <1>1, <1>2, <2>5
       DEF UpdateDisable, UpdateEnable, UpdateLock, UpdateStore, UpdateActivate,
           Moves, TryStateLock
  <2>6. CASE RegisterAccepted \/ RegisterRefused \/ PopLock \/ PopEnds \/ PopRemove
    BY <1>1, <1>2, <2>6
       DEF RegisterAccepted, RegisterRefused, PopLock, PopEnds, PopRemove, Moves
  <2>7. CASE Report \/ ReportRead
    BY <1>1, <1>2, <2>7 DEF Report, ReportRead, TryStateLock
  <2> QED
    BY <1>8, <2>1, <2>2, <2>3, <2>4, <2>5, <2>6, <2>7 DEF WorkerStep
<1>9. CASE UNCHANGED vars
  BY <1>1, <1>2, <1>9 DEF vars
<1> QED
  BY <1>4, <1>5, <1>6, <1>7, <1>8, <1>9 DEF Next

LEMMA PhoneStep == IInv /\ [Next]_vars => PhoneInv'
<1> SUFFICES ASSUME IInv, [Next]_vars PROVE PhoneInv'
  OBVIOUS
<1>1. DOMAIN pc = Actors /\ Worker \in Actors /\ Usb \in Actors /\ Xam \subseteq Actors
      /\ Usb # Worker /\ Worker \notin Xam
  BY ActorsAssumption DEF IInv, Base, Actors
<1> USE DEF bridge, locks, macs, phones, work, Goto, At
<1> DEFINE Calm == /\ UNCHANGED <<attached, phone>>
                   /\ registered' => registered \/ pc[Worker] = "register"
                   /\ pc'[Worker] = "none" \/ pc[Worker] # "none" \/ attached
<1>2. Calm => PhoneInv'
  BY DEF IInv, PhoneInv
<1>3. ASSUME NEW x \in Xam, XboxTransmitCallback(x)
      PROVE  PhoneInv'
  BY <1>1, <1>2, <1>3
     DEF XboxTransmitCallback, Transmit, Capture, CaptureLock, CaptureAgain,
         CaptureDone, TransmitLock, TransmitFill, TransmitAppend, TransmitDrops,
         TryStateLock
<1>4. ASSUME NEW a \in {Worker, Usb}, FlushQueue(a)
      PROVE  PhoneInv'
  BY <1>1, <1>2, <1>4 DEF FlushQueue, FlushLock, FlushClear, TryQueueLock
<1>5. CASE AddDevice
  BY <1>5, BoundsAssumption DEF AddDevice, IInv, PhoneInv
<1>6. CASE RemoveDevice
  BY <1>1, <1>6 DEF RemoveDevice, IInv, PhoneInv
<1>7. CASE PhoneDetached
  BY <1>1, <1>2, <1>7 DEF PhoneDetached
<1>8. CASE WorkerStep
  <2>1. CASE WorkerStart \/ WorkerRound \/ WorkerInject \/ InjectLock \/ InjectRead
    BY <1>1, <1>2, <2>1
       DEF WorkerStart, WorkerRound, WorkerInject, InjectLock, InjectRead,
           Moves, TryStateLock
  <2>2. CASE UpdateDisable \/ UpdateEnable \/ UpdateLock \/ UpdateStore \/ UpdateActivate
    BY <1>1, <1>2, <2>2
       DEF UpdateDisable, UpdateEnable, UpdateLock, UpdateStore, UpdateActivate,
           Moves, TryStateLock
  <2>3. CASE RegisterAccepted \/ RegisterRefused \/ PopLock \/ PopEnds \/ PopRemove
    BY <1>1, <1>2, <2>3
       DEF RegisterAccepted, RegisterRefused, PopLock, PopEnds, PopRemove, Moves
  <2>4. CASE PopTake \/ PopTranslate \/ PopTranslated \/ Report \/ ReportRead
    BY <1>1, <1>2, <2>4
       DEF PopTake, PopTranslate, PopTranslated, Report, ReportRead, TryStateLock
  <2> QED
    BY <1>8, <2>1, <2>2, <2>3, <2>4 DEF WorkerStep
<1>9. CASE UNCHANGED vars
  BY <1>2, <1>9 DEF vars
<1> QED
  BY <1>3, <1>4, <1>5, <1>6, <1>7, <1>8, <1>9 DEF Next

-----------------------------------------------------------------------------
(* The steps that do touch the queue or a frame, one lemma each.  Every    *)
(* one is a step of FrameQueue or none.                                    *)

Good == XamInv' /\ QueueInv' /\ [Fifo!Next]_(Fifo!fvars)

\* Who is in Holding is alone there.
LEMMA Alone ==
  ASSUME IInv, NEW a \in Actors, pc[a] \in Holding
  PROVE  queueLock = a /\ \A b \in Actors : b # a => pc[b] \notin Holding
BY DEF IInv, QueueInv, LockInv

LEMMA NobodyHolds ==
  ASSUME IInv, queueLock = Nobody
  PROVE  \A b \in Actors : pc[b] \notin Holding
BY NobodyAssumption DEF IInv, QueueInv, LockInv

LEMMA GoodTransmit ==
  ASSUME IInv, NEW x \in Xam, Transmit(x)
  PROVE  Good
<1> USE DEF At, bridge, locks, macs, phones
<1> DEFINE f == [id |-> sent + 1, phone |-> phone, late |-> FALSE]
<1>1. /\ pc'[x] = "capture" /\ pc[x] = "none"
      /\ \A b \in Actors : b # x => pc'[b] = pc[b]
      /\ Xam \subseteq Actors /\ Worker \in Actors /\ Worker \notin Xam
  BY Moved, ActorsAssumption DEF IInv, Actors, Transmit
<1>2. f \in Frame
  <2>1. sent + 1 \in 1..MaxFrames
    BY BoundsAssumption DEF Transmit, IInv, Base
  <2>2. phone \in 1..MaxPhones
    BY BoundsAssumption DEF Transmit, IInv, PhoneInv
  <2> QED
    BY <2>1, <2>2 DEF Frame
<1>3. /\ frame'[x] = f /\ \A b \in Xam \cup {Worker} : b # x => frame'[b] = frame[b]
  BY DEF Transmit, IInv, Base
<1>4. UNCHANGED <<queue, queueLock>>
  BY DEF Transmit
<1> HIDE DEF f
<1>5. XamInv'
  BY <1>1, <1>2, <1>3 DEF IInv, XamInv
<1>6. LockInv' /\ FillInv'
  BY <1>1, <1>4 DEF IInv, QueueInv, LockInv, FillInv, Holding
<1>7. TakeInv'
  BY <1>1, <1>3, <1>4 DEF IInv, QueueInv, TakeInv
<1>8. UNCHANGED Fifo!fvars
  BY <1>1, <1>3, <1>4 DEF Fifo!fvars
<1> QED
  BY <1>4, <1>5, <1>6, <1>7, <1>8 DEF IInv, QueueInv, Good

LEMMA GoodTransmitLock ==
  ASSUME IInv, NEW x \in Xam, TransmitLock(x)
  PROVE  Good
<1> USE DEF At, bridge, locks, macs, phones, work
<1>1. x \in Actors /\ x # Worker /\ Worker \in Actors /\ Xam \subseteq Actors
  BY ActorsAssumption DEF Actors
<1>2. CASE queueLock = Nobody /\ queue.count < Depth
  <2>1. /\ pc'[x] = "fill" /\ pc[x] = "queue" /\ queueLock' = x
        /\ \A b \in Actors : b # x => pc'[b] = pc[b]
        /\ UNCHANGED <<queue, frame>>
    BY <1>1, <1>2, Moved DEF TransmitLock, IInv
  <2>2. \A b \in Actors : pc[b] \notin Holding
    BY <1>2, NobodyHolds
  <2>3. XamInv'
    BY <1>1, <2>1 DEF IInv, XamInv
  <2>4. LockInv' /\ FillInv'
    BY <1>1, <1>2, <2>1, <2>2 DEF LockInv, FillInv, Holding
  <2>5. TakeInv'
    BY <1>1, <2>1 DEF IInv, QueueInv, TakeInv
  <2>6. UNCHANGED Fifo!fvars
    BY <1>1, <2>1 DEF Fifo!fvars
  <2> QED
    BY <2>1, <2>3, <2>4, <2>5, <2>6 DEF IInv, QueueInv, Good
<1>3. CASE ~(queueLock = Nobody /\ queue.count < Depth)
  <2>1. Goto(x, "drop") /\ UNCHANGED <<queue, queueLock, frame>> /\ pc[x] = "queue"
    BY <1>3 DEF TransmitLock
  <2> QED
    BY <1>1, <2>1, QuietStep DEF Good, Holding
<1> QED
  BY <1>2, <1>3

LEMMA GoodTransmitFill ==
  ASSUME IInv, NEW x \in Xam, TransmitFill(x)
  PROVE  Good
<1> USE DEF At, bridge, locks, macs, phones, work
<1>1. x \in Actors /\ x # Worker /\ Worker \in Actors /\ Xam \subseteq Actors
  BY ActorsAssumption DEF Actors
<1>2. /\ pc'[x] = "append" /\ pc[x] = "fill"
      /\ \A b \in Actors : b # x => pc'[b] = pc[b]
      /\ UNCHANGED <<queueLock, frame>>
      /\ queue' = R!Filled(queue, frame[x])
  BY <1>1, Moved DEF TransmitFill, IInv
<1>3. /\ queueLock = x /\ \A b \in Actors : b # x => pc[b] \notin Holding
  BY <1>1, <1>2, Alone DEF Holding
<1>4. frame[x] \in Frame /\ queue.count < Depth /\ P!Tight(queue)
  BY <1>2 DEF IInv, XamInv, QueueInv, FillInv
<1>5. /\ P!Tight(queue') /\ R!Content(queue') = R!Content(queue)
      /\ queue'.count = queue.count /\ queue'.slot[queue'.tail] \in Frame
  BY <1>2, <1>4, QueueRing
<1>6. XamInv'
  BY <1>1, <1>2 DEF IInv, XamInv
<1>7. LockInv'
  BY <1>2, <1>3 DEF LockInv
<1>8. FillInv'
  BY <1>4, <1>5 DEF FillInv
<1>9. TakeInv'
  BY <1>1, <1>2, <1>3 DEF IInv, QueueInv, TakeInv, Holding, Carrying
<1>10. UNCHANGED Fifo!fvars
  <2>1. R!Content(queue)' = R!Content(queue)
    BY <1>5 DEF R!Content
  <2> QED
    BY <1>1, <1>2, <2>1 DEF Fifo!fvars
<1> QED
  BY <1>5, <1>6, <1>7, <1>8, <1>9, <1>10 DEF QueueInv, Good

LEMMA GoodTransmitAppend ==
  ASSUME IInv, NEW x \in Xam, TransmitAppend(x)
  PROVE  Good
<1> USE DEF At, bridge, locks, macs, phones
<1>1. x \in Actors /\ x # Worker /\ Worker \in Actors /\ Xam \subseteq Actors
  BY ActorsAssumption DEF Actors
<1>2. /\ pc'[x] = "none" /\ pc[x] = "append" /\ queueLock' = Nobody
      /\ \A b \in Actors : b # x => pc'[b] = pc[b]
      /\ queue' = R!Appended(queue)
  BY <1>1, Moved DEF TransmitAppend, IInv
<1>3. \A b \in Xam \cup {Worker} : b # x => frame'[b] = frame[b]
  BY DEF TransmitAppend, Forget, IInv, Base
<1>4. \A b \in Actors : pc'[b] \notin Holding
  BY <1>1, <1>2, Alone DEF Holding
<1>5. queue.count < Depth /\ queue.slot[queue.tail] \in Frame /\ P!Tight(queue)
  BY <1>2 DEF IInv, QueueInv, FillInv
<1>6. /\ P!Tight(queue')
      /\ R!Content(queue') = Append(R!Content(queue), queue.slot[queue.tail])
      /\ Len(R!Content(queue)) < Depth
  BY <1>2, <1>5, QueueRing
<1>7. XamInv'
  BY <1>1, <1>2, <1>3 DEF IInv, XamInv
<1>8. LockInv' /\ FillInv'
  BY <1>1, <1>4 DEF LockInv, FillInv, Holding
<1>9. TakeInv'
  BY <1>1, <1>2, <1>3, <1>4 DEF IInv, QueueInv, TakeInv, Holding, Carrying
<1>10. Fifo!Put
  <2>1. R!Content(queue)' = R!Content(queue')
    BY DEF R!Content
  <2> QED
    BY <1>1, <1>2, <1>3, <1>5, <1>6, <2>1 DEF Fifo!Put
<1> QED
  BY <1>6, <1>7, <1>8, <1>9, <1>10 DEF QueueInv, Good, Fifo!Next

LEMMA GoodTransmitDrops ==
  ASSUME IInv, NEW x \in Xam, TransmitDrops(x)
  PROVE  Good
<1> USE DEF At, bridge, locks, macs, phones
<1>1. x \in Actors /\ x # Worker /\ Worker \in Actors /\ Xam \subseteq Actors
  BY ActorsAssumption DEF Actors
<1>2. /\ pc'[x] = "none" /\ \A b \in Actors : b # x => pc'[b] = pc[b]
      /\ UNCHANGED <<queue, queueLock>>
  BY <1>1, Moved DEF TransmitDrops, IInv
<1>3. \A b \in Xam \cup {Worker} : b # x => frame'[b] = frame[b]
  BY DEF TransmitDrops, Forget, IInv, Base
<1>4. XamInv'
  BY <1>1, <1>2, <1>3 DEF IInv, XamInv
<1>5. LockInv' /\ FillInv'
  BY <1>1, <1>2 DEF IInv, QueueInv, LockInv, FillInv, Holding
<1>6. TakeInv'
  BY <1>1, <1>2, <1>3 DEF IInv, QueueInv, TakeInv
<1>7. UNCHANGED Fifo!fvars
  BY <1>1, <1>2, <1>3 DEF Fifo!fvars
<1> QED
  BY <1>2, <1>4, <1>5, <1>6, <1>7 DEF IInv, QueueInv, Good

LEMMA GoodFlushLock ==
  ASSUME IInv, NEW a \in {Worker, Usb}, FlushLock(a)
  PROVE  Good
<1> USE DEF At, bridge, locks, macs, phones, work
<1>1. /\ a \in Actors /\ a \notin Xam /\ Worker \in Actors /\ Xam \subseteq Actors
      /\ UNCHANGED <<queue, frame>> /\ pc[a] = "flush"
  BY ActorsAssumption DEF Actors, FlushLock
<1>2. CASE queueLock = Nobody
  <2>1. /\ queueLock' = a /\ pc'[a] = "clear"
        /\ \A b \in Actors : b # a => pc'[b] = pc[b]
    BY <1>1, <1>2, Moved DEF FlushLock, TryQueueLock, IInv
  <2>2. \A b \in Actors : pc[b] \notin Holding
    BY <1>2, NobodyHolds
  <2>3. XamInv'
    BY <1>1, <2>1 DEF IInv, XamInv
  <2>4. LockInv' /\ FillInv'
    BY <1>1, <2>1, <2>2 DEF LockInv, FillInv, Holding
  <2>5. TakeInv' /\ UNCHANGED Fifo!fvars
    BY <1>1, <2>1 DEF IInv, QueueInv, TakeInv, Carrying, Fifo!fvars
  <2> QED
    BY <1>1, <2>3, <2>4, <2>5 DEF IInv, QueueInv, Good
<1>3. CASE queueLock # Nobody
  <2>1. Goto(a, Flushed(a)) /\ UNCHANGED queueLock
    BY <1>3 DEF FlushLock, TryQueueLock
  <2>2. Flushed(a) \notin Holding /\ (a = Worker => pc[Worker] \notin Carrying)
    BY <1>1 DEF Flushed, Holding, Carrying
  <2> QED
    BY <1>1, <2>1, <2>2, QuietStep DEF Good
<1> QED
  BY <1>2, <1>3

LEMMA GoodFlushClear ==
  ASSUME IInv, NEW a \in {Worker, Usb}, FlushClear(a)
  PROVE  Good
<1> USE DEF At, bridge, locks, macs, phones, work
<1>1. /\ a \in Actors /\ a \notin Xam /\ Worker \in Actors /\ Xam \subseteq Actors
      /\ UNCHANGED frame /\ pc[a] = "clear" /\ queue' = R!EmptyRing
      /\ Flushed(a) \notin Holding /\ Flushed(a) # "clear"
  BY ActorsAssumption DEF Actors, FlushClear, Flushed, Holding
<1>2. /\ pc'[a] = Flushed(a) /\ \A b \in Actors : b # a => pc'[b] = pc[b]
  BY <1>1, Moved DEF FlushClear, IInv
<1>3. \A b \in Actors : pc'[b] \notin Holding
  BY <1>1, <1>2, Alone DEF Holding
<1>4. P!Tight(queue') /\ R!Content(queue)' = <<>>
  BY <1>1, QueueRing DEF R!Content
<1>5. XamInv'
  BY <1>1, <1>2 DEF IInv, XamInv
<1>6. LockInv' /\ FillInv'
  BY <1>1, <1>3 DEF LockInv, FillInv, Holding
<1>7. (a = Worker => frame[Worker] = Nobody) /\ pc[Worker] # "remove"
  BY <1>1, Alone DEF IInv, QueueInv, TakeInv, Carrying, Holding
<1>8. TakeInv' /\ Fifo!Clear
  BY <1>1, <1>2, <1>3, <1>4, <1>7 DEF IInv, QueueInv, TakeInv, Holding, Fifo!Clear
<1> QED
  BY <1>4, <1>5, <1>6, <1>8 DEF QueueInv, Good, Fifo!Next

LEMMA GoodPhoneDetached ==
  ASSUME IInv, PhoneDetached
  PROVE  Good
<1> USE DEF At, bridge, locks, macs, phones
<1>1. /\ Usb \in Actors /\ Usb \notin Xam /\ Worker \in Actors /\ Xam \subseteq Actors
      /\ Usb # Worker /\ Worker \notin Xam /\ UNCHANGED <<queue, queueLock>>
  BY ActorsAssumption DEF Actors, PhoneDetached
<1>2. pc'[Usb] = "flush" /\ \A b \in Actors : b # Usb => pc'[b] = pc[b]
  BY <1>1, Moved DEF PhoneDetached, IInv
<1>3. /\ frame'[Worker] = frame[Worker]
      /\ \A x \in Xam : ~At(x, "none") =>
           frame'[x] = [frame[x] EXCEPT !.late = TRUE]
  BY <1>1 DEF PhoneDetached, IInv, Base
<1>4. XamInv'
  BY <1>1, <1>2, <1>3 DEF IInv, XamInv, Frame
<1>5. LockInv' /\ FillInv'
  BY <1>1, <1>2 DEF IInv, QueueInv, LockInv, FillInv, Holding
<1>6. TakeInv' /\ UNCHANGED Fifo!fvars
  BY <1>1, <1>2, <1>3 DEF IInv, QueueInv, TakeInv, Fifo!fvars
<1> QED
  BY <1>1, <1>4, <1>5, <1>6 DEF IInv, QueueInv, Good

\* What the Worker's steps on the queue have in common.
LEMMA WorkerMoves ==
  ASSUME IInv, NEW p, Goto(Worker, p)
  PROVE  /\ Worker \in Actors /\ Worker \notin Xam /\ Xam \subseteq Actors
         /\ pc'[Worker] = p /\ \A b \in Actors : b # Worker => pc'[b] = pc[b]
BY Moved, ActorsAssumption DEF IInv, Actors

LEMMA GoodPopLock == IInv /\ PopLock => Good
<1> SUFFICES ASSUME IInv, PopLock PROVE Good
  OBVIOUS
<1> USE DEF At, bridge, locks, macs, phones, work
<1>1. CASE queueLock = Nobody /\ queue.count > 0
  <2>1. /\ queueLock' = Worker /\ pc'[Worker] = "take" /\ pc[Worker] = "pop"
        /\ \A b \in Actors : b # Worker => pc'[b] = pc[b]
        /\ Worker \in Actors /\ Worker \notin Xam /\ Xam \subseteq Actors
        /\ UNCHANGED <<queue, frame>>
    BY <1>1, WorkerMoves DEF PopLock
  <2>2. \A b \in Actors : pc[b] \notin Holding
    BY <1>1, NobodyHolds
  <2>3. XamInv'
    BY <2>1 DEF IInv, XamInv
  <2>4. LockInv' /\ FillInv'
    BY <2>1, <2>2 DEF LockInv, FillInv, Holding
  <2>5. TakeInv' /\ UNCHANGED Fifo!fvars
    BY <1>1, <2>1 DEF IInv, QueueInv, TakeInv, Carrying, Fifo!fvars
  <2> QED
    BY <2>1, <2>3, <2>4, <2>5 DEF IInv, QueueInv, Good
<1>2. CASE ~(queueLock = Nobody /\ queue.count > 0)
  <2>1. Goto(Worker, "report") /\ UNCHANGED <<queue, queueLock, frame>> /\ pc[Worker] = "pop"
    BY <1>2 DEF PopLock
  <2>2. Worker \in Actors /\ Worker \notin Xam
    BY <2>1, WorkerMoves
  <2> QED
    BY <2>1, <2>2, QuietStep DEF Good, Holding, Carrying
<1> QED
  BY <1>1, <1>2

LEMMA GoodPopTake == IInv /\ PopTake => Good
<1> SUFFICES ASSUME IInv, PopTake PROVE Good
  OBVIOUS
<1> USE DEF At, bridge, locks, macs, phones
<1>1. /\ pc'[Worker] = "remove" /\ pc[Worker] = "take"
      /\ \A b \in Actors : b # Worker => pc'[b] = pc[b]
      /\ Worker \in Actors /\ Worker \notin Xam /\ Xam \subseteq Actors
      /\ UNCHANGED <<queue, queueLock>>
  BY WorkerMoves DEF PopTake
<1>2. /\ frame'[Worker] = R!First(queue)
      /\ \A x \in Xam : frame'[x] = frame[x]
  BY <1>1 DEF PopTake, IInv, Base
<1>3. XamInv'
  BY <1>1, <1>2 DEF IInv, XamInv
<1>4. LockInv' /\ FillInv'
  BY <1>1 DEF IInv, QueueInv, LockInv, FillInv, Holding
<1>5. R!First(queue)' = R!First(queue)
  BY <1>1 DEF R!First
<1>6. TakeInv' /\ UNCHANGED Fifo!fvars
  BY <1>1, <1>2, <1>5 DEF IInv, QueueInv, TakeInv, Carrying, Fifo!fvars
<1> QED
  BY <1>1, <1>3, <1>4, <1>6 DEF IInv, QueueInv, Good

LEMMA GoodPopRemove == IInv /\ PopRemove => Good
<1> SUFFICES ASSUME IInv, PopRemove PROVE Good
  OBVIOUS
<1> USE DEF At, bridge, locks, macs, phones, work
<1>1. /\ pc'[Worker] = "translate" /\ pc[Worker] = "remove"
      /\ \A b \in Actors : b # Worker => pc'[b] = pc[b]
      /\ Worker \in Actors /\ Worker \notin Xam /\ Xam \subseteq Actors
      /\ UNCHANGED frame /\ queue' = R!Removed(queue)
  BY WorkerMoves DEF PopRemove
<1>2. \A b \in Actors : pc'[b] \notin Holding
  BY <1>1, Alone DEF Holding
<1>3. queue.count > 0 /\ frame[Worker] = R!First(queue) /\ P!Tight(queue)
  BY <1>1 DEF IInv, QueueInv, TakeInv
<1>4. /\ P!Tight(queue') /\ R!Content(queue) # <<>>
      /\ frame[Worker] = Head(R!Content(queue))
      /\ R!Content(queue') = Tail(R!Content(queue))
  BY <1>1, <1>3, QueueRing
<1>5. XamInv'
  BY <1>1 DEF IInv, XamInv
<1>6. LockInv' /\ FillInv'
  BY <1>1, <1>2 DEF LockInv, FillInv, Holding
<1>7. TakeInv'
  BY <1>1 DEF TakeInv, Carrying
<1>8. Fifo!Take
  <2>1. R!Content(queue)' = R!Content(queue')
    BY DEF R!Content
  <2> QED
    BY <1>1, <1>4, <2>1 DEF Fifo!Take
<1> QED
  BY <1>4, <1>5, <1>6, <1>7, <1>8 DEF QueueInv, Good, Fifo!Next

\* The frame is used, or kept for its translation.
LEMMA GoodPopTranslate == IInv /\ (PopTranslate \/ PopTranslated) => Good
<1> SUFFICES ASSUME IInv, PopTranslate \/ PopTranslated PROVE Good
  OBVIOUS
<1> USE DEF At, bridge, locks, macs, phones
<1> DEFINE p == pc'[Worker]
<1>1. /\ \A b \in Actors : b # Worker => pc'[b] = pc[b]
      /\ pc[Worker] \in {"translate", "translateRead"}
      /\ p \in {"translateRead", "report", "pop"}
      /\ Worker \in Actors /\ Worker \notin Xam /\ Xam \subseteq Actors
      /\ UNCHANGED <<queue, queueLock>>
  BY WorkerMoves DEF PopTranslate, PopTranslated, TryStateLock
<1>2. \A x \in Xam : frame'[x] = frame[x]
  BY <1>1 DEF PopTranslate, PopTranslated, Forget, IInv, Base
<1>3. \/ frame'[Worker] = Nobody
      \/ frame'[Worker] = frame[Worker] /\ p = "translateRead"
  BY <1>1, WorkerMoves, NobodyAssumption
     DEF PopTranslate, PopTranslated, TryStateLock, Forget, IInv, Base
<1>4. XamInv'
  BY <1>1, <1>2 DEF IInv, XamInv
<1>5. LockInv' /\ FillInv'
  BY <1>1 DEF IInv, QueueInv, LockInv, FillInv, Holding
<1>6. TakeInv'
  BY <1>1, <1>3 DEF IInv, QueueInv, TakeInv, Carrying
<1>7. Fifo!Use \/ UNCHANGED Fifo!fvars
  <2>1. R!Content(queue)' = R!Content(queue)
    BY <1>1 DEF R!Content
  <2> QED
    BY <1>1, <1>3, <2>1 DEF Fifo!Use, Fifo!fvars
<1> QED
  BY <1>1, <1>4, <1>5, <1>6, <1>7 DEF IInv, QueueInv, Good, Fifo!Next

LEMMA GoodStep == IInv /\ [Next]_vars => Good
<1> SUFFICES ASSUME IInv, [Next]_vars PROVE Good
  OBVIOUS
<1> USE DEF At, bridge, locks, macs, phones, work
<1>1. /\ Worker \in Actors /\ Usb \in Actors /\ Xam \subseteq Actors
      /\ Usb # Worker /\ Usb \notin Xam /\ Worker \notin Xam
  BY ActorsAssumption DEF Actors
<1>2. \A a \in Actors : \A p :
        /\ Goto(a, p) /\ UNCHANGED <<queue, queueLock, frame>>
        /\ p \notin Holding /\ (a \in Xam => pc[a] # "none")
        /\ a = Worker => pc[Worker] \notin Carrying
        => Good
  BY QuietStep DEF Good
<1>3. UNCHANGED <<queue, queueLock, frame, pc>> => Good
  <2>1. SUFFICES ASSUME UNCHANGED <<queue, queueLock, frame, pc>> PROVE Good
    OBVIOUS
  <2>2. XamInv' /\ QueueInv'
    BY <2>1 DEF IInv, XamInv, QueueInv, LockInv, FillInv, TakeInv, R!First
  <2>3. UNCHANGED Fifo!fvars
    BY <2>1 DEF Fifo!fvars
  <2> QED
    BY <2>2, <2>3 DEF Good
<1>4. ASSUME NEW x \in Xam, XboxTransmitCallback(x)
      PROVE  Good
  <2>1. ASSUME NEW p, Goto(x, p), p \notin Holding, pc[x] # "none",
               UNCHANGED <<queue, queueLock, frame>>
        PROVE  Good
    BY <1>1, <1>2, <2>1
  <2>2. CASE Capture(x) \/ CaptureLock(x) \/ CaptureAgain(x) \/ CaptureDone(x)
    BY <2>1, <2>2 DEF Capture, CaptureLock, CaptureAgain, CaptureDone,
                      TryStateLock, Holding
  <2> QED
    BY <1>4, <2>2, GoodTransmit, GoodTransmitLock, GoodTransmitFill,
       GoodTransmitAppend, GoodTransmitDrops DEF XboxTransmitCallback
<1>5. ASSUME NEW p, Goto(Worker, p), p \notin Holding, pc[Worker] \notin Carrying,
             UNCHANGED <<queue, queueLock, frame>>
      PROVE  Good
  BY <1>1, <1>2, <1>5
<1>6. CASE WorkerStep
  <2>1. CASE WorkerStart \/ WorkerRound \/ WorkerInject \/ InjectLock \/ InjectRead
    BY <1>5, <2>1
       DEF WorkerStart, WorkerRound, WorkerInject, InjectLock, InjectRead,
           Moves, TryStateLock, Holding, Carrying
  <2>2. CASE UpdateDisable \/ UpdateEnable \/ UpdateLock \/ UpdateStore \/ UpdateActivate
    BY <1>5, <2>2
       DEF UpdateDisable, UpdateEnable, UpdateLock, UpdateStore, UpdateActivate,
           Moves, TryStateLock, Holding, Carrying
  <2>3. CASE RegisterAccepted \/ RegisterRefused \/ PopEnds \/ Report \/ ReportRead
    BY <1>5, <2>3
       DEF RegisterAccepted, RegisterRefused, PopEnds, Report, ReportRead,
           Moves, TryStateLock, Holding, Carrying
  <2> QED
    BY <1>6, <2>1, <2>2, <2>3, GoodPopLock, GoodPopTake, GoodPopRemove,
       GoodPopTranslate DEF WorkerStep
<1>7. CASE AddDevice
  BY <1>3, <1>7 DEF AddDevice
<1>8. CASE RemoveDevice
  BY <1>1, <1>2, <1>8 DEF RemoveDevice, Holding
<1>9. CASE UNCHANGED vars
  BY <1>3, <1>9 DEF vars
<1> QED
  BY <1>4, <1>6, <1>7, <1>8, <1>9, GoodFlushLock, GoodFlushClear,
     GoodPhoneDetached DEF Next, FlushQueue

\* Every word of the queue is used by one thread at a time, and each knows what
\* it has put there: the inductive invariant of the bridge.
THEOREM Invariance == Spec => []IInv
<1>1. IInv /\ [Next]_vars => IInv'
  BY BaseStep, PhoneStep, GoodStep DEF IInv, Good
<1> QED
  BY <1>1, InitInv, PTL DEF Spec

\* The bridge's queue between XAM's threads and the Worker is a bounded FIFO,
\* whatever thread gives up its lock or empties it, for any size and number.
THEOREM QueueRefinement == Spec => QueueIsFifo
<1>1. Init => Fifo!Init
  <2>1. SUFFICES ASSUME Init PROVE Fifo!Init
    OBVIOUS
  <2>2. R!Content(queue) = <<>>
    BY <2>1, QueueRing DEF Init
  <2>3. frame[Worker] = Nobody
    BY <2>1 DEF Init
  <2> QED
    BY <2>2, <2>3 DEF Fifo!Init
<1>2. IInv /\ [Next]_vars => [Fifo!Next]_(Fifo!fvars)
  BY GoodStep DEF Good
<1> QED
  BY <1>1, <1>2, Invariance, PTL DEF Spec, QueueIsFifo, Fifo!Spec

-----------------------------------------------------------------------------
(* Which frames can meet the next phone.  PhoneDetached has every callback *)
(* in progress marked as late before the flush, so what may stay behind is *)
(* late from then on; until the flush the queue may have other frames of   *)
(* the phone that leaves.                                                  *)

Kept(f)    == f.late \/ (f.phone = phone /\ (attached \/ ~At(Usb, "idle")))
Carried(f) == f.late \/ (f.phone = phone /\ (attached \/ At(Usb, "pause")))

UsbInv == /\ pc[Usb] \in {"idle", "pause", "flush", "clear"}
          /\ ~At(Usb, "idle") => ~attached

KeptInv == /\ \A i \in 1..queue.count : Kept(R!Content(queue)[i])
           /\ \A x \in Xam : At(x, "append") => Kept(queue.slot[queue.tail])
CarriedInv == \A x \in Xam : ~At(x, "none") => Carried(frame[x])
ActiveInv  == active => attached \/ At(Usb, "pause")

CrossInv == UsbInv /\ (~leaky => KeptInv /\ CarriedInv /\ ActiveInv)

LEMMA CrossInit == Init => CrossInv
<1> SUFFICES ASSUME Init PROVE CrossInv
  OBVIOUS
<1>1. \A a \in Actors : pc[a] = IF a = Usb THEN "idle" ELSE "none"
  BY DEF Init
<1>2. pc[Usb] = "idle" /\ \A x \in Xam : pc[x] = "none"
  BY <1>1, ActorsAssumption DEF Actors
<1>3. queue.count = 0
  BY DEF Init, R!EmptyRing
<1>4. KeptInv
  BY <1>2, <1>3 DEF KeptInv, At
<1> QED
  BY <1>2, <1>4 DEF CrossInv, UsbInv, CarriedInv, ActiveInv, At, Init

\* A step that adds no frame and does not concern the phone.
LEMMA CrossQuiet ==
  ASSUME CrossInv, UNCHANGED <<queue, attached, phone>>, pc'[Usb] = pc[Usb],
         \A x \in Xam : /\ pc'[x] # "none" => pc[x] # "none" /\ frame'[x] = frame[x]
                        /\ pc'[x] = "append" => pc[x] = "append",
         leaky => leaky', active' => active \/ leaky' \/ attached
  PROVE  CrossInv'
<1> USE DEF At
<1>1. UsbInv'
  BY DEF CrossInv, UsbInv
<1>2. ASSUME ~leaky'
      PROVE  (KeptInv /\ CarriedInv /\ ActiveInv)'
  <2>1. KeptInv /\ CarriedInv /\ ActiveInv
    BY <1>2 DEF CrossInv
  <2>2. R!Content(queue)' = R!Content(queue)
    OBVIOUS
  <2>3. KeptInv'
    BY <2>1, <2>2 DEF KeptInv, Kept
  <2>4. CarriedInv'
    BY <2>1 DEF CarriedInv, Carried
  <2>5. ActiveInv'
    BY <1>2, <2>1 DEF ActiveInv
  <2> QED
    BY <2>3, <2>4, <2>5
<1> QED
  BY <1>1, <1>2 DEF CrossInv

LEMMA AppendEach ==
  ASSUME NEW S, NEW q \in Seq(S), NEW g \in S, NEW i \in 1..Len(Append(q, g))
  PROVE  \/ i \in 1..Len(q) /\ Append(q, g)[i] = q[i]
         \/ Append(q, g)[i] = g
OBVIOUS

LEMMA TailEach ==
  ASSUME NEW S, NEW q \in Seq(S), q # <<>>, NEW i \in 1..Len(Tail(q))
  PROVE  i + 1 \in 1..Len(q) /\ Tail(q)[i] = q[i + 1]
OBVIOUS

LEMMA CrossTransmit ==
  ASSUME IInv, CrossInv, NEW x \in Xam, XboxTransmitCallback(x)
  PROVE  CrossInv'
<1> USE DEF At, bridge, locks, macs, phones, work
<1>1. /\ x \in Actors /\ Usb \in Actors /\ x # Usb /\ Xam \subseteq Actors
      /\ DOMAIN pc = Actors /\ frame \in [Xam \cup {Worker} -> Frame \cup {Nobody}]
  BY ActorsAssumption DEF Actors, IInv, Base
<1>2. CASE Transmit(x)
  <2> DEFINE f == [id |-> sent + 1, phone |-> phone, late |-> FALSE]
  <2>1. /\ frame'[x] = f /\ \A y \in Xam : y # x => frame'[y] = frame[y]
        /\ pc'[x] = "capture" /\ \A b \in Actors : b # x => pc'[b] = pc[b]
        /\ UNCHANGED <<queue, attached, phone, active, leaky>> /\ active
    BY <1>1, <1>2 DEF Transmit, Goto
  <2>2. UsbInv'
    BY <1>1, <2>1 DEF CrossInv, UsbInv
  <2>3. ASSUME ~leaky'
        PROVE  (KeptInv /\ CarriedInv /\ ActiveInv)'
    <3>1. KeptInv /\ CarriedInv /\ ActiveInv
      BY <2>1, <2>3 DEF CrossInv
    <3>2. R!Content(queue)' = R!Content(queue)
      BY <2>1
    <3>3. KeptInv'
      BY <1>1, <2>1, <3>1, <3>2 DEF KeptInv, Kept
    <3>4. CarriedInv'
      BY <1>1, <2>1, <3>1 DEF CarriedInv, Carried, ActiveInv
    <3>5. ActiveInv'
      BY <1>1, <2>1, <3>1 DEF ActiveInv
    <3> QED
      BY <3>3, <3>4, <3>5
  <2> QED
    BY <2>2, <2>3 DEF CrossInv
<1>3. CASE TransmitFill(x)
  <2>1. /\ queue' = R!Filled(queue, frame[x]) /\ pc'[x] = "append" /\ pc[x] = "fill"
        /\ \A b \in Actors : b # x => pc'[b] = pc[b]
        /\ UNCHANGED <<frame, attached, phone, active, leaky>>
    BY <1>1, <1>3 DEF TransmitFill, Goto
  <2>2. frame[x] \in Frame /\ queue.count < Depth /\ P!Tight(queue)
    BY <2>1 DEF IInv, XamInv, QueueInv, FillInv
  <2>3. /\ R!Content(queue') = R!Content(queue) /\ queue'.count = queue.count
        /\ queue'.slot[queue'.tail] = frame[x]
    BY <2>1, <2>2, QueueRing
  <2>4. UsbInv'
    BY <1>1, <2>1 DEF CrossInv, UsbInv
  <2>5. ASSUME ~leaky'
        PROVE  (KeptInv /\ CarriedInv /\ ActiveInv)'
    <3>1. KeptInv /\ CarriedInv /\ ActiveInv
      BY <2>1, <2>5 DEF CrossInv
    <3>2. R!Content(queue)' = R!Content(queue)
      BY <2>3 DEF R!Content
    <3>3. Kept(frame[x]) /\ pc'[Usb] = pc[Usb]
      BY <1>1, <2>1, <3>1 DEF CarriedInv, Carried, Kept
    <3>4. KeptInv'
      BY <2>1, <2>3, <3>1, <3>2, <3>3 DEF KeptInv, Kept
    <3>5. CarriedInv' /\ ActiveInv'
      BY <1>1, <2>1, <3>1, <3>3 DEF CarriedInv, Carried, ActiveInv
    <3> QED
      BY <3>4, <3>5
  <2> QED
    BY <2>4, <2>5 DEF CrossInv
<1>4. CASE TransmitAppend(x)
  <2>1. /\ queue' = R!Appended(queue) /\ pc'[x] = "none" /\ pc[x] = "append"
        /\ \A b \in Actors : b # x => pc'[b] = pc[b]
        /\ \A y \in Xam : y # x => frame'[y] = frame[y]
        /\ UNCHANGED <<attached, phone, active, leaky>>
    BY <1>1, <1>4 DEF TransmitAppend, Goto, Forget
  <2>2. queue.count < Depth /\ P!Tight(queue)
    BY <2>1 DEF IInv, QueueInv, FillInv
  <2> DEFINE q == R!Content(queue)
             g == queue.slot[queue.tail]
  <2>3. /\ R!Content(queue') = Append(q, g) /\ Len(q) = queue.count
        /\ queue'.count = Len(Append(q, g)) /\ queue.count \in Nat
    BY <2>1, <2>2, QueueRing
  <2>4. UsbInv'
    BY <1>1, <2>1 DEF CrossInv, UsbInv
  <2>5. \A y \in Xam : pc'[y] # "append"
    <3>1. \A b \in Actors : b # x => pc[b] \notin Holding
      BY <1>1, <2>1, Alone DEF Holding
    <3> QED
      BY <1>1, <2>1, <3>1 DEF Holding
  <2>6. ASSUME ~leaky'
        PROVE  (KeptInv /\ CarriedInv /\ ActiveInv)'
    <3>1. KeptInv /\ CarriedInv /\ ActiveInv
      BY <2>1, <2>6 DEF CrossInv
    <3>2. Kept(g) /\ pc'[Usb] = pc[Usb]
      BY <1>1, <2>1, <3>1 DEF KeptInv
    <3>3. \A i \in 1..Len(q) : Kept(q[i])
      BY <2>3, <3>1 DEF KeptInv
    <3>4. q \in Seq(Frame \cup {Nobody}) /\ g \in Frame \cup {Nobody}
      BY <2>1, <2>2, QueueRing DEF IInv, QueueInv, FillInv, At
    <3> HIDE DEF q, g
    <3>5. \A i \in 1..queue'.count : Kept(Append(q, g)[i])
      BY <2>3, <3>2, <3>3, <3>4, AppendEach
    <3>6. R!Content(queue)' = Append(q, g)
      BY <2>3 DEF R!Content
    <3>7. \A i \in 1..queue'.count : Kept(R!Content(queue)[i])'
      BY <2>1, <3>2, <3>5, <3>6 DEF Kept
    <3>8. KeptInv'
      BY <2>5, <3>7 DEF KeptInv
    <3>9. CarriedInv' /\ ActiveInv'
      BY <1>1, <2>1, <3>1, <3>2 DEF CarriedInv, Carried, ActiveInv
    <3> QED
      BY <3>8, <3>9
  <2> QED
    BY <2>4, <2>6 DEF CrossInv
<1>5. CASE TransmitLock(x) \/ TransmitDrops(x)
  BY <1>1, <1>5, CrossQuiet DEF TransmitLock, TransmitDrops, Goto, Forget
<1>6. CASE Capture(x) \/ CaptureLock(x) \/ CaptureAgain(x) \/ CaptureDone(x)
  BY <1>1, <1>6, CrossQuiet
     DEF Capture, CaptureLock, CaptureAgain, CaptureDone, TryStateLock, Goto
<1> QED
  BY <1>2, <1>3, <1>4, <1>5, <1>6 DEF XboxTransmitCallback

\* The steps that empty the queue or take its first frame.
LEMMA CrossShorter ==
  ASSUME IInv, CrossInv, NEW a \in {Worker, Usb}, FlushClear(a) \/ (a = Worker /\ PopRemove)
  PROVE  CrossInv'
<1> USE DEF At, bridge, locks, macs, phones, work
<1>1. /\ a \in Actors /\ Usb \in Actors /\ a \notin Xam /\ Xam \subseteq Actors
      /\ Worker # Usb /\ DOMAIN pc = Actors
  BY ActorsAssumption DEF Actors, IInv, Base
<1>2. /\ pc[a] \in Holding /\ UNCHANGED <<frame, attached, phone, active, leaky>>
      /\ \A b \in Actors : b # a => pc'[b] = pc[b]
      /\ pc'[Usb] = pc[Usb] \/ (pc[Usb] = "clear" /\ pc'[Usb] = "idle")
  BY <1>1 DEF FlushClear, PopRemove, Goto, Flushed, Holding
<1>3. \A x \in Xam : pc'[x] = pc[x] /\ pc'[x] # "append"
  BY <1>1, <1>2, Alone DEF Holding
<1>4. UsbInv'
  BY <1>1, <1>2 DEF CrossInv, UsbInv
<1>5. P!Tight(queue) /\ (PopRemove => queue.count > 0)
  BY DEF IInv, QueueInv, TakeInv, PopRemove
<1>6. CASE FlushClear(a)
  <2>1. queue'.count = 0
    BY <1>6 DEF FlushClear, R!EmptyRing
  <2>2. KeptInv'
    BY <1>3, <2>1 DEF KeptInv
  <2> QED
    BY <1>1, <1>2, <1>3, <1>4, <2>2 DEF CrossInv, CarriedInv, Carried, ActiveInv
<1>7. CASE PopRemove /\ a = Worker
  <2> DEFINE q == R!Content(queue)
  <2>1. /\ R!Content(queue') = Tail(q) /\ P!Tight(queue') /\ q # <<>>
        /\ q \in Seq(Frame \cup {Nobody}) /\ Len(q) = queue.count
        /\ queue'.count = Len(Tail(q))
    BY <1>5, <1>7, QueueRing DEF PopRemove
  <2>2. pc'[Usb] = pc[Usb]
    BY <1>1, <1>2, <1>7
  <2>3. ASSUME ~leaky'
        PROVE  (KeptInv /\ CarriedInv /\ ActiveInv)'
    <3>1. KeptInv /\ CarriedInv /\ ActiveInv
      BY <1>2, <2>3 DEF CrossInv
    <3>2. \A i \in 1..Len(q) : Kept(q[i])
      BY <2>1, <3>1 DEF KeptInv
    <3> HIDE DEF q
    <3>3. \A i \in 1..queue'.count : Kept(Tail(q)[i])
      BY <2>1, <3>2, TailEach
    <3>4. R!Content(queue)' = Tail(q)
      BY <2>1 DEF R!Content
    <3>5. \A i \in 1..queue'.count : Kept(R!Content(queue)[i])'
      BY <1>2, <2>2, <3>3, <3>4 DEF Kept
    <3>6. KeptInv'
      BY <1>3, <3>5 DEF KeptInv
    <3>7. CarriedInv' /\ ActiveInv'
      BY <1>2, <1>3, <2>2, <3>1 DEF CarriedInv, Carried, ActiveInv
    <3> QED
      BY <3>6, <3>7
  <2> QED
    BY <1>4, <2>3 DEF CrossInv
<1> QED
  BY <1>6, <1>7

\* The steps of the USB thread before the flush.
LEMMA CrossUsb ==
  ASSUME IInv, CrossInv, AddDevice \/ RemoveDevice \/ PhoneDetached \/ FlushLock(Usb)
  PROVE  CrossInv'
<1> USE DEF At, bridge, locks, macs, phones, work
<1>1. /\ Usb \in Actors /\ Usb \notin Xam /\ Xam \subseteq Actors
      /\ DOMAIN pc = Actors /\ frame \in [Xam \cup {Worker} -> Frame \cup {Nobody}]
  BY ActorsAssumption DEF Actors, IInv, Base
<1>2. queue' = queue /\ R!Content(queue)' = R!Content(queue)
  BY DEF AddDevice, RemoveDevice, PhoneDetached, FlushLock
<1>3. \A x \in Xam : pc'[x] = pc[x]
  BY <1>1 DEF AddDevice, RemoveDevice, PhoneDetached, FlushLock, TryQueueLock, Goto
<1>4. UsbInv'
  BY <1>1 DEF AddDevice, RemoveDevice, PhoneDetached, FlushLock, TryQueueLock,
              Flushed, Goto, CrossInv, UsbInv
<1>5. ASSUME ~leaky'
      PROVE  (KeptInv /\ CarriedInv /\ ActiveInv)'
  <2>1. ~leaky
    BY <1>5 DEF AddDevice, RemoveDevice, PhoneDetached, FlushLock
  <2>2. KeptInv /\ CarriedInv /\ ActiveInv /\ UsbInv
    BY <2>1 DEF CrossInv
  <2>3. CASE AddDevice
    <3>1. /\ pc[Usb] = "idle" /\ ~attached /\ attached' /\ UNCHANGED <<pc, frame>>
      BY <2>3 DEF AddDevice
    <3>2. KeptInv'
      BY <1>2, <2>2, <3>1 DEF KeptInv, Kept
    <3> QED
      BY <2>2, <3>1, <3>2 DEF CarriedInv, Carried, ActiveInv
  <2>4. CASE RemoveDevice
    <3>1. /\ pc'[Usb] = "pause" /\ UNCHANGED <<phone, frame, active>>
      BY <1>1, <2>4 DEF RemoveDevice, Goto
    <3>2. KeptInv'
      BY <1>2, <1>3, <2>2, <3>1 DEF KeptInv, Kept
    <3> QED
      BY <1>3, <2>2, <3>1, <3>2 DEF CarriedInv, Carried, ActiveInv
  <2>5. CASE PhoneDetached
    <3>1. /\ pc[Usb] = "pause" /\ pc'[Usb] = "flush" /\ UNCHANGED <<phone, attached>>
          /\ active' = FALSE
      BY <1>1, <2>5 DEF PhoneDetached, Goto
    <3>2. KeptInv'
      BY <1>2, <1>3, <2>2, <3>1 DEF KeptInv, Kept
    <3>3. ASSUME NEW x \in Xam, pc'[x] # "none"
          PROVE  frame'[x].late
      <4>1. frame[x] \in Frame
        BY <1>3, <3>3 DEF IInv, XamInv
      <4>2. frame'[x] = [frame[x] EXCEPT !.late = TRUE]
        BY <1>1, <1>3, <2>5, <3>3 DEF PhoneDetached
      <4> QED
        BY <4>1, <4>2 DEF Frame
    <3> QED
      BY <3>1, <3>2, <3>3 DEF CarriedInv, Carried, ActiveInv
  <2>6. CASE FlushLock(Usb)
    <3>1. /\ pc[Usb] = "flush" /\ pc'[Usb] = "clear"
          /\ UNCHANGED <<phone, attached, frame, active>>
      BY <1>1, <1>5, <2>6 DEF FlushLock, TryQueueLock, Goto
    <3>2. KeptInv'
      BY <1>2, <1>3, <2>2, <3>1 DEF KeptInv, Kept
    <3> QED
      BY <1>3, <2>2, <3>1, <3>2 DEF CarriedInv, Carried, ActiveInv
  <2> QED
    BY <2>3, <2>4, <2>5, <2>6
<1> QED
  BY <1>4, <1>5 DEF CrossInv

LEMMA CrossStep == IInv /\ CrossInv /\ [Next]_vars => CrossInv'
<1> SUFFICES ASSUME IInv, CrossInv, [Next]_vars PROVE CrossInv'
  OBVIOUS
<1> USE DEF At, bridge, locks, macs, phones, work
<1>1. /\ Worker \in Actors /\ Usb \in Actors /\ Xam \subseteq Actors
      /\ Usb # Worker /\ Usb \notin Xam /\ Worker \notin Xam
      /\ DOMAIN pc = Actors /\ frame \in [Xam \cup {Worker} -> Frame \cup {Nobody}]
  BY ActorsAssumption DEF Actors, IInv, Base
<1>2. CASE AddDevice \/ RemoveDevice \/ PhoneDetached \/ FlushLock(Usb)
  BY <1>2, CrossUsb
<1>3. CASE FlushClear(Worker) \/ FlushClear(Usb) \/ PopRemove
  BY <1>3, CrossShorter
<1>4. ASSUME NEW x \in Xam, XboxTransmitCallback(x)
      PROVE  CrossInv'
  BY <1>4, CrossTransmit
<1>5. CASE FlushLock(Worker)
  BY <1>1, <1>5, CrossQuiet DEF FlushLock, TryQueueLock, Goto
<1>6. CASE \/ WorkerStart \/ WorkerRound \/ WorkerInject \/ UpdateEnable \/ PopEnds
           \/ UpdateStore \/ RegisterAccepted \/ RegisterRefused \/ UpdateDisable
  BY <1>1, <1>6, CrossQuiet
     DEF WorkerStart, WorkerRound, WorkerInject, UpdateEnable, PopEnds, Moves, Goto,
         UpdateStore, RegisterAccepted, RegisterRefused, UpdateDisable
<1>7. CASE InjectLock \/ InjectRead \/ UpdateLock \/ Report \/ ReportRead
  BY <1>1, <1>7, CrossQuiet
     DEF InjectLock, InjectRead, UpdateLock, Report, ReportRead, TryStateLock, Goto
<1>8. CASE UpdateActivate
  BY <1>1, <1>8, CrossQuiet DEF UpdateActivate, Goto
<1>9. CASE PopLock \/ PopTake \/ PopTranslate \/ PopTranslated
  BY <1>1, <1>9, CrossQuiet
     DEF PopLock, PopTake, PopTranslate, PopTranslated, TryStateLock, Goto, Forget
<1>10. CASE UNCHANGED vars
  BY <1>10, CrossQuiet DEF vars
<1> QED
  BY <1>2, <1>3, <1>4, <1>5, <1>6, <1>7, <1>8, <1>9, <1>10
     DEF Next, WorkerStep, FlushQueue

\* A frame is met by a phone it was not sent to only if its callback was
\* running while RemoveDevice was, the flush was refused, or a Worker that
\* outlived its phone switched the bridge on: for any number of threads.
THEOREM LateFramesCross == Spec => []OnlyLateFramesCross
<1>1. IInv /\ CrossInv /\ [Next]_vars => CrossInv'
  BY CrossStep
<1>2. CrossInv => OnlyLateFramesCross
  BY DEF CrossInv, KeptInv, Kept, OnlyLateFramesCross
<1> QED
  BY <1>1, <1>2, CrossInit, Invariance, PTL DEF Spec
=============================================================================
