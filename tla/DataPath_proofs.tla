-------------------------- MODULE DataPath_proofs ---------------------------
(***************************************************************************)
(* Proofs about the data path behind the phone's transfers and about the   *)
(* algorithms at its two ends: TetherQueues, the two frame queues of the   *)
(* tether driver, NetStack, the DHCP and ARP client that takes its frames  *)
(* from them, and Formats, the pure algorithms.                            *)
(*                                                                         *)
(* For any sizes of the queues and any number of frames and phones, the    *)
(* queues are FIFOs and the transfers are known.  For any addresses,       *)
(* options, lease times and retries, a lease is used only while it lasts,  *)
(* with an address that was offered, and is renewed before it runs out.    *)
(* Frames of any addresses and number of options are translated and        *)
(* translated back, of any transfer block exactly the frames inside it are *)
(* handed on, and a licence document of any length is judged by its lines. *)
(***************************************************************************)
EXTENDS TetherQueues, NetStack, Formats, WellFoundedInduction, TLAPS

TxP == INSTANCE FrameRing_proofs
       WITH Depth <- TxDepth, Frame <- Frames, NoFrame <- 0
RxP == INSTANCE FrameRing_proofs
       WITH Depth <- RxDepth, Frame <- Frames, NoFrame <- 0

-----------------------------------------------------------------------------
(* Sequences of consecutive numbers.                                       *)

LEMMA NumbersType ==
  ASSUME NEW a \in Nat, NEW b \in Nat, a <= b
  PROVE  Numbers(a, b) \in Seq(Nat) /\ Len(Numbers(a, b)) = b - a
<1>1. Numbers(a, b) \in [1..(b - a) -> Nat]
  BY DEF Numbers
<1>2. b - a \in Nat
  OBVIOUS
<1> QED
  BY <1>1, <1>2

LEMMA NumbersNone == Numbers(0, 0) = <<>>
<1>1. Len(Numbers(0, 0)) = 0 /\ Numbers(0, 0) \in Seq(Nat)
  BY NumbersType
<1> QED
  BY <1>1

LEMMA NumbersMore ==
  ASSUME NEW a \in Nat, NEW b \in Nat, a <= b
  PROVE  Append(Numbers(a, b), b + 1) = Numbers(a, b + 1)
<1> DEFINE q == Numbers(a, b)
<1>1. q \in Seq(Nat) /\ Len(q) = b - a
  BY NumbersType
<1>2. \A i \in 1..(b - a) : q[i] = a + i
  BY DEF Numbers
<1> HIDE DEF q
<1>3. Append(q, b + 1) \in Seq(Nat) /\ Len(Append(q, b + 1)) = b - a + 1
  BY <1>1
<1>4. Append(q, b + 1) = [i \in 1..(b - a + 1) |-> Append(q, b + 1)[i]]
  BY <1>3, TxP!SequenceIsFunction
<1>5. ASSUME NEW i \in 1..(b - a + 1)
      PROVE  Append(q, b + 1)[i] = a + i
  <2>1. CASE i = b - a + 1
    BY <1>1, <2>1
  <2>2. CASE i \in 1..(b - a)
    BY <1>1, <1>2, <2>2
  <2>3. b - a \in Nat
    OBVIOUS
  <2>4. i = b - a + 1 \/ i \in 1..(b - a)
    BY <1>5, <2>3
  <2> QED
    BY <2>1, <2>2, <2>4
<1>6. b + 1 - a = b - a + 1
  OBVIOUS
<1>7. Numbers(a, b + 1) = [i \in 1..(b - a + 1) |-> a + i]
  BY <1>6 DEF Numbers
<1> QED
  BY <1>4, <1>5, <1>7 DEF q

LEMMA NumbersFewer ==
  ASSUME NEW a \in Nat, NEW b \in Nat, a <= b, Numbers(a, b) # <<>>
  PROVE  /\ a + 1 <= b
         /\ Head(Numbers(a, b)) = a + 1
         /\ Tail(Numbers(a, b)) = Numbers(a + 1, b)
<1> DEFINE q == Numbers(a, b)
<1>1. q \in Seq(Nat) /\ Len(q) = b - a /\ q # <<>>
  BY NumbersType
<1>2. \A i \in 1..(b - a) : q[i] = a + i
  BY DEF Numbers
<1> HIDE DEF q
<1>3. a + 1 <= b /\ Head(q) = q[1] /\ 1 \in 1..(b - a)
  BY <1>1
<1>4. Tail(q) \in Seq(Nat) /\ Len(Tail(q)) = b - a - 1
  BY <1>1
<1>5. Tail(q) = [i \in 1..(b - a - 1) |-> Tail(q)[i]]
  BY <1>4, TxP!SequenceIsFunction
<1>6. ASSUME NEW i \in 1..(b - a - 1)
      PROVE  Tail(q)[i] = (a + 1) + i
  <2>1. i + 1 \in 1..(b - a) /\ i \in Nat
    BY <1>3, <1>6
  <2>2. Tail(q)[i] = q[i + 1]
    BY <1>1, <1>6
  <2>3. q[i + 1] = a + (i + 1)
    BY <1>2, <2>1
  <2>4. a + (i + 1) = (a + 1) + i
    BY <2>1
  <2> QED
    BY <2>2, <2>3, <2>4
<1>7. b - (a + 1) = b - a - 1
  OBVIOUS
<1>8. Numbers(a + 1, b) = [i \in 1..(b - a - 1) |-> (a + 1) + i]
  BY <1>7 DEF Numbers
<1> QED
  BY <1>2, <1>3, <1>5, <1>6, <1>8 DEF q

-----------------------------------------------------------------------------
(* What the ring lemmas say in terms of the two queues.                    *)

LEMMA TxRing ==
  /\ TxP!Tight(Tx!EmptyRing) /\ Tx!Content(Tx!EmptyRing) = <<>>
  /\ \A r : TxP!Tight(r) =>
       /\ r.count \in 0..TxDepth
       /\ r.count # TxDepth => \A f \in Frames :
            /\ TxP!Tight(Tx!Filled(r, f))
            /\ Tx!Content(Tx!Filled(r, f)) = Tx!Content(r)
            /\ Tx!Filled(r, f).count = r.count
            /\ Tx!Filled(r, f).slot[Tx!Filled(r, f).tail] = f
       /\ r.count < TxDepth =>
            /\ TxP!Tight(Tx!Appended(r))
            /\ Tx!Content(Tx!Appended(r)) =
                 Append(Tx!Content(r), r.slot[r.tail])
       /\ r.count # 0 =>
            /\ TxP!Tight(Tx!Removed(r))
            /\ Tx!Content(r) # <<>>
            /\ Tx!First(r) = Head(Tx!Content(r))
            /\ Tx!Content(Tx!Removed(r)) = Tail(Tx!Content(r))
<1> USE SizesAssumption
<1>1. TxP!EmptyRing = Tx!EmptyRing /\ TxP!Content(TxP!EmptyRing) = Tx!Content(Tx!EmptyRing)
  BY DEF TxP!EmptyRing, Tx!EmptyRing, TxP!Slots, Tx!Slots, TxP!Content, Tx!Content
<1>2. TxP!Tight(Tx!EmptyRing) /\ Tx!Content(Tx!EmptyRing) = <<>>
  BY <1>1, TxP!EmptyIsTight
<1>3. \A r : TxP!Content(r) = Tx!Content(r)
  BY DEF TxP!Content, Tx!Content
<1>4. \A r, f : TxP!Filled(r, f) = Tx!Filled(r, f)
  BY DEF TxP!Filled, Tx!Filled
<1>5. \A r : TxP!Appended(r) = Tx!Appended(r)
  BY DEF TxP!Appended, Tx!Appended
<1>6. \A r : TxP!Removed(r) = Tx!Removed(r) /\ TxP!First(r) = Tx!First(r)
  BY DEF TxP!Removed, Tx!Removed, TxP!First, Tx!First
<1>7. ASSUME NEW r, TxP!Tight(r)
      PROVE  r.count \in 0..TxDepth
  BY <1>7 DEF TxP!Tight, TxP!Ring
<1>8. ASSUME NEW r, TxP!Tight(r), r.count # TxDepth, NEW f \in Frames
      PROVE  /\ TxP!Tight(Tx!Filled(r, f))
             /\ Tx!Content(Tx!Filled(r, f)) = Tx!Content(r)
             /\ Tx!Filled(r, f).count = r.count
             /\ Tx!Filled(r, f).slot[Tx!Filled(r, f).tail] = f
  <2>1. r.count < TxDepth
    BY <1>7, <1>8
  <2> QED
    BY <1>3, <1>4, <1>8, <2>1, TxP!FilledKeepsContent
<1>9. ASSUME NEW r, TxP!Tight(r), r.count < TxDepth
      PROVE  /\ TxP!Tight(Tx!Appended(r))
             /\ Tx!Content(Tx!Appended(r)) = Append(Tx!Content(r), r.slot[r.tail])
  BY <1>3, <1>5, <1>9, TxP!AppendedAppends
<1>10. ASSUME NEW r, TxP!Tight(r), r.count # 0
       PROVE  /\ TxP!Tight(Tx!Removed(r))
              /\ Tx!Content(r) # <<>>
              /\ Tx!First(r) = Head(Tx!Content(r))
              /\ Tx!Content(Tx!Removed(r)) = Tail(Tx!Content(r))
  <2>1. r.count > 0
    BY <1>7, <1>10
  <2> QED
    BY <1>3, <1>6, <1>10, <2>1, TxP!RemovedRemoves
<1> QED
  BY <1>2, <1>7, <1>8, <1>9, <1>10

LEMMA RxRing ==
  /\ RxP!Tight(Rx!EmptyRing) /\ Rx!Content(Rx!EmptyRing) = <<>>
  /\ \A r : RxP!Tight(r) =>
       /\ r.count \in 0..RxDepth
       /\ r.count # RxDepth => \A f \in Frames :
            /\ RxP!Tight(Rx!Filled(r, f))
            /\ Rx!Content(Rx!Filled(r, f)) = Rx!Content(r)
            /\ Rx!Filled(r, f).count = r.count
            /\ Rx!Filled(r, f).slot[Rx!Filled(r, f).tail] = f
       /\ r.count < RxDepth =>
            /\ RxP!Tight(Rx!Appended(r))
            /\ Rx!Content(Rx!Appended(r)) =
                 Append(Rx!Content(r), r.slot[r.tail])
       /\ r.count # 0 =>
            /\ RxP!Tight(Rx!Removed(r))
            /\ Rx!Content(r) # <<>>
            /\ Rx!First(r) = Head(Rx!Content(r))
            /\ Rx!Content(Rx!Removed(r)) = Tail(Rx!Content(r))
<1> USE SizesAssumption
<1>1. RxP!EmptyRing = Rx!EmptyRing /\ RxP!Content(RxP!EmptyRing) = Rx!Content(Rx!EmptyRing)
  BY DEF RxP!EmptyRing, Rx!EmptyRing, RxP!Slots, Rx!Slots, RxP!Content, Rx!Content
<1>2. RxP!Tight(Rx!EmptyRing) /\ Rx!Content(Rx!EmptyRing) = <<>>
  BY <1>1, RxP!EmptyIsTight
<1>3. \A r : RxP!Content(r) = Rx!Content(r)
  BY DEF RxP!Content, Rx!Content
<1>4. \A r, f : RxP!Filled(r, f) = Rx!Filled(r, f)
  BY DEF RxP!Filled, Rx!Filled
<1>5. \A r : RxP!Appended(r) = Rx!Appended(r)
  BY DEF RxP!Appended, Rx!Appended
<1>6. \A r : RxP!Removed(r) = Rx!Removed(r) /\ RxP!First(r) = Rx!First(r)
  BY DEF RxP!Removed, Rx!Removed, RxP!First, Rx!First
<1>7. ASSUME NEW r, RxP!Tight(r)
      PROVE  r.count \in 0..RxDepth
  BY <1>7 DEF RxP!Tight, RxP!Ring
<1>8. ASSUME NEW r, RxP!Tight(r), r.count # RxDepth, NEW f \in Frames
      PROVE  /\ RxP!Tight(Rx!Filled(r, f))
             /\ Rx!Content(Rx!Filled(r, f)) = Rx!Content(r)
             /\ Rx!Filled(r, f).count = r.count
             /\ Rx!Filled(r, f).slot[Rx!Filled(r, f).tail] = f
  <2>1. r.count < RxDepth
    BY <1>7, <1>8
  <2> QED
    BY <1>3, <1>4, <1>8, <2>1, RxP!FilledKeepsContent
<1>9. ASSUME NEW r, RxP!Tight(r), r.count < RxDepth
      PROVE  /\ RxP!Tight(Rx!Appended(r))
             /\ Rx!Content(Rx!Appended(r)) = Append(Rx!Content(r), r.slot[r.tail])
  BY <1>3, <1>5, <1>9, RxP!AppendedAppends
<1>10. ASSUME NEW r, RxP!Tight(r), r.count # 0
       PROVE  /\ RxP!Tight(Rx!Removed(r))
              /\ Rx!Content(r) # <<>>
              /\ Rx!First(r) = Head(Rx!Content(r))
              /\ Rx!Content(Rx!Removed(r)) = Tail(Rx!Content(r))
  <2>1. r.count > 0
    BY <1>7, <1>10
  <2> QED
    BY <1>3, <1>6, <1>10, <2>1, RxP!RemovedRemoves
<1> QED
  BY <1>2, <1>7, <1>8, <1>9, <1>10

-----------------------------------------------------------------------------
(* The transmit queue.  Whoever is between its try-lock and the release    *)
(* has it, so the slot that a sender has filled is still the one at the    *)
(* tail when it moves the indexes.                                         *)

Holding == {"sendCopy", "sendIndex", "pumpTake"}
Senders == {Worker, Licence}

LockInv == \A t \in Senders : pc[t] \in Holding => txLock = t

FilledInv ==
  \A t \in Senders : At(t, "sendIndex") =>
    txq.count < TxDepth /\ txq.slot[txq.tail] = accepted + 1

TxOrder ==
  /\ accepted \in Nat /\ left \in Nat /\ left <= accepted
  /\ TxP!Tight(txq) /\ Tx!Content(txq) = Numbers(left, accepted)

TxInv == DOMAIN pc = Threads /\ (~stale => TxOrder /\ LockInv /\ FilledInv)

\* What leaves the queue alone and does not bring a sender to it.
LEMMA TxQuiet ==
  ASSUME TxInv, UNCHANGED <<txq, txLock, accepted, left, stale>>,
         DOMAIN pc' = Threads,
         \A t \in Senders : pc'[t] \in Holding => pc'[t] = pc[t]
  PROVE  TxInv'
<1>1. ASSUME ~stale'
      PROVE  (TxOrder /\ LockInv /\ FilledInv)'
  <2>1. TxOrder /\ LockInv /\ FilledInv
    BY <1>1 DEF TxInv
  <2>2. TxOrder'
    BY <2>1 DEF TxOrder
  <2>3. LockInv'
    BY <2>1 DEF LockInv
  <2>4. FilledInv'
    BY <2>1 DEF FilledInv, At, Holding
  <2> QED
    BY <2>2, <2>3, <2>4
<1> QED
  BY <1>1 DEF TxInv

LEMMA TxInit == Init => TxInv
<1> SUFFICES ASSUME Init PROVE TxInv
  OBVIOUS
<1>1. TxOrder
  BY TxRing, NumbersNone DEF Init, TxOrder
<1>2. DOMAIN pc = Threads /\ \A t \in Senders : pc[t] = "rest"
  BY DEF Init, Threads, Senders, Worker, Licence, Usb
<1> QED
  BY <1>1, <1>2 DEF TxInv, LockInv, FilledInv, Holding, At

\* The sender takes the lock that nobody has.
LEMMA TxSendLocks ==
  ASSUME TxInv, NEW t \in Senders, SendLocks(t)
  PROVE  TxInv'
<1> USE DEF SendLocks, Goto, At, device, in, receipt
<1>1. DOMAIN pc' = Threads /\ pc'[t] = "sendCopy"
      /\ \A u \in Senders \ {t} : pc'[u] = pc[u]
  BY DEF TxInv, Senders, Threads
<1>2. ASSUME ~stale'
      PROVE  (TxOrder /\ LockInv /\ FilledInv)'
  <2>1. TxOrder /\ LockInv /\ FilledInv
    BY <1>2 DEF TxInv
  <2>2. TxOrder'
    BY <2>1 DEF TxOrder
  <2>3. \A u \in Senders : pc[u] \notin Holding
    BY <2>1 DEF LockInv, Senders, Worker, Licence, Nobody
  <2>4. LockInv'
    BY <1>1, <2>3 DEF LockInv
  <2>5. FilledInv'
    BY <1>1, <2>3 DEF FilledInv, Holding
  <2> QED
    BY <2>2, <2>4, <2>5
<1> QED
  BY <1>1, <1>2 DEF TxInv

LEMMA TxSendCopies ==
  ASSUME TxInv, NEW t \in Senders, SendCopies(t)
  PROVE  TxInv'
<1> USE DEF Goto, At, device, in, receipt
<1>1. DOMAIN pc' = Threads /\ pc'[t] \in {"sendIndex", "rest", "pump"}
      /\ \A u \in Senders \ {t} : pc'[u] = pc[u]
  BY DEF TxInv, Senders, Threads, SendCopies, AfterSend
<1>2. ASSUME ~stale'
      PROVE  (TxOrder /\ LockInv /\ FilledInv)'
  <2>1. TxOrder /\ LockInv /\ FilledInv /\ pc[t] = "sendCopy"
    BY <1>2 DEF TxInv, SendCopies
  <2>2. txLock = t /\ \A u \in Senders \ {t} : pc[u] \notin Holding
    BY <2>1 DEF LockInv, Holding, Senders, Worker, Licence
  <2>3. CASE txq.count = TxDepth
    <3>1. pc'[t] \notin Holding /\ UNCHANGED <<txq, accepted, left>>
      BY <2>3, <2>1 DEF SendCopies, AfterSend, Holding, TxInv, Senders, Threads
    <3>2. TxOrder'
      BY <2>1, <3>1 DEF TxOrder
    <3>3. \A u \in Senders : pc'[u] \notin Holding
      BY <1>1, <2>2, <3>1
    <3> QED
      BY <3>2, <3>3 DEF LockInv, FilledInv, Holding
  <2>4. CASE txq.count # TxDepth
    <3>1. /\ txq' = Tx!Filled(txq, accepted + 1)
          /\ UNCHANGED <<txLock, accepted, left>>
      BY <2>4 DEF SendCopies
    <3>2. accepted + 1 \in Frames /\ txq.count < TxDepth
      BY <2>1, <2>4, TxRing, SizesAssumption DEF TxOrder, Frames
    <3>3. /\ TxP!Tight(txq') /\ Tx!Content(txq') = Tx!Content(txq)
          /\ txq'.count = txq.count /\ txq'.slot[txq'.tail] = accepted + 1
      BY <2>1, <2>4, <3>1, <3>2, TxRing DEF TxOrder
    <3>4. TxOrder'
      <4>1. Tx!Content(txq)' = Numbers(left, accepted)'
        BY <2>1, <3>1, <3>3 DEF TxOrder, Tx!Content, Numbers
      <4> QED
        BY <2>1, <3>1, <3>3, <4>1 DEF TxOrder
    <3>5. LockInv'
      BY <1>1, <2>2, <3>1 DEF LockInv
    <3>6. FilledInv'
      BY <3>1, <3>2, <3>3 DEF FilledInv
    <3> QED
      BY <3>4, <3>5, <3>6
  <2> QED
    BY <2>3, <2>4
<1> QED
  BY <1>1, <1>2 DEF TxInv

\* The number in the slot is that of the next frame.
LEMMA TxSendAppends ==
  ASSUME TxInv, NEW t \in Senders, SendAppends(t)
  PROVE  TxInv'
<1> USE DEF Goto, At, device, in, receipt
<1>1. DOMAIN pc' = Threads /\ pc'[t] \in {"rest", "pump"}
      /\ \A u \in Senders \ {t} : pc'[u] = pc[u]
  BY DEF TxInv, Senders, Threads, SendAppends, AfterSend
<1>2. ASSUME ~stale'
      PROVE  (TxOrder /\ LockInv /\ FilledInv)'
  <2>1. TxOrder /\ LockInv /\ FilledInv /\ pc[t] = "sendIndex"
    BY <1>2 DEF TxInv, SendAppends
  <2>2. \A u \in Senders \ {t} : pc[u] \notin Holding
    BY <2>1 DEF LockInv, Holding, Senders, Worker, Licence
  <2>3. \A u \in Senders : pc'[u] \notin Holding
    BY <1>1, <2>2 DEF Holding
  <2>4. txq.count < TxDepth /\ txq.slot[txq.tail] = accepted + 1
    BY <2>1 DEF FilledInv
  <2>5. /\ txq' = Tx!Appended(txq) /\ accepted' = accepted + 1 /\ left' = left
    BY DEF SendAppends
  <2>6. /\ TxP!Tight(txq')
        /\ Tx!Content(txq') = Append(Numbers(left, accepted), accepted + 1)
    BY <2>1, <2>4, <2>5, TxRing DEF TxOrder
  <2>7. Tx!Content(txq') = Numbers(left, accepted + 1)
    BY <2>1, <2>6, NumbersMore DEF TxOrder
  <2>8. Tx!Content(txq)' = Numbers(left, accepted)'
    BY <2>5, <2>7 DEF Tx!Content, Numbers
  <2>9. TxOrder'
    BY <2>1, <2>5, <2>6, <2>8 DEF TxOrder
  <2> QED
    BY <2>3, <2>9 DEF LockInv, FilledInv, Holding
<1> QED
  BY <1>1, <1>2 DEF TxInv

LEMMA TxPumpLocks ==
  ASSUME TxInv, PumpLocks
  PROVE  TxInv'
<1> USE DEF PumpLocks, Goto, At, device, in, receipt
<1>1. DOMAIN pc' = Threads /\ pc'[Licence] = pc[Licence]
      /\ pc'[Worker] \in {"pumpTake", "rest"}
  BY DEF TxInv, Threads, Worker, Licence
<1>2. ASSUME ~stale'
      PROVE  (TxOrder /\ LockInv /\ FilledInv)'
  <2>1. TxOrder /\ LockInv /\ FilledInv
    BY <1>2 DEF TxInv
  <2>2. TxOrder'
    BY <2>1 DEF TxOrder
  <2>3. LockInv'
    <3>1. CASE txLock = Nobody
      <4>1. pc[Licence] \notin Holding /\ txLock' = Worker
        BY <2>1, <3>1 DEF LockInv, Senders, Licence, Nobody
      <4> QED
        BY <1>1, <4>1 DEF LockInv, Senders
    <3>2. CASE txLock # Nobody
      <4>1. pc'[Worker] = "rest" /\ txLock' = txLock
        BY <3>2 DEF TxInv, Threads
      <4> QED
        BY <1>1, <2>1, <4>1 DEF LockInv, Senders, Holding
    <3> QED
      BY <3>1, <3>2
  <2>4. FilledInv'
    BY <1>1, <2>1 DEF FilledInv, Senders
  <2> QED
    BY <2>2, <2>3, <2>4
<1> QED
  BY <1>1, <1>2 DEF TxInv

\* The frame that leaves is the next after the last that left.
LEMMA TxPumpTakes ==
  ASSUME TxInv, PumpTakes
  PROVE  TxInv'
<1> USE DEF Goto, At, device, in, receipt
<1>1. DOMAIN pc' = Threads /\ pc'[Licence] = pc[Licence]
      /\ pc'[Worker] \in {"submit", "rest"}
  BY DEF PumpTakes, TxInv, Threads, Worker, Licence
<1>2. ASSUME ~stale'
      PROVE  (TxOrder /\ LockInv /\ FilledInv)'
  <2>1. TxOrder /\ LockInv /\ FilledInv /\ pc[Worker] = "pumpTake"
    BY <1>2 DEF TxInv, PumpTakes
  <2>2. pc[Licence] \notin Holding
    BY <2>1 DEF LockInv, Holding, Senders, Worker, Licence
  <2>3. \A u \in Senders : pc'[u] \notin Holding
    BY <1>1, <2>2 DEF Holding, Senders
  <2>4. TxOrder'
    <3>1. CASE txq.count = 0 \/ Tx!First(txq) = 0
      <4>1. UNCHANGED <<txq, accepted, left>>
        BY <3>1 DEF PumpTakes
      <4> QED
        BY <2>1, <4>1 DEF TxOrder
    <3>2. CASE ~(txq.count = 0 \/ Tx!First(txq) = 0)
      <4>1. /\ left' = Tx!First(txq) /\ txq' = Tx!Removed(txq)
            /\ accepted' = accepted
        BY <3>2 DEF PumpTakes
      <4> DEFINE q == Numbers(left, accepted)
      <4>2. /\ TxP!Tight(txq') /\ q # <<>>
            /\ left' = Head(q) /\ Tx!Content(txq') = Tail(q)
        BY <2>1, <3>2, <4>1, TxRing DEF TxOrder
      <4>3. left' = left + 1 /\ left + 1 <= accepted /\ Tx!Content(txq') = Numbers(left + 1, accepted)
        BY <2>1, <4>2, NumbersFewer DEF TxOrder
      <4>4. Tx!Content(txq)' = Numbers(left, accepted)'
        BY <4>1, <4>3 DEF Tx!Content, Numbers
      <4> QED
        BY <2>1, <4>1, <4>2, <4>3, <4>4 DEF TxOrder
    <3> QED
      BY <3>1, <3>2
  <2> QED
    BY <2>3, <2>4 DEF LockInv, FilledInv, Holding
<1> QED
  BY <1>1, <1>2 DEF TxInv

\* A phone is not stale when no sender was at work as the context was zeroed.
LEMMA TxAddDevice ==
  ASSUME TxInv, AddDevice
  PROVE  TxInv'
<1> USE DEF AddDevice, Zeroed, At
<1>1. ASSUME ~stale'
      PROVE  (TxOrder /\ LockInv /\ FilledInv)'
  <2>1. \A t \in Senders : pc'[t] = "rest"
    BY <1>1 DEF Senders
  <2>2. Tx!Content(txq') = Numbers(0, 0) /\ TxP!Tight(txq')
    BY TxRing, NumbersNone
  <2>3. Tx!Content(txq)' = Numbers(left, accepted)'
    BY <2>2 DEF Tx!Content, Numbers
  <2>4. TxOrder'
    BY <2>2, <2>3 DEF TxOrder
  <2> QED
    BY <2>1, <2>4 DEF LockInv, FilledInv, Holding
<1> QED
  BY <1>1 DEF TxInv

LEMMA TxStep == TxInv /\ [Next]_vars => TxInv'
<1> SUFFICES ASSUME TxInv, [Next]_vars PROVE TxInv'
  OBVIOUS
<1> USE DEF Goto, At, device, out, in, receipt, Holding
<1> DEFINE Quiet == /\ UNCHANGED <<txq, txLock, accepted, left, stale>>
                    /\ DOMAIN pc' = Threads
                    /\ \A t \in Senders : pc'[t] \in Holding => pc'[t] = pc[t]
<1>q. Quiet => TxInv'
  BY TxQuiet
<1>t. DOMAIN pc = Threads /\ Senders = {Worker, Licence} /\ Worker # Usb /\ Licence # Usb
      /\ Worker # Licence
  BY DEF TxInv, Senders, Worker, Licence, Usb
<1> DEFINE Moves(a, p) == pc' = [pc EXCEPT ![a] = p]
<1>m. \A a \in Threads : \A p : Moves(a, p) /\ p \notin Holding =>
        /\ DOMAIN pc' = Threads
        /\ \A t \in Senders : pc'[t] \in Holding => pc'[t] = pc[t]
  BY <1>t
<1>u. Senders \subseteq Threads /\ Worker \in Threads /\ Usb \in Threads
  BY <1>t DEF Threads
<1>k. pc' = pc => /\ DOMAIN pc' = Threads
                  /\ \A t \in Senders : pc'[t] \in Holding => pc'[t] = pc[t]
  BY <1>t
<1> HIDE DEF Holding, Goto
<1>h. {"rest", "receive", "pop", "send", "pump", "pumpLock", "submit", "sendLock",
       "idle", "block", "push", "arm", "close"} \cap Holding = {}
  BY DEF Holding
<1>1. ASSUME NEW t \in Senders, SendStarts(t) \/ SendGivesUp(t)
      PROVE  Quiet
  BY <1>1, <1>h, <1>m, <1>u DEF SendStarts, SendGivesUp, AfterSend, Goto
<1>2. ASSUME NEW t \in Senders, SendStep(t)
      PROVE  TxInv'
  BY <1>2, <1>1, <1>q, TxSendLocks, TxSendCopies, TxSendAppends DEF SendStep
<1>3. ASSUME RoundStarts \/ PopTries \/ Pops \/ SendsDone
      PROVE  Quiet
  BY <1>3, <1>h, <1>k, <1>m, <1>u DEF Goto, RoundStarts, PopTries, Pops, SendsDone
<1>4. ASSUME PumpTx \/ Submits
      PROVE  Quiet
  BY <1>4, <1>h, <1>k, <1>m, <1>u DEF Goto, PumpTx, Submits
<1>5. ASSUME UsbStep
      PROVE  Quiet
  BY <1>5, <1>h, <1>k, <1>m, <1>u DEF Goto, UsbStep, Arms, Consumes, Pushes, BlockEnds, Closes
<1>6. ASSUME OpensData \/ RemoveDevice \/ TxComplete
      PROVE  Quiet
  BY <1>6, <1>h, <1>k, <1>m, <1>u DEF Goto, OpensData, RemoveDevice, TxComplete
<1>7. ASSUME RxFails \/ RxMalformed \/ RxComes
      PROVE  Quiet
  BY <1>7, <1>h, <1>k, <1>m, <1>u DEF Goto, RxFails, RxMalformed, RxComes
<1>8. ASSUME UNCHANGED vars
      PROVE  Quiet
  BY <1>8, <1>h, <1>k, <1>m, <1>u DEF Goto, vars
<1>9. CASE WorkerStep
  BY <1>2, <1>3, <1>4, <1>9, <1>q, <1>t, TxPumpLocks, TxPumpTakes DEF WorkerStep
<1> QED
  BY <1>1, <1>2, <1>5, <1>6, <1>7, <1>8, <1>9, <1>q, <1>t, TxAddDevice
     DEF Next, UsbEvent

-----------------------------------------------------------------------------
(* The receive queue.  Each of its users changes it in one step under the  *)
(* lock, and AddDevice empties it together with its history.               *)

RxOrder ==
  /\ came \in Nat /\ handed \in Nat /\ handed <= came
  /\ RxP!Tight(rxq) /\ Rx!Content(rxq) = Numbers(handed, came)

LEMMA RxEmpty ==
  ASSUME rxq' = Rx!EmptyRing, came' = 0, handed' = 0
  PROVE  RxOrder'
<1>1. Rx!Content(rxq') = Numbers(0, 0) /\ RxP!Tight(rxq')
  BY RxRing, NumbersNone
<1>2. Rx!Content(rxq)' = Numbers(handed, came)'
  BY <1>1 DEF Rx!Content, Numbers
<1> QED
  BY <1>1, <1>2 DEF RxOrder

LEMMA RxPushes ==
  ASSUME RxOrder, Pushes
  PROVE  RxOrder'
<1>1. CASE rxq.count = RxDepth
  <2>1. UNCHANGED <<rxq, came, handed>>
    BY <1>1 DEF Pushes
  <2> QED
    BY <2>1 DEF RxOrder
<1>2. CASE rxq.count # RxDepth
  <2> DEFINE r == Rx!Filled(rxq, came + 1)
  <2>1. rxq' = Rx!Appended(r) /\ came' = came + 1 /\ handed' = handed
    BY <1>2 DEF Pushes
  <2>2. came + 1 \in Frames /\ rxq.count < RxDepth
    BY <1>2, RxRing, SizesAssumption DEF RxOrder, Frames
  <2>3. /\ RxP!Tight(r) /\ Rx!Content(r) = Numbers(handed, came)
        /\ r.count < RxDepth /\ r.slot[r.tail] = came + 1
    BY <1>2, <2>2, RxRing DEF RxOrder
  <2> HIDE DEF r
  <2>4. /\ RxP!Tight(rxq')
        /\ Rx!Content(rxq') = Append(Numbers(handed, came), came + 1)
    BY <2>1, <2>3, RxRing
  <2>5. Rx!Content(rxq') = Numbers(handed, came + 1)
    BY <2>4, NumbersMore DEF RxOrder
  <2>6. Rx!Content(rxq)' = Numbers(handed, came)'
    BY <2>1, <2>5 DEF Rx!Content, Numbers
  <2> QED
    BY <2>1, <2>4, <2>6 DEF RxOrder
<1> QED
  BY <1>1, <1>2

LEMMA RxPops ==
  ASSUME RxOrder, Pops
  PROVE  RxOrder'
<1>1. CASE rxq.count = 0
  <2>1. UNCHANGED <<rxq, came, handed>>
    BY <1>1 DEF Pops
  <2> QED
    BY <2>1 DEF RxOrder
<1>2. CASE rxq.count # 0
  <2>1. handed' = Rx!First(rxq) /\ rxq' = Rx!Removed(rxq) /\ came' = came
    BY <1>2 DEF Pops
  <2> DEFINE q == Numbers(handed, came)
  <2>2. /\ RxP!Tight(rxq') /\ q # <<>>
        /\ handed' = Head(q) /\ Rx!Content(rxq') = Tail(q)
    BY <1>2, <2>1, RxRing DEF RxOrder
  <2>3. /\ handed' = handed + 1 /\ handed + 1 <= came
        /\ Rx!Content(rxq') = Numbers(handed + 1, came)
    BY <2>2, NumbersFewer DEF RxOrder
  <2>4. Rx!Content(rxq)' = Numbers(handed, came)'
    BY <2>1, <2>3 DEF Rx!Content, Numbers
  <2> QED
    BY <2>1, <2>2, <2>3, <2>4 DEF RxOrder
<1> QED
  BY <1>1, <1>2

LEMMA RxStep == RxOrder /\ [Next]_vars => RxOrder'
<1> SUFFICES ASSUME RxOrder, [Next]_vars PROVE RxOrder'
  OBVIOUS
<1>1. UNCHANGED <<rxq, came, handed>> => RxOrder'
  BY DEF RxOrder
<1> USE DEF in
<1>2. ASSUME NEW t \in {Worker, Licence}, SendStarts(t) \/ SendStep(t)
      PROVE  UNCHANGED <<rxq, came, handed>>
  BY <1>2 DEF SendStarts, SendStep, SendLocks, SendGivesUp, SendCopies, SendAppends
<1>3. CASE WorkerStep
  BY <1>1, <1>2, <1>3, RxPops
     DEF WorkerStep, RoundStarts, PopTries, SendsDone, PumpTx, PumpLocks,
         PumpTakes, Submits
<1>4. CASE UsbStep
  BY <1>1, <1>4, RxPushes DEF UsbStep, Arms, Consumes, BlockEnds, Closes
<1>5. CASE UsbEvent
  BY <1>1, <1>5, RxEmpty
     DEF UsbEvent, AddDevice, Zeroed, OpensData, RemoveDevice, RxFails,
         RxMalformed, RxComes
<1>6. CASE TxComplete \/ UNCHANGED vars
  BY <1>1, <1>6 DEF TxComplete, vars
<1> QED
  BY <1>1, <1>2, <1>3, <1>4, <1>5, <1>6 DEF Next

LEMMA RxInit == Init => RxOrder
  BY RxRing, NumbersNone DEF Init, RxOrder

\* Both queues are first in, first out and lose nothing that they took, for
\* any depth of the queues and any number of frames: SendEthernet and PumpTx
\* of tether_driver.cpp on the one, ConsumeEthernet and PopEthernet on the other.
THEOREM QueuesInOrder == Spec => []FramesInOrder
<1> DEFINE Inv == TxInv /\ RxOrder
<1>1. Init => Inv
  BY TxInit, RxInit
<1>2. Inv /\ [Next]_vars => Inv'
  BY TxStep, RxStep
<1>3. Inv => FramesInOrder
  BY DEF TxInv, TxOrder, RxOrder, FramesInOrder
<1> QED
  BY <1>1, <1>2, <1>3, PTL DEF Spec

-----------------------------------------------------------------------------
(* The transfers.  What TransfersAreKnown needs besides itself is that no  *)
(* transfer survives the removal of its phone: RemoveDevice closes the     *)
(* endpoints before the next phone can be added.                           *)

TransferType ==
  /\ DOMAIN pc = Threads
  /\ sending \in Nat
  /\ txBusy \in BOOLEAN /\ attached \in BOOLEAN /\ opened \in BOOLEAN
  /\ stale \in BOOLEAN

ClosedInv ==
  /\ At(Usb, "close") => ~attached
  /\ ~attached /\ ~At(Usb, "close") => ~opened /\ sending = 0

BusyInv ==
  attached /\ ~stale =>
    /\ txBusy <=> sending = 1 \/ pc[Worker] \in PumpPc
    /\ sending <= 1 /\ ~(sending = 1 /\ pc[Worker] \in PumpPc)

ArmedInv == Ready /\ At(Usb, "idle") => armed

TransferInv == TransferType /\ ClosedInv /\ BusyInv /\ ArmedInv

LEMMA TransferInit == Init => TransferInv
<1> SUFFICES ASSUME Init PROVE TransferInv
  OBVIOUS
<1>1. /\ DOMAIN pc = Threads /\ pc[Worker] = "rest" /\ pc[Usb] = "idle"
  BY DEF Init, Threads, Worker, Usb
<1>2. /\ attached = FALSE /\ opened = FALSE /\ txBusy = FALSE /\ sending = 0
      /\ stale = FALSE
  BY DEF Init
<1>3. TransferType
  BY <1>1, <1>2 DEF TransferType
<1>4. ClosedInv /\ BusyInv /\ ArmedInv
  BY <1>1, <1>2 DEF ClosedInv, BusyInv, ArmedInv, Ready, At
<1> QED
  BY <1>3, <1>4 DEF TransferInv

LEMMA TransferStep == TransferInv /\ [Next]_vars => TransferInv'
<1> SUFFICES ASSUME TransferInv, [Next]_vars PROVE TransferInv'
  OBVIOUS
<1> USE DEF device, out, in, receipt, TransferInv, TransferType, At, Goto, Ready, Fail
<1>t. Threads = {Worker, Licence, Usb} /\ Worker # Licence /\ Worker # Usb /\ Licence # Usb
  BY DEF Threads, Worker, Licence, Usb
<1> USE <1>t DEF PumpPc
<1>1. ASSUME NEW t \in {Worker, Licence}, SendStarts(t) \/ SendStep(t)
      PROVE  TransferInv'
  <2>1. UNCHANGED <<attached, state, opened, txBusy, sending, armed, stale>>
    BY <1>1 DEF SendStarts, SendStep, SendLocks, SendGivesUp, SendCopies, SendAppends
  <2>2. /\ DOMAIN pc' = Threads /\ pc'[Usb] = pc[Usb]
        /\ \/ pc[Worker] \notin PumpPc /\ pc'[Worker] \notin PumpPc
           \/ pc'[Worker] = pc[Worker]
    BY <1>1 DEF SendStarts, SendStep, SendLocks, SendGivesUp, SendCopies,
                SendAppends, BeforeSend, AfterSend
  <2> QED
    BY <2>1, <2>2 DEF ClosedInv, BusyInv, ArmedInv
<1>2. CASE RoundStarts \/ PopTries \/ Pops \/ SendsDone
  <2>1. UNCHANGED <<attached, state, opened, txBusy, sending, armed, stale>>
    BY <1>2 DEF RoundStarts, PopTries, Pops, SendsDone
  <2>2. /\ DOMAIN pc' = Threads /\ pc'[Usb] = pc[Usb]
        /\ pc[Worker] \notin PumpPc /\ pc'[Worker] \notin PumpPc
    BY <1>2 DEF RoundStarts, PopTries, Pops, SendsDone
  <2> QED
    BY <2>1, <2>2 DEF ClosedInv, BusyInv, ArmedInv
<1>3. CASE PumpTx
  BY <1>3 DEF PumpTx, ClosedInv, BusyInv, ArmedInv
<1>4. CASE PumpLocks
  BY <1>4 DEF PumpLocks, ClosedInv, BusyInv, ArmedInv
<1>5. CASE PumpTakes
  <2>1. /\ UNCHANGED <<attached, opened, sending, armed, stale>>
        /\ state' \in {state, "failed"}
    BY <1>5 DEF PumpTakes
  <2>2. /\ DOMAIN pc' = Threads /\ pc'[Usb] = pc[Usb] /\ pc[Worker] = "pumpTake"
        /\ \/ pc'[Worker] = "rest" /\ txBusy' = FALSE
           \/ pc'[Worker] = "submit" /\ txBusy' = txBusy
    BY <1>5 DEF PumpTakes
  <2> QED
    BY <2>1, <2>2 DEF ClosedInv, BusyInv, ArmedInv
<1>6. CASE Submits
  <2>1. /\ UNCHANGED <<attached, opened, armed, stale>>
        /\ pc[Worker] = "submit" /\ DOMAIN pc' = Threads /\ pc'[Usb] = pc[Usb]
        /\ pc'[Worker] = "rest"
    BY <1>6 DEF Submits
  <2>2. CASE opened /\ sending' = sending + 1 /\ UNCHANGED <<txBusy, state>>
    <3>1. TransferType' /\ ClosedInv' /\ ArmedInv'
      BY <2>1, <2>2 DEF ClosedInv, ArmedInv
    <3>2. BusyInv'
      BY <2>1, <2>2 DEF BusyInv
    <3> QED
      BY <3>1, <3>2
  <2>3. CASE txBusy' = FALSE /\ Fail /\ UNCHANGED sending
    <3>1. TransferType' /\ ClosedInv' /\ ArmedInv'
      BY <2>1, <2>3 DEF ClosedInv, ArmedInv
    <3>2. BusyInv'
      BY <2>1, <2>3 DEF BusyInv
    <3> QED
      BY <3>1, <3>2
  <2> QED
    BY <1>6, <2>2, <2>3 DEF Submits
<1>7. CASE AddDevice
  <2>1. /\ attached' = TRUE /\ state' = "waiting" /\ txBusy' = FALSE
        /\ UNCHANGED <<opened, sending, armed, pc>>
        /\ ~attached /\ pc[Usb] = "idle"
        /\ stale' = (pc[Worker] # "rest" \/ pc[Licence] # "rest")
    BY <1>7 DEF AddDevice, Zeroed
  <2>2. sending = 0 /\ (~stale' => pc[Worker] = "rest")
    BY <2>1 DEF ClosedInv
  <2>3. stale' \in BOOLEAN
    BY <2>1
  <2>4. TransferType' /\ ClosedInv' /\ ArmedInv'
    BY <2>1, <2>2, <2>3 DEF ClosedInv, ArmedInv
  <2>5. BusyInv'
    BY <2>1, <2>2 DEF BusyInv
  <2> QED
    BY <2>4, <2>5
<1>8. CASE OpensData
  BY <1>8 DEF OpensData, ClosedInv, BusyInv, ArmedInv
<1>9. CASE Arms
  BY <1>9 DEF Arms, ClosedInv, BusyInv, ArmedInv
<1>10. CASE RxFails
  BY <1>10 DEF RxFails, ClosedInv, BusyInv, ArmedInv
<1>11. CASE RxMalformed
  BY <1>11 DEF RxMalformed, ClosedInv, BusyInv, ArmedInv
<1>12. CASE RxComes
  BY <1>12 DEF RxComes, ClosedInv, BusyInv, ArmedInv
<1>13. CASE Consumes \/ Pushes \/ BlockEnds
  BY <1>13 DEF Consumes, Pushes, BlockEnds, ClosedInv, BusyInv, ArmedInv
<1>14. CASE TxComplete
  <2>1. /\ UNCHANGED <<attached, opened, armed, pc, stale>>
        /\ state' \in {state, "failed"}
        /\ pc[Usb] = "idle" /\ sending > 0
        /\ sending' = sending - 1 /\ txBusy' = FALSE
    BY <1>14 DEF TxComplete
  <2>2. attached /\ sending' \in Nat
    BY <2>1 DEF ClosedInv
  <2>3. TransferType' /\ ClosedInv' /\ ArmedInv'
    BY <2>1, <2>2 DEF ClosedInv, ArmedInv
  <2>4. BusyInv'
    BY <2>1, <2>2 DEF BusyInv
  <2> QED
    BY <2>3, <2>4
<1>15. CASE RemoveDevice
  BY <1>15 DEF RemoveDevice, ClosedInv, BusyInv, ArmedInv
<1>16. CASE Closes
  BY <1>16 DEF Closes, ClosedInv, BusyInv, ArmedInv
<1>17. CASE UNCHANGED vars
  BY <1>17 DEF vars, ClosedInv, BusyInv, ArmedInv
<1> QED
  BY <1>1, <1>2, <1>3, <1>4, <1>5, <1>6, <1>7, <1>8, <1>9, <1>10, <1>11,
     <1>12, <1>13, <1>14, <1>15, <1>16, <1>17
     DEF Next, WorkerStep, UsbStep, UsbEvent

\* The driver knows its transfers, whatever the phone and the USB stack do:
\* PumpTx, TxComplete, RxComplete and QueueRx of tether_driver.cpp never have
\* two Bulk OUT transfers, and are never ready with none to receive.
THEOREM TransfersKnown == Spec => []TransfersAreKnown
<1>1. TransferInv => TransfersAreKnown
  BY DEF TransferInv, BusyInv, ArmedInv, TransfersAreKnown
<1> QED
  BY <1>1, TransferInit, TransferStep, PTL DEF Spec

-----------------------------------------------------------------------------
(* Types of what the handlers are given and leave.                         *)

LEMMA NetConstants ==
  ASSUME StackConstants
  PROVE  /\ 0 \in 0..(RetrySeconds - 1) /\ RetrySeconds \in Nat
         /\ MaxSyn \in Nat /\ 0 \in 0..MaxSyn
         /\ Times \subseteq Nat /\ 0 \in Times
         /\ None \notin Addresses /\ Server # None
         /\ \A o \in Options : /\ o.router \in Gateways \cup {None}
                               /\ o.server \in {Server, None}
                               /\ o.lease \in Times
BY DEF StackConstants, Times, Gateways

LEMMA NetReset ==
  ASSUME StackConstants
  PROVE  Reset \in Stack
BY NetConstants DEF Reset, Stack

\* A reply by its kind.
LEMMA OfferType ==
  ASSUME NEW x \in SUBSET Nat
  PROVE  Offer(x) \in Reply
BY DEF Reply, Offer

LEMMA AnswerType ==
  ASSUME NEW x \in SUBSET Nat, NEW a \in Hosts, NEW b \in Hosts
  PROVE  Answer(x, a, b) \in Reply
BY DEF Reply, Answer

LEMMA NetReplyType ==
  ASSUME NEW a \in Hosts, NEW g \in Gateways \cup {None}
  PROVE  /\ ArpReply(g) \in Reply /\ DnsReply(a) \in Reply
         /\ \A n \in 1..MaxSyn : /\ SynAck(n, a) \in Reply
                                 /\ Http(n, a) \in Reply
BY DEF Reply, ArpReply, DnsReply, SynAck, Http

LEMMA NetReplyAck ==
  ASSUME NEW r \in Reply, r.kind \in {"synack", "http"}
  PROVE  r.ack \in 1..MaxSyn
BY DEF Reply

\* What a handler leaves alone of the lease.
SameLease(s, t) ==
  /\ t.ip = s.ip /\ t.offered = s.offered /\ t.configured = s.configured
  /\ t.server = s.server /\ t.lease = s.lease /\ t.age = s.age
  /\ t.xid = s.xid /\ t.renewing = s.renewing

LEMMA DiscoverResults ==
  ASSUME StackConstants, NEW s \in Stack,
         NEW e \in SendDhcpDiscover(s)
  PROVE  /\ e.stack \in Stack /\ e.replies \in SUBSET {Offer(s.xid)}
         /\ e.ok \in BOOLEAN
         /\ e.stack = [s EXCEPT !.requested = FALSE, !.renewing = FALSE,
                                !.seconds = 0]
<1> DEFINE t == [s EXCEPT !.requested = FALSE, !.renewing = FALSE, !.seconds = 0]
<1>1. t \in Stack /\ t.xid = s.xid
  BY NetConstants DEF Stack
<1>2. e.stack = t /\ e.replies \in SUBSET {Offer(t.xid)}
  BY DEF SendDhcpDiscover, Sends, Result
<1>4. e.ok \in BOOLEAN
  <2>1. \/ e = Result(t, {Offer(t.xid)}, TRUE)
        \/ e = Result(t, {}, TRUE) \/ e = Result(t, {}, FALSE)
    BY DEF SendDhcpDiscover, Sends
  <2> HIDE DEF t
  <2>2. \A R : /\ Result(t, R, TRUE).ok = TRUE
              /\ Result(t, R, FALSE).ok = FALSE
    BY DEF Result
  <2> QED
    BY <2>1, <2>2
<1> HIDE DEF t
<1>3. e.stack \in Stack /\ e.replies \in SUBSET {Offer(s.xid)}
  BY <1>1, <1>2
<1> QED
  BY <1>2, <1>3, <1>4 DEF t

LEMMA RequestResults ==
  ASSUME StackConstants, NEW s \in Stack,
         NEW e \in SendDhcpRequest(s)
  PROVE  /\ e.stack \in Stack
         /\ e.replies \in SUBSET {Answer(s.xid, s.offered, None)}
         /\ \/ e.stack = s
            \/ e.stack = [s EXCEPT !.requested = TRUE, !.renewing = FALSE,
                                   !.seconds = 0]
<1> DEFINE t == [s EXCEPT !.requested = TRUE, !.renewing = FALSE, !.seconds = 0]
<1>1. t \in Stack /\ t.xid = s.xid /\ t.offered = s.offered
  BY NetConstants DEF Stack
<1>2. \/ e \in Returns(s, FALSE)
      \/ e \in Sends(t, Answer(t.xid, t.offered, None))
  BY DEF SendDhcpRequest
<1> HIDE DEF t
<1>3. CASE e \in Returns(s, FALSE)
  BY <1>3 DEF Returns, Result
<1>4. CASE e \in Sends(t, Answer(t.xid, t.offered, None))
  <2>1. e.stack = t /\ e.replies \in SUBSET {Answer(s.xid, s.offered, None)}
    BY <1>1, <1>4 DEF Sends, Result
  <2> QED
    BY <1>1, <2>1 DEF t
<1> QED
  BY <1>2, <1>3, <1>4

LEMMA RenewResults ==
  ASSUME StackConstants, NEW s \in Stack, NEW e \in SendDhcpRenew(s)
  PROVE  /\ e.stack \in Stack
         /\ \/ /\ ~(s.configured /\ s.mac # None /\ s.server # None)
               /\ e.stack = s /\ e.replies = {}
            \/ /\ s.configured /\ s.mac # None /\ s.server # None
               /\ e.stack = [s EXCEPT !.xid = Toggled(@, s.age),
                                      !.renewing = TRUE, !.seconds = 0]
               /\ e.replies \in SUBSET {Answer(e.stack.xid, s.ip, s.ip)}
<1> DEFINE t == [s EXCEPT !.xid = Toggled(@, s.age), !.renewing = TRUE,
                          !.seconds = 0]
<1>0. Toggled(s.xid, s.age) \in SUBSET Nat
  BY DEF Toggled, Stack
<1>1. t \in Stack /\ t.ip = s.ip
  BY <1>0, NetConstants DEF Stack
<1> DEFINE known == s.configured /\ s.mac # None /\ s.server # None
<1>2. e \in IF known THEN Sends(t, Answer(t.xid, t.ip, t.ip))
              ELSE Returns(s, FALSE)
  BY DEF SendDhcpRenew
<1> HIDE DEF t
<1>3. CASE ~known
  <2>1. e.stack = s /\ e.replies = {}
    BY <1>2, <1>3 DEF Returns, Result
  <2> QED
    BY <1>3, <2>1
<1>4. CASE known
  <2>1. e.stack = t /\ e.replies \in SUBSET {Answer(e.stack.xid, s.ip, s.ip)}
    BY <1>1, <1>2, <1>4 DEF Sends, Result
  <2> QED
    BY <1>1, <1>4, <2>1 DEF t
<1> QED
  BY <1>3, <1>4

\* A second without a lease.
LEMMA RetriedResults ==
  ASSUME StackConstants, NEW s \in Stack, NEW e \in Retried(s)
  PROVE  /\ e.stack \in Stack /\ e.replies \in SUBSET Reply
         /\ e.stack.configured = s.configured
         /\ e.stack.renewing => s.renewing
         /\ e.stack.xid = s.xid
<1> DEFINE t == [s EXCEPT !.seconds = 0]
           u == [s EXCEPT !.seconds = @ + 1]
<1>1. /\ t \in Stack /\ t.xid = s.xid /\ t.configured = s.configured
      /\ t.renewing = s.renewing /\ t.xid \in SUBSET Nat /\ t.offered \in Hosts
  BY NetConstants DEF Stack, Hosts
<1>2. CASE s.seconds + 1 < RetrySeconds
  <2>1. s.seconds \in Nat /\ s.seconds + 1 \in 0..(RetrySeconds - 1)
    BY <1>2, NetConstants DEF Stack
  <2>2. /\ u \in Stack /\ u.xid = s.xid /\ u.configured = s.configured
        /\ u.renewing = s.renewing
    BY <2>1 DEF Stack
  <2>3. e \in Returns(u, TRUE)
    BY <1>2 DEF Retried
  <2> HIDE DEF t, u
  <2> QED
    BY <2>2, <2>3 DEF Returns, Result
<1>3. CASE ~(s.seconds + 1 < RetrySeconds)
  <2>1. e \in SendDhcpRequest(t) \/ e \in SendDhcpDiscover(t)
    BY <1>3 DEF Retried
  <2> HIDE DEF t, u
  <2>2. CASE e \in SendDhcpRequest(t)
    <3>1. /\ e.stack \in Stack
          /\ e.replies \in SUBSET {Answer(t.xid, t.offered, None)}
          /\ \/ e.stack = t
             \/ e.stack = [t EXCEPT !.requested = TRUE, !.renewing = FALSE,
                                    !.seconds = 0]
      BY <1>1, <2>2, RequestResults
    <3>2. Answer(t.xid, t.offered, None) \in Reply
      BY <1>1, AnswerType DEF Hosts
    <3>3. /\ e.stack.configured = t.configured /\ e.stack.xid = t.xid
          /\ e.stack.renewing => t.renewing
      BY <1>1, <3>1 DEF Stack
    <3> QED
      BY <1>1, <3>1, <3>2, <3>3
  <2>3. CASE e \in SendDhcpDiscover(t)
    <3>1. /\ e.stack \in Stack
          /\ e.replies \in SUBSET {Offer(t.xid)}
          /\ e.stack = [t EXCEPT !.requested = FALSE, !.renewing = FALSE,
                                 !.seconds = 0]
      BY <1>1, <2>3, DiscoverResults
    <3>2. Offer(t.xid) \in Reply
      BY <1>1, OfferType
    <3>3. /\ e.stack.configured = t.configured /\ e.stack.xid = t.xid
          /\ e.stack.renewing => t.renewing
      BY <1>1, <3>1 DEF Stack
    <3> QED
      BY <1>1, <3>1, <3>2, <3>3
  <2> QED
    BY <2>1, <2>2, <2>3
<1> QED
  BY <1>2, <1>3

\* A second of a lease after which a Request to renew it is sent.
AsksAgain(s) ==
  s.age + 1 = Half(s.lease) /\ s.mac # None /\ s.server # None

\* What a second of a lease leaves where the lease goes on: it may have been
\* asked for again, with a new id.
GoesOn(s, e) ==
  /\ e.stack.configured /\ e.stack.lease = s.lease /\ e.stack.age = s.age + 1
  /\ s.age + 1 < s.lease /\ e.stack.server = s.server
  /\ e.stack.ip = s.ip /\ e.stack.offered = s.offered
  /\ \/ /\ e.stack.renewing = s.renewing /\ e.stack.xid = s.xid
        /\ e.replies = {}
     \/ /\ e.stack.xid # s.xid
        /\ e.replies \in SUBSET {Answer(e.stack.xid, s.ip, s.ip)}

LEMMA ToggledDiffers ==
  ASSUME NEW x, NEW n
  PROVE  Toggled(x, n) # x
BY DEF Toggled

LEMMA AskedResults ==
  ASSUME StackConstants, NEW s \in Stack, NEW t, s.configured,
         t = [s EXCEPT !.age = @ + 1],
         NEW a \in IF RenewalDue(t) THEN SendDhcpRenew(t)
                                        ELSE Returns(t, TRUE)
  PROVE  /\ a.stack \in Stack /\ a.replies \in SUBSET Reply
         /\ a.stack.configured /\ a.stack.lease = s.lease
         /\ a.stack.age = s.age + 1
         /\ a.stack.ip = s.ip /\ a.stack.offered = s.offered
         /\ a.stack.server = s.server
         /\ \/ /\ ~AsksAgain(s) /\ a.replies = {}
               /\ a.stack.renewing = s.renewing /\ a.stack.xid = s.xid
            \/ /\ AsksAgain(s) /\ a.stack.xid # s.xid
               /\ a.replies \in SUBSET {Answer(a.stack.xid, s.ip, s.ip)}
<1>1. /\ t \in Stack /\ t.configured /\ t.lease = s.lease
      /\ t.age = s.age + 1 /\ t.ip = s.ip /\ t.offered = s.offered
      /\ t.renewing = s.renewing /\ t.xid = s.xid
      /\ t.server = s.server /\ t.mac = s.mac /\ s.ip \in Hosts
  BY DEF Stack, Hosts
<1>2. RenewalDue(t) <=> s.age + 1 = Half(s.lease)
  BY <1>1 DEF RenewalDue
<1>3. CASE ~RenewalDue(t)
  <2>1. a.stack = t /\ a.replies = {}
    BY <1>3 DEF Returns, Result
  <2> QED
    BY <1>1, <1>2, <1>3, <2>1 DEF AsksAgain
<1>4. CASE RenewalDue(t)
  <2> DEFINE known == t.configured /\ t.mac # None /\ t.server # None
             renewed == [t EXCEPT !.xid = Toggled(@, t.age),
                                  !.renewing = TRUE, !.seconds = 0]
  <2>1. /\ a.stack \in Stack
        /\ \/ ~known /\ a.stack = t /\ a.replies = {}
           \/ /\ known /\ a.stack = renewed
              /\ a.replies \in SUBSET {Answer(a.stack.xid, t.ip, t.ip)}
    BY <1>1, <1>4, RenewResults
  <2>2. CASE ~known /\ a.stack = t /\ a.replies = {}
    BY <1>1, <2>2 DEF AsksAgain
  <2>3. CASE /\ known /\ a.stack = renewed
             /\ a.replies \in SUBSET {Answer(a.stack.xid, t.ip, t.ip)}
    <3>1. /\ a.stack.configured = t.configured /\ a.stack.lease = t.lease
          /\ a.stack.age = t.age /\ a.stack.ip = t.ip
          /\ a.stack.offered = t.offered /\ a.stack.server = t.server
          /\ a.stack.xid = Toggled(t.xid, t.age)
      BY <1>1, <2>3 DEF Stack
    <3>2. Answer(a.stack.xid, t.ip, t.ip) \in Reply
      <4>1. a.stack.xid \in SUBSET Nat
        BY <2>1 DEF Stack
      <4> QED
        BY <1>1, <4>1, AnswerType
    <3>3. a.stack.xid # s.xid
      BY <1>1, <3>1, ToggledDiffers
    <3>4. AsksAgain(s)
      BY <1>1, <1>2, <1>4, <2>3 DEF AsksAgain
    <3> QED
      BY <1>1, <2>1, <2>3, <3>1, <3>2, <3>3, <3>4
  <2> QED
    BY <2>1, <2>2, <2>3
<1> QED
  BY <1>3, <1>4

LEMMA ExpiredResults ==
  ASSUME StackConstants, NEW s \in Stack
  PROVE  /\ Expired(s) \in Stack
         /\ ~Expired(s).configured /\ ~Expired(s).renewing
         /\ Expired(s).xid = s.xid /\ Expired(s).xid \in SUBSET Nat
<1>1. 0 \in Times
  BY NetConstants
<1>2. Expired(s) \in Stack
  BY <1>1 DEF Expired, Stack
<1>3. /\ ~Expired(s).configured /\ ~Expired(s).renewing
      /\ Expired(s).xid = s.xid /\ Expired(s).xid \in SUBSET Nat
  BY DEF Expired, Stack
<1> QED
  BY <1>2, <1>3

LEMMA AgedResults ==
  ASSUME StackConstants, NEW s \in Stack, s.configured,
         NEW e \in Aged(s)
  PROVE  /\ e.stack \in Stack /\ e.replies \in SUBSET Reply
         /\ e.stack.xid # s.xid <=> AsksAgain(s)
         /\ \/ GoesOn(s, e)
            \/ /\ ~e.stack.configured /\ ~e.stack.renewing
               /\ s.age + 1 >= s.lease
<1> DEFINE older == [s EXCEPT !.age = @ + 1]
           asked == IF RenewalDue(older) THEN SendDhcpRenew(older)
                                             ELSE Returns(older, TRUE)
           Finish(t) == IF t.age >= t.lease
                      THEN SendDhcpDiscover(Expired(t))
                      ELSE Returns(t, TRUE)
<1>1. PICK a \in asked : \E f \in Finish(a.stack) :
           e = Result(f.stack, a.replies \cup f.replies, f.ok)
  BY DEF Aged
<1>2. PICK f \in Finish(a.stack) :
           e = Result(f.stack, a.replies \cup f.replies, f.ok)
  BY <1>1
<1>3. e.stack = f.stack /\ e.replies = a.replies \cup f.replies
  BY <1>2 DEF Result
<1>4. /\ a.stack \in Stack /\ a.replies \in SUBSET Reply
      /\ a.stack.configured /\ a.stack.lease = s.lease
      /\ a.stack.age = s.age + 1
      /\ a.stack.ip = s.ip /\ a.stack.offered = s.offered
      /\ a.stack.server = s.server
      /\ \/ /\ ~AsksAgain(s) /\ a.replies = {}
            /\ a.stack.renewing = s.renewing /\ a.stack.xid = s.xid
         \/ /\ AsksAgain(s) /\ a.stack.xid # s.xid
            /\ a.replies \in SUBSET {Answer(a.stack.xid, s.ip, s.ip)}
  <2>1. /\ older = [s EXCEPT !.age = @ + 1]
        /\ a \in IF RenewalDue(older) THEN SendDhcpRenew(older)
                                       ELSE Returns(older, TRUE)
    OBVIOUS
  <2> HIDE DEF older, asked, Finish
  <2> QED
    BY <2>1, AskedResults
<1>5. s.age \in Nat /\ s.lease \in Nat
  BY NetConstants DEF Stack
<1>6. CASE a.stack.age >= a.stack.lease
  <2> DEFINE x == Expired(a.stack)
  <2>1. /\ x \in Stack /\ ~x.configured /\ ~x.renewing
        /\ x.xid = a.stack.xid /\ x.xid \in SUBSET Nat
    BY <1>4, ExpiredResults
  <2>2. f \in SendDhcpDiscover(x)
    BY <1>6
  <2> HIDE DEF x, asked, Ends, older
  <2>3. /\ f.stack \in Stack /\ f.replies \in SUBSET {Offer(x.xid)}
        /\ f.stack = [x EXCEPT !.requested = FALSE, !.renewing = FALSE,
                               !.seconds = 0]
    BY <2>1, <2>2, DiscoverResults
  <2>4. Offer(x.xid) \in Reply
    BY <2>1, OfferType
  <2>5. ~f.stack.configured /\ ~f.stack.renewing /\ f.stack.xid = x.xid
    BY <2>1, <2>3 DEF Stack
  <2> QED
    BY <1>3, <1>4, <1>5, <1>6, <2>1, <2>3, <2>4, <2>5
<1>7. CASE ~(a.stack.age >= a.stack.lease)
  <2>1. f \in Returns(a.stack, TRUE)
    BY <1>7
  <2> HIDE DEF asked, Ends, older
  <2>2. f.stack = a.stack /\ f.replies = {}
    BY <2>1 DEF Returns, Result
  <2> QED
    BY <1>3, <1>4, <1>5, <1>7, <2>2 DEF GoesOn
<1> QED
  BY <1>6, <1>7


LEMMA OfferResults ==
  ASSUME StackConstants, NEW s \in Stack, NEW ip \in Addresses,
         NEW o \in Options, NEW e \in HandleOffer(s, ip, o)
  PROVE  /\ e.stack \in Stack /\ e.replies \in SUBSET Reply
         /\ e.stack.configured = s.configured
         /\ e.stack.renewing => s.renewing
         /\ e.stack.lease = o.lease /\ e.stack.age = s.age
<1> DEFINE t == [s EXCEPT !.seconds = 0, !.offered = ip,
                          !.offerServer = o.server, !.gateway = o.router,
                          !.lease = o.lease]
<1>1. /\ o.router \in Gateways \cup {None} /\ o.server \in {Server, None}
      /\ o.lease \in Times /\ 0 \in 0..(RetrySeconds - 1)
  BY NetConstants
<1>2. t \in Stack
  BY <1>1 DEF Stack
<1>3. /\ t.configured = s.configured /\ t.renewing = s.renewing
      /\ t.lease = o.lease /\ t.age = s.age
      /\ t.xid \in SUBSET Nat /\ t.offered \in Hosts
  BY DEF Stack, Hosts
<1>4. e \in SendDhcpRequest(t)
  BY DEF HandleOffer
<1> HIDE DEF t
<1>5. /\ e.stack \in Stack
      /\ e.replies \in SUBSET {Answer(t.xid, t.offered, None)}
      /\ \/ e.stack = t
         \/ e.stack = [t EXCEPT !.requested = TRUE, !.renewing = FALSE,
                                !.seconds = 0]
  BY <1>2, <1>4, RequestResults
<1>6. /\ e.stack.configured = t.configured
      /\ e.stack.renewing => t.renewing
      /\ e.stack.lease = t.lease /\ e.stack.age = t.age
  BY <1>2, <1>5 DEF Stack
<1>7. Answer(t.xid, t.offered, None) \in Reply
  BY <1>3, AnswerType DEF Hosts
<1> QED
  BY <1>3, <1>5, <1>6, <1>7

\* An ACK that is taken starts a lease with the address it assigns.
LEMMA AckResults ==
  ASSUME StackConstants, NEW s \in Stack, NEW ip \in Hosts,
         NEW o \in Options, NEW e \in HandleAck(s, ip, o),
         Accepts(s, ip)
  PROVE  /\ e.stack \in Stack /\ e.replies \in SUBSET Reply
         /\ e.stack.ip = Assigned(s, ip)
         /\ e.stack.age = 0 /\ ~e.stack.renewing
         /\ e.stack.offered = s.offered
         /\ ~e.stack.configured => ~e.ok
<1> DEFINE t == Bound(s, ip, o)
           srv == Otherwise(o.server, s.offerServer)
           gw  == Otherwise(Otherwise(o.router, s.gateway), srv)
           l   == IF o.lease # 0 THEN o.lease ELSE s.lease
<1>1. /\ o.router \in Gateways \cup {None} /\ o.server \in {Server, None}
      /\ o.lease \in Times /\ 0 \in 0..(RetrySeconds - 1)
  BY NetConstants
<1>2. Assigned(s, ip) \in Addresses \cup {None}
  BY DEF Assigned, Otherwise, Hosts, Stack
<1>3. /\ srv \in {Server, None} /\ gw \in Gateways \cup {None}
      /\ l \in Times
  BY <1>1 DEF Otherwise, Stack, Gateways
<1>4. t = [s EXCEPT !.ip = Assigned(s, ip), !.gateway = gw, !.server = srv,
                    !.lease = l, !.configured = gw # None, !.renewing = FALSE,
                    !.seconds = 0, !.age = 0]
  BY DEF Bound
<1> HIDE DEF t, srv, gw, l
<1>5. t \in Stack
  BY <1>1, <1>2, <1>3, <1>4 DEF Stack
<1>6. /\ t.ip = Assigned(s, ip) /\ t.age = 0 /\ ~t.renewing
      /\ t.offered = s.offered /\ t.gateway \in Gateways \cup {None}
  BY <1>3, <1>4 DEF Stack
<1>7. e \in IF t.configured THEN Sends(t, ArpReply(t.gateway))
                            ELSE Returns(t, FALSE)
  BY DEF HandleAck, t
<1>8. CASE t.configured
  <2>1. e.stack = t /\ e.replies \in SUBSET {ArpReply(t.gateway)}
    BY <1>7, <1>8 DEF Sends, Result
  <2>2. ArpReply(t.gateway) \in Reply
    BY <1>6 DEF ArpReply, Reply
  <2> QED
    BY <1>5, <1>6, <1>8, <2>1, <2>2
<1>9. CASE ~t.configured
  <2>1. e.stack = t /\ e.replies = {} /\ ~e.ok
    BY <1>7, <1>9 DEF Returns, Result
  <2> QED
    BY <1>5, <1>6, <2>1
<1> QED
  BY <1>8, <1>9

LEMMA AckRefused ==
  ASSUME NEW s, NEW ip, NEW o, NEW e \in HandleAck(s, ip, o),
         ~Accepts(s, ip)
  PROVE  e.stack = s /\ e.replies = {}
BY DEF HandleAck, Returns, Result

\* None of these answers a DHCP request.
NoAnswer(R) == \A r \in R : r.kind # "answer"

LEMMA ArpResults ==
  ASSUME StackConstants, NEW s \in Stack, NEW h,
         NEW e \in HandleArpReply(s, h)
  PROVE  /\ e.stack \in Stack /\ e.replies \in SUBSET Reply
         /\ SameLease(s, e.stack)
         /\ NoAnswer(e.replies)
<1> DEFINE t == [s EXCEPT !.mac = h]
<1>1. CASE s.configured /\ h = s.gateway
  <2>1. h \in Gateways \cup {None}
    BY <1>1 DEF Stack
  <2>2. t \in Stack /\ SameLease(s, t)  /\ t.ip = s.ip
    BY <2>1 DEF Stack, SameLease
  <2>3. e \in SendDnsQuery(t)
    BY <1>1 DEF HandleArpReply
  <2> HIDE DEF t
  <2>4. e \in Returns(t, FALSE) \/ e \in Sends(t, DnsReply(t.ip))
    BY <2>3 DEF SendDnsQuery
  <2>5. e.stack = t /\ e.replies \in SUBSET {DnsReply(t.ip)}
    BY <2>4 DEF Returns, Sends, Result
  <2>6. t.ip \in Hosts
    BY <2>2 DEF Stack, Hosts
  <2>7. DnsReply(t.ip) \in Reply /\ DnsReply(t.ip).kind # "answer"
    BY <2>6, NetReplyType DEF DnsReply, Gateways
  <2> QED
    BY <2>2, <2>5, <2>7 DEF NoAnswer
<1>2. CASE ~(s.configured /\ h = s.gateway)
  <2>1. e.stack = s /\ e.replies = {}
    BY <1>2 DEF HandleArpReply, Returns, Result
  <2> QED
    BY <2>1 DEF SameLease, NoAnswer
<1> QED
  BY <1>1, <1>2

LEMMA DnsResults ==
  ASSUME StackConstants, NEW s \in Stack, s.seq < MaxSyn,
         NEW e \in HandleDns(s)
  PROVE  /\ e.stack \in Stack /\ e.replies \in SUBSET Reply
         /\ SameLease(s, e.stack)
         /\ NoAnswer(e.replies)
<1> DEFINE d == [s EXCEPT !.resolved = TRUE]
           t == [d EXCEPT !.syn = TRUE]
           u == [t EXCEPT !.seq = @ + 1]
<1>1. s.seq \in Nat /\ s.seq + 1 \in 1..MaxSyn /\ s.seq + 1 \in 0..MaxSyn
  BY NetConstants DEF Stack
<1>2. d \in Stack /\ SameLease(s, d) /\ d.seq = s.seq
  BY DEF Stack, SameLease
<1>3. t \in Stack /\ SameLease(s, t)  /\ t.seq = s.seq
  BY DEF Stack, SameLease
<1>4. /\ u \in Stack /\ SameLease(s, u)
      /\ u.seq = s.seq + 1 /\ u.ip \in Hosts
  BY <1>1, <1>3 DEF Stack, SameLease, Hosts
<1>5. e \in Returns(s, FALSE) \/ e \in SendTcpSyn(d)
  BY DEF HandleDns
<1>6. ASSUME e \in SendTcpSyn(d)
      PROVE  \/ e \in Returns(d, FALSE)
             \/ e \in {Result(u, {SynAck(u.seq, u.ip)}, TRUE),
                       Result(u, {}, TRUE), Result(t, {}, FALSE)}
  BY <1>6 DEF SendTcpSyn
<1>7. /\ SynAck(u.seq, u.ip) \in Reply
      /\ SynAck(u.seq, u.ip).kind # "answer"
  <2>1. SynAck(u.seq, u.ip) \in Reply
    BY <1>1, <1>4, NetReplyType DEF Gateways
  <2> QED
    BY <2>1 DEF SynAck
<1> HIDE DEF d, t, u
<1>8. CASE e \in Returns(s, FALSE)
  BY <1>8 DEF Returns, Result, SameLease, NoAnswer
<1>9. CASE e \in SendTcpSyn(d)
  <2>1. /\ e.stack \in {d, t, u}
        /\ e.replies \in SUBSET {SynAck(u.seq, u.ip)}
    BY <1>6, <1>9 DEF Returns, Result
  <2> QED
    BY <1>2, <1>3, <1>4, <1>7, <2>1 DEF NoAnswer
<1> QED
  BY <1>5, <1>8, <1>9

LEMMA SynAckResults ==
  ASSUME StackConstants, NEW s \in Stack, NEW n \in 1..MaxSyn,
         NEW e \in HandleSynAck(s, n)
  PROVE  /\ e.stack \in Stack /\ e.replies \in SUBSET Reply
         /\ SameLease(s, e.stack) /\ NoAnswer(e.replies)
<1> DEFINE t == [s EXCEPT !.connection = n]
           u == [t EXCEPT !.httpSent = TRUE]
<1>1. n \in 0..MaxSyn
  BY NetConstants
<1>2. t \in Stack /\ SameLease(s, t)
  BY <1>1 DEF Stack, SameLease
<1>3. u \in Stack /\ SameLease(s, u) /\ u.ip \in Hosts
  BY <1>1 DEF Stack, SameLease, Hosts
<1>4. Http(n, u.ip) \in Reply /\ Http(n, u.ip).kind # "answer"
  <2>1. Http(n, u.ip) \in Reply
    BY <1>3, NetReplyType DEF Gateways
  <2> QED
    BY <2>1 DEF Http
<1>5. CASE s.resolved /\ s.syn /\ s.connection = 0 /\ n = s.seq
  <2>1. \/ e \in Returns(t, FALSE)
        \/ e \in {Result(u, {Http(n, u.ip)}, TRUE),
                  Result(u, {}, TRUE)}
    BY <1>5 DEF HandleSynAck
  <2> HIDE DEF t, u
  <2>2. e.stack \in {t, u} /\ e.replies \in SUBSET {Http(n, u.ip)}
    BY <2>1 DEF Returns, Result
  <2> QED
    BY <1>2, <1>3, <1>4, <2>2 DEF NoAnswer
<1>6. CASE ~(s.resolved /\ s.syn /\ s.connection = 0 /\ n = s.seq)
  <2>1. e.stack = s /\ e.replies = {}
    BY <1>6 DEF HandleSynAck, Returns, Result
  <2> QED
    BY <2>1 DEF SameLease, NoAnswer
<1> QED
  BY <1>5, <1>6

LEMMA HttpResults ==
  ASSUME NEW s \in Stack, NEW n \in 1..MaxSyn,
         NEW e \in HandleHttp(s, n)
  PROVE  /\ e.stack \in Stack /\ e.replies \in SUBSET Reply
         /\ SameLease(s, e.stack) /\ NoAnswer(e.replies)
<1> DEFINE t == [s EXCEPT !.internetOk = TRUE]
<1>1. t \in Stack /\ SameLease(s, t)
  BY DEF Stack, SameLease
<1>2. SameLease(s, s)
  BY DEF SameLease
<1>3. /\ e.replies = {}
      /\ e.stack = IF s.resolved /\ s.connection = n THEN t ELSE s
  BY DEF HandleHttp, Returns, Result
<1> HIDE DEF t
<1> QED
  BY <1>1, <1>2, <1>3 DEF NoAnswer


-----------------------------------------------------------------------------
(* The inductive invariant.                                                *)

\* A renewal is only asked for while there is a lease; and what answers it, or
\* any other request with its id, gives the address in use.
RenewingInv == stack.renewing => stack.configured
AnswersInv ==
  stack.renewing =>
    late \/ reused \/ \A r \in replies :
                        r.kind = "answer" /\ r.xid = stack.xid => r.ip = stack.ip

\* A lease that no late Offer has changed was renewed once, at its half, if the
\* server and the gateway were known.
CountedInv ==
  stack.configured /\ stack.lease # 0 /\ ~late =>
    IF stack.age < Half(stack.lease) THEN renewals = 0 /\ ~blind
    ELSE renewals = 1 \/ stack.server = None \/ blind

\* While every lease that was named has an end, the one in use has not the
\* latest, and its age is the time since the ACK.
LongestInv ==
  stack.configured /\ longest # 0 =>
    /\ stack.lease # 0 /\ stack.lease <= longest
    /\ held = stack.age /\ held < longest

LeaseInv ==
  /\ RenewingInv /\ AnswersInv /\ CountedInv /\ LongestInv
  /\ AddressIsOffered

StackInv == StackTypeOK /\ LeaseInv

LEMMA LeaseFrame ==
  ASSUME StackInv, SameLease(stack, stack'),
         NoAnswer(replies' \ replies),
         ghosts' = ghosts, reused' = reused
  PROVE  LeaseInv'
<1>1. RenewingInv'
  BY DEF StackInv, LeaseInv, RenewingInv, SameLease
<1>2. late' = late /\ renewals' = renewals /\ blind' = blind
      /\ longest' = longest /\ held' = held
  BY DEF ghosts
<1>3. AnswersInv'
  BY <1>2 DEF StackInv, LeaseInv, AnswersInv, SameLease, NoAnswer
<1>4. CountedInv'
  BY <1>2 DEF StackInv, LeaseInv, CountedInv, SameLease
<1>5. LongestInv'
  BY <1>2 DEF StackInv, LeaseInv, LongestInv, SameLease
<1>6. AddressIsOffered'
  BY <1>2 DEF StackInv, LeaseInv, AddressIsOffered, SameLease
<1> QED
  BY <1>1, <1>3, <1>4, <1>5, <1>6 DEF LeaseInv

\* Without a lease there is nothing to say of it.
LEMMA LeaseNone ==
  ASSUME ~stack'.configured, ~stack'.renewing
  PROVE  LeaseInv'
BY DEF LeaseInv, RenewingInv, AnswersInv, CountedInv, LongestInv,
       AddressIsOffered

LEMMA StackInitially ==
  ASSUME StackConstants
  PROVE  StackInit => StackInv
<1> SUFFICES ASSUME StackInit PROVE StackInv
  OBVIOUS
<1>1. stack = Reset /\ stack \in Stack /\ 0 \in Times
  BY NetReset, NetConstants DEF StackInit
<1>2. StackTypeOK
  BY <1>1 DEF StackInit, StackTypeOK
<1>3. LeaseInv
  BY <1>1 DEF Reset, LeaseInv, RenewingInv, AnswersInv, CountedInv,
              LongestInv, AddressIsOffered
<1> QED
  BY <1>2, <1>3 DEF StackInv

LEMMA StartKeeps ==
  ASSUME StackConstants, StackInv, Start
  PROVE  StackInv'
<1>1. PICK e \in SendDhcpDiscover(Reset) :
           Happens(e, replies) /\ started' = e.ok
  BY DEF Start
<1>2. e.ok \in BOOLEAN
  BY NetReset, DiscoverResults
<1>3. /\ e.stack \in Stack /\ e.replies \in SUBSET {Offer(Reset.xid)}
      /\ e.stack = [Reset EXCEPT !.requested = FALSE, !.renewing = FALSE,
                                     !.seconds = 0]
  BY NetReset, DiscoverResults
<1>4. Offer(Reset.xid) \in Reply
  BY OfferType DEF Reset
<1>5. StackTypeOK'
  BY <1>1, <1>2, <1>3, <1>4, NetConstants
     DEF StackInv, StackTypeOK, Start, Happens, InUse, Unbinds
<1>6. ~stack'.configured /\ ~stack'.renewing
  BY <1>1, <1>3 DEF Happens, Reset
<1>7. LeaseInv'
  BY <1>6, LeaseNone
<1> QED
  BY <1>5, <1>7 DEF StackInv

LEMMA HalfBounds ==
  ASSUME NEW l \in Nat, l # 0
  PROVE  Half(l) \in Nat /\ 1 <= Half(l) /\ Half(l) <= l
BY DEF Half

LEMMA TickLease ==
  ASSUME StackConstants, StackInv, Tick,
         NEW e, Happens(e, replies), GoesOn(stack, e),
         e.stack.xid # stack.xid <=> AsksAgain(stack),
         stack.configured, stack.lease # 0
  PROVE  LeaseInv'
<1>1. stack' = e.stack /\ replies' = replies \cup e.replies
  BY DEF Happens
<1>2. late' = late /\ longest' = longest
  BY <1>1 DEF Tick, GoesOn, StackInv, StackTypeOK
<1>3. /\ stack \in Stack /\ stack.age \in Nat /\ stack.lease \in Nat
      /\ longest \in Nat /\ held \in Nat /\ renewals \in Nat
      /\ blind \in BOOLEAN
  BY NetConstants DEF StackInv, StackTypeOK, Stack
<1>4. Half(stack.lease) \in Nat
  BY <1>3, HalfBounds
<1>5. /\ renewals' = IF AsksAgain(stack) THEN renewals + 1 ELSE renewals
      /\ blind' <=> blind \/ (/\ stack.mac = None
                              /\ stack.age + 1 >= Half(stack.lease))
  BY <1>1 DEF Tick, GoesOn
<1>6. RenewingInv'
  BY <1>1 DEF RenewingInv, GoesOn
<1>7. CountedInv'
  <2> SUFFICES ASSUME ~late
               PROVE  IF stack.age + 1 < Half(stack.lease)
                      THEN renewals' = 0 /\ ~blind'
                      ELSE renewals' = 1 \/ stack.server = None \/ blind'
    BY <1>1, <1>2 DEF CountedInv, GoesOn
  <2>1. IF stack.age < Half(stack.lease) THEN renewals = 0 /\ ~blind
        ELSE renewals = 1 \/ stack.server = None \/ blind
    BY DEF StackInv, LeaseInv, CountedInv
  <2>2. CASE stack.age + 1 < Half(stack.lease)
    BY <1>3, <1>4, <1>5, <2>1, <2>2 DEF AsksAgain
  <2>3. CASE stack.age + 1 = Half(stack.lease)
    <3>1. renewals = 0
      BY <1>3, <2>1, <2>3
    <3>2. stack.mac = None => blind'
      BY <1>3, <1>4, <1>5, <2>3
    <3>3. CASE AsksAgain(stack)
      BY <1>3, <1>4, <1>5, <2>3, <3>1, <3>3
    <3>4. CASE ~AsksAgain(stack)
      BY <1>3, <1>4, <2>3, <3>2, <3>4 DEF AsksAgain
    <3> QED
      BY <3>3, <3>4
  <2>4. CASE stack.age + 1 > Half(stack.lease)
    BY <1>3, <1>4, <1>5, <2>1, <2>4 DEF AsksAgain
  <2> QED
    BY <1>3, <1>4, <2>2, <2>3, <2>4
<1>8. LongestInv'
  <2> SUFFICES ASSUME longest # 0
               PROVE  /\ stack'.lease # 0 /\ stack'.lease <= longest
                      /\ held' = stack'.age /\ held' < longest
    BY <1>2 DEF LongestInv
  <2>1. stack.lease <= longest /\ held = stack.age
    BY DEF StackInv, LeaseInv, LongestInv
  <2>2. held' = held + 1
    BY <1>2 DEF Tick
  <2>3. /\ stack'.lease = stack.lease /\ stack'.age = stack.age + 1
        /\ stack.age + 1 < stack.lease
    BY <1>1 DEF GoesOn
  <2> QED
    BY <1>3, <2>1, <2>2, <2>3
<1>9. reused => reused'
  BY DEF Tick
<1>10. AddressIsOffered'
  BY <1>1, <1>2, <1>9 DEF StackInv, LeaseInv, AddressIsOffered, GoesOn
<1>11. AnswersInv'
  <2> SUFFICES ASSUME stack'.renewing, ~late, ~reused', NEW r \in replies',
                      r.kind = "answer", r.xid = stack'.xid
               PROVE  r.ip = stack'.ip
    BY <1>2 DEF AnswersInv
  <2>1. CASE /\ e.stack.renewing = stack.renewing /\ e.stack.xid = stack.xid
             /\ e.replies = {}
    BY <1>1, <1>9, <2>1 DEF StackInv, LeaseInv, AnswersInv, GoesOn
  <2>2. CASE /\ e.stack.xid # stack.xid
             /\ e.replies \in SUBSET {Answer(e.stack.xid, stack.ip, stack.ip)}
    <3>1. ~InUse(stack'.xid)
      BY <1>1, <2>2 DEF Tick
    <3>2. r \notin replies
      BY <3>1 DEF InUse
    <3>3. r = Answer(e.stack.xid, stack.ip, stack.ip)
      BY <1>1, <2>2, <3>2
    <3> QED
      BY <1>1, <3>3 DEF Answer, GoesOn
  <2> QED
    BY <2>1, <2>2 DEF GoesOn
<1> QED
  BY <1>6, <1>7, <1>8, <1>10, <1>11 DEF LeaseInv

LEMMA TickKeeps ==
  ASSUME StackConstants, StackInv, Tick
  PROVE  StackInv'
<1>1. PICK e \in TickOneSecond(stack) : Happens(e, replies)
  BY DEF Tick
<1>2. stack' = e.stack /\ replies' = replies \cup e.replies
  BY <1>1 DEF Happens
<1>3. /\ stack \in Stack /\ replies \in SUBSET Reply
      /\ renewals \in Nat /\ blind \in BOOLEAN
      /\ longest \in Times /\ held \in Nat
      /\ late \in BOOLEAN /\ reused \in BOOLEAN
      /\ stack.configured \in BOOLEAN
  BY DEF StackInv, StackTypeOK, Stack
<1>4. ASSUME e.stack \in Stack, e.replies \in SUBSET Reply
      PROVE  StackTypeOK'
  <2>1. e.stack.configured \in BOOLEAN
    BY <1>4 DEF Stack
  <2>2. reused' \in BOOLEAN /\ renewals' \in Nat /\ late' \in BOOLEAN
    BY <1>2, <1>3, <2>1 DEF Tick, InUse
  <2>3. longest' \in Times /\ held' \in Nat
    BY <1>3, NetConstants DEF Tick
  <2>4. blind' \in BOOLEAN
    BY <1>3 DEF Tick
  <2> QED
    BY <1>2, <1>3, <1>4, <2>2, <2>3, <2>4 DEF StackInv, StackTypeOK, Tick
<1>6. CASE ~stack.configured
  <2>1. e \in Retried(stack)
    BY <1>1, <1>6 DEF TickOneSecond
  <2>2. /\ e.stack \in Stack /\ e.replies \in SUBSET Reply
        /\ e.stack.configured = stack.configured
        /\ e.stack.renewing => stack.renewing
    BY <1>3, <2>1, RetriedResults
  <2>3. ~stack.renewing
    BY <1>6 DEF StackInv, LeaseInv, RenewingInv
  <2>4. LeaseInv'
    BY <1>2, <1>6, <2>2, <2>3, LeaseNone
  <2> QED
    BY <1>4, <2>2, <2>4 DEF StackInv
<1>7. CASE stack.configured /\ stack.lease = 0
  <2>1. e \in Returns(stack, TRUE)
    BY <1>1, <1>7 DEF TickOneSecond
  <2>2. e.stack = stack /\ e.replies = {}
    BY <2>1 DEF Returns, Result
  <2>3. longest = 0 /\ longest' = 0
    BY <1>2, <1>7, <2>2 DEF StackInv, LeaseInv, LongestInv, Tick
  <2>4. late' = late /\ reused' = reused
    BY <1>2, <1>3, <1>7, <2>2 DEF Tick
  <2>5. RenewingInv' /\ CountedInv' /\ LongestInv'
    BY <1>2, <1>7, <2>2, <2>3
       DEF StackInv, LeaseInv, RenewingInv, CountedInv, LongestInv
  <2>6. AnswersInv' /\ AddressIsOffered'
    BY <1>2, <2>2, <2>4
       DEF StackInv, LeaseInv, AnswersInv, AddressIsOffered
  <2>7. StackTypeOK'
    BY <1>3, <1>4, <2>2
  <2> QED
    BY <2>5, <2>6, <2>7 DEF StackInv, LeaseInv
<1>8. CASE stack.configured /\ stack.lease # 0
  <2>1. e \in Aged(stack)
    BY <1>1, <1>8 DEF TickOneSecond
  <2>2. /\ e.stack \in Stack /\ e.replies \in SUBSET Reply
        /\ e.stack.xid # stack.xid <=> AsksAgain(stack)
        /\ \/ GoesOn(stack, e)
           \/ ~e.stack.configured /\ ~e.stack.renewing
    BY <1>3, <1>8, <2>1, AgedResults
  <2>3. ASSUME GoesOn(stack, e) PROVE LeaseInv'
    BY <1>1, <1>8, <2>2, <2>3, TickLease
  <2>4. ASSUME ~e.stack.configured, ~e.stack.renewing PROVE LeaseInv'
    BY <1>2, <2>4, LeaseNone
  <2>5. LeaseInv'
    BY <2>2, <2>3, <2>4
  <2> QED
    BY <1>4, <2>2, <2>5 DEF StackInv
<1> QED
  BY <1>6, <1>7, <1>8


\* The types of the histories of a lease.
GhostType ==
  /\ renewals \in Nat /\ blind \in BOOLEAN
  /\ longest \in Times /\ held \in Nat /\ late \in BOOLEAN

LEMMA GhostsTyped ==
  ASSUME StackInv
  PROVE  GhostType /\ (ghosts' = ghosts => GhostType')
BY DEF StackInv, StackTypeOK, GhostType, ghosts

LEMMA LongerBounds ==
  ASSUME NEW a \in Nat, NEW b \in Nat
  PROVE  /\ Longer(a, b) \in {a, b, 0}
         /\ Longer(a, b) # 0 => /\ a # 0 /\ b # 0
                                /\ a <= Longer(a, b) /\ b <= Longer(a, b)
BY DEF Longer

\* What every reception leaves: the typed rest of the state.
LEMMA HandledType ==
  ASSUME StackInv, NEW r, NEW e, Happens(e, replies \ {r}),
         e.stack \in Stack, e.replies \in SUBSET Reply,
         failed' \in BOOLEAN, GhostType', UNCHANGED <<started, reused>>
  PROVE  StackTypeOK'
BY DEF StackInv, StackTypeOK, Happens, GhostType

LEMMA OfferKeeps ==
  ASSUME StackConstants, StackInv,
         NEW r \in replies, NEW ip \in Addresses, NEW o \in Options,
         ReceiveOffer(r, ip, o)
  PROVE  StackInv'
<1>1. PICK e \in HandleOffer(stack, ip, o) :
           Happens(e, replies \ {r}) /\ failed' = ~e.ok
  BY DEF ReceiveOffer, Handled
<1>2. stack' = e.stack /\ ~failed
  BY <1>1 DEF Happens, ReceiveOffer, Handled
<1>3. stack \in Stack /\ late \in BOOLEAN /\ stack.configured \in BOOLEAN
  BY DEF StackInv, StackTypeOK, Stack
<1>4. /\ e.stack \in Stack /\ e.replies \in SUBSET Reply
      /\ e.stack.configured = stack.configured
      /\ e.stack.renewing => stack.renewing
      /\ e.stack.lease = o.lease /\ e.stack.age = stack.age
  BY <1>3, OfferResults
<1>5. /\ late' = (late \/ stack.configured)
      /\ longest' = IF stack.configured THEN Longer(longest, o.lease) ELSE 0
      /\ held' = IF longest' # 0 THEN held ELSE 0
      /\ UNCHANGED <<renewals, blind>>
  BY DEF ReceiveOffer
<1>6. failed' \in BOOLEAN /\ UNCHANGED <<started, reused>>
  BY <1>1 DEF ReceiveOffer, Handled
<1>7. /\ longest \in Times /\ o.lease \in Times /\ held \in Nat
      /\ Times \subseteq Nat /\ 0 \in Times
  BY NetConstants DEF StackInv, StackTypeOK
<1>8. /\ Longer(longest, o.lease) \in {longest, o.lease, 0}
      /\ Longer(longest, o.lease) # 0 =>
           /\ longest # 0 /\ o.lease # 0
           /\ longest <= Longer(longest, o.lease)
           /\ o.lease <= Longer(longest, o.lease)
  BY <1>7, LongerBounds
<1>9. StackTypeOK'
  <2>1. late' \in BOOLEAN /\ longest' \in Times /\ held' \in Nat
    BY <1>3, <1>5, <1>7, <1>8
  <2>2. GhostType'
    BY <1>5, <2>1 DEF GhostType, StackInv, StackTypeOK
  <2> QED
    BY <1>1, <1>4, <1>6, <2>2, HandledType
<1>10. RenewingInv'
  BY <1>2, <1>4 DEF StackInv, LeaseInv, RenewingInv
<1>11. stack'.configured => late'
  BY <1>2, <1>4, <1>5
<1>12. LongestInv'
  <2> SUFFICES ASSUME stack.configured, Longer(longest, o.lease) # 0
               PROVE  /\ o.lease # 0 /\ o.lease <= longest'
                      /\ held' = stack.age /\ held' < longest'
    BY <1>2, <1>4, <1>5 DEF LongestInv
  <2>1. held = stack.age /\ held < longest
    BY <1>8 DEF StackInv, LeaseInv, LongestInv
  <2>2. held' = held /\ longest' = Longer(longest, o.lease)
    BY <1>5
  <2>3. longest' \in Nat /\ longest \in Nat
    BY <1>7, <1>8, <2>2
  <2> QED
    BY <1>7, <1>8, <2>1, <2>2, <2>3
<1>13. LeaseInv'
  BY <1>10, <1>11, <1>12
     DEF LeaseInv, RenewingInv, AnswersInv, CountedInv, AddressIsOffered
<1> QED
  BY <1>9, <1>13 DEF StackInv

\* The address an ACK assigns was offered, or is the one in use.
LEMMA AssignedIsOffered ==
  ASSUME StackInv, NEW r \in replies, NEW ip \in {r.ip, None},
         r.kind = "answer", r.xid = stack.xid,
         Accepts(stack, ip), stack.offered # None, ~reused,
         ~(late /\ ~(Assigned(stack, ip) = stack.offered))
  PROVE  Assigned(stack, ip) = stack.offered
<1>1. CASE late
  BY <1>1
<1>2. CASE ~stack.renewing
  BY <1>2 DEF Accepts
<1>3. CASE ~late /\ stack.renewing
  <2>1. stack.ip = stack.offered
    BY <1>3 DEF StackInv, LeaseInv, RenewingInv, AddressIsOffered
  <2>2. r.ip = stack.ip
    BY <1>3 DEF StackInv, LeaseInv, AnswersInv
  <2> QED
    BY <1>3, <2>1, <2>2 DEF Assigned, Otherwise
<1> QED
  BY <1>1, <1>2, <1>3

LEMMA AckKeeps ==
  ASSUME StackConstants, StackInv,
         NEW r \in replies, NEW ip \in Addresses \cup {None},
         NEW o \in Options, ReceiveAck(r, ip, o)
  PROVE  StackInv'
<1>1. PICK e \in HandleAck(stack, ip, o) :
           Happens(e, replies \ {r}) /\ failed' = ~e.ok
  BY DEF ReceiveAck, Handled
<1>2. /\ stack' = e.stack /\ replies' = (replies \ {r}) \cup e.replies
      /\ ~failed /\ failed' \in BOOLEAN /\ UNCHANGED <<started, reused>>
  BY <1>1 DEF Happens, ReceiveAck, Handled
<1>3. stack \in Stack /\ late \in BOOLEAN /\ renewals \in Nat
  BY DEF StackInv, StackTypeOK
<1>4. /\ late' = (late /\ ~(/\ Accepts(stack, ip)
                            /\ Assigned(stack, ip) = stack.offered))
      /\ IF Accepts(stack, ip)
         THEN /\ renewals' = 0 /\ blind' = FALSE /\ held' = 0
              /\ longest' = IF stack'.configured THEN stack'.lease ELSE 0
         ELSE UNCHANGED <<renewals, blind, longest, held>>
  BY DEF ReceiveAck
<1>5. late' \in BOOLEAN
  BY <1>3, <1>4
<1>6. CASE ~Accepts(stack, ip)
  <2>1. e.stack = stack /\ e.replies = {}
    BY <1>6, AckRefused
  <2>2. /\ ghosts' = ghosts /\ SameLease(stack, stack')
        /\ NoAnswer(replies' \ replies)
    BY <1>2, <1>3, <1>4, <1>6, <2>1 DEF SameLease, NoAnswer, ghosts
  <2>3. StackTypeOK'
    BY <1>1, <1>2, <1>3, <2>1, <2>2, GhostsTyped, HandledType
  <2>4. LeaseInv'
    BY <1>2, <2>2, LeaseFrame
  <2> QED
    BY <2>3, <2>4 DEF StackInv
<1>7. CASE Accepts(stack, ip)
  <2>1. /\ e.stack \in Stack /\ e.replies \in SUBSET Reply
        /\ e.stack.ip = Assigned(stack, ip)
        /\ e.stack.age = 0 /\ ~e.stack.renewing
        /\ e.stack.offered = stack.offered
    BY <1>3, <1>7, AckResults DEF Hosts
  <2>2. /\ renewals' = 0 /\ ~blind' /\ held' = 0
        /\ longest' = IF stack'.configured THEN stack'.lease ELSE 0
    BY <1>4, <1>7
  <2>3. stack'.lease \in Times /\ stack'.lease \in Nat /\ 0 \in Times
    BY <1>2, <2>1, NetConstants DEF Stack
  <2>4. StackTypeOK'
    <3>1. blind' \in BOOLEAN
      BY <1>4, <1>7
    <3>2. GhostType'
      BY <1>5, <2>2, <2>3, <3>1 DEF GhostType
    <3> QED
      BY <1>1, <1>2, <2>1, <3>2, HandledType
  <2>6. CountedInv'
    <3> SUFFICES ASSUME stack'.lease # 0 PROVE 0 < Half(stack'.lease)
      BY <1>2, <2>1, <2>2 DEF CountedInv
    <3> QED
      BY <2>3, HalfBounds
  <2>7. LongestInv'
    BY <1>2, <2>1, <2>2, <2>3 DEF LongestInv
  <2>8. AddressIsOffered'
    <3> SUFFICES ASSUME stack.offered # None, ~late', ~reused
                 PROVE  Assigned(stack, ip) = stack.offered
      BY <1>2, <2>1 DEF AddressIsOffered
    <3>1. /\ ip \in {r.ip, None} /\ r.kind = "answer" /\ r.xid = stack.xid
      BY DEF ReceiveAck, Matches
    <3> QED
      BY <1>4, <1>7, <3>1, AssignedIsOffered
  <2>9. LeaseInv'
    BY <1>2, <2>1, <2>6, <2>7, <2>8 DEF LeaseInv, RenewingInv, AnswersInv
  <2> QED
    BY <2>4, <2>9 DEF StackInv
<1> QED
  BY <1>6, <1>7

\* A frame that leaves the lease alone.
LEMMA FrameKeeps ==
  ASSUME StackConstants, StackInv, NEW r, NEW e,
         Happens(e, replies \ {r}), failed' = ~e.ok,
         e.stack \in Stack, e.replies \in SUBSET Reply,
         SameLease(stack, e.stack), NoAnswer(e.replies),
         ghosts' = ghosts, UNCHANGED <<started, reused>>
  PROVE  StackInv'
<1>1. stack' = e.stack /\ replies' = (replies \ {r}) \cup e.replies
  BY DEF Happens
<1>2. failed' \in BOOLEAN /\ GhostType'
  BY GhostsTyped
<1>3. StackTypeOK'
  BY <1>2, HandledType
<1>4. NoAnswer(replies' \ replies)
  BY <1>1 DEF NoAnswer
<1>5. LeaseInv'
  BY <1>1, <1>4, LeaseFrame
<1> QED
  BY <1>3, <1>5 DEF StackInv

LEMMA ReturnsKeeps ==
  ASSUME StackConstants, StackInv, NEW r, NEW b, ghosts' = ghosts,
         Handled(Returns(stack, b), r)
  PROVE  StackInv'
<1>1. PICK e \in Returns(stack, b) :
           Happens(e, replies \ {r}) /\ failed' = ~e.ok
  BY DEF Handled
<1>2. e.stack = stack /\ e.replies = {}
  BY DEF Returns, Result
<1>3. UNCHANGED <<started, reused>>
  BY DEF Handled
<1>4. /\ SameLease(stack, e.stack) /\ NoAnswer(e.replies)
      /\ e.replies \in SUBSET Reply /\ e.stack \in Stack
  BY <1>2 DEF SameLease, NoAnswer, StackInv, StackTypeOK
<1> QED
  BY <1>1, <1>3, <1>4, FrameKeeps

LEMMA NakKeeps ==
  ASSUME StackConstants, StackInv, NEW r \in replies, ReceiveNak(r)
  PROVE  StackInv'
BY ReturnsKeeps DEF ReceiveNak

LEMMA OtherResults ==
  ASSUME StackConstants, StackInv, NEW r \in replies,
         r.kind \notin {"offer", "answer"},
         NEW e \in HandleOther(stack, r)
  PROVE  /\ e.stack \in Stack /\ e.replies \in SUBSET Reply
         /\ SameLease(stack, e.stack) /\ NoAnswer(e.replies)
<1>1. stack \in Stack /\ r \in Reply
  BY DEF StackInv, StackTypeOK
<1>2. r.kind \in {"arp", "dns", "synack", "http"}
  BY <1>1 DEF Reply
<1>3. CASE e \in Returns(stack, TRUE)
  <2>1. e.stack = stack /\ e.replies = {}
    BY <1>3 DEF Returns, Result
  <2> QED
    BY <1>1, <2>1 DEF SameLease, NoAnswer
<1>4. CASE e \in HandleArpReply(stack, r.host)
  BY <1>1, <1>4, ArpResults
<1>5. CASE e \in HandleDns(stack) /\ stack.seq < MaxSyn
  BY <1>1, <1>5, DnsResults
<1>6. CASE r.kind = "synack" /\ e \in HandleSynAck(stack, r.ack)
  <2>1. r.ack \in 1..MaxSyn
    BY <1>1, <1>6, NetReplyAck
  <2> QED
    BY <1>1, <1>6, <2>1, SynAckResults
<1>7. CASE r.kind = "http" /\ e \in HandleHttp(stack, r.ack)
  <2>1. r.ack \in 1..MaxSyn
    BY <1>1, <1>7, NetReplyAck
  <2> QED
    BY <1>1, <1>7, <2>1, HttpResults
<1> QED
  BY <1>2, <1>3, <1>4, <1>5, <1>6, <1>7 DEF HandleOther

LEMMA OtherKeeps ==
  ASSUME StackConstants, StackInv, NEW r \in replies, ReceiveOther(r)
  PROVE  StackInv'
<1>1. ghosts' = ghosts
  BY DEF ReceiveOther
<1>2. CASE r.kind \in {"offer", "answer"}
  BY <1>1, <1>2, ReturnsKeeps DEF ReceiveOther
<1>3. CASE r.kind \notin {"offer", "answer"}
  <2>1. Handled(HandleOther(stack, r), r)
    BY <1>3 DEF ReceiveOther
  <2>2. PICK e \in HandleOther(stack, r) :
             Happens(e, replies \ {r}) /\ failed' = ~e.ok
    BY <2>1 DEF Handled
  <2>3. UNCHANGED <<started, reused>>
    BY <2>1 DEF Handled
  <2>4. /\ e.stack \in Stack /\ e.replies \in SUBSET Reply
        /\ SameLease(stack, e.stack) /\ NoAnswer(e.replies)
    BY <1>3, OtherResults
  <2> QED
    BY <1>1, <2>2, <2>3, <2>4, FrameKeeps
<1> QED
  BY <1>2, <1>3

LEMMA ArpAskedKeeps ==
  ASSUME StackInv, ArpAsked
  PROVE  StackInv'
<1>1. /\ failed' = TRUE
      /\ UNCHANGED <<stack, started, replies, ghosts, reused>>
  BY DEF ArpAsked
<1>2. StackTypeOK'
  BY <1>1, GhostsTyped DEF StackInv, StackTypeOK, GhostType
<1>3. SameLease(stack, stack')
  BY <1>1 DEF SameLease
<1>4. NoAnswer(replies' \ replies)
  BY <1>1 DEF NoAnswer
<1>5. LeaseInv'
  BY <1>1, <1>3, <1>4, LeaseFrame
<1> QED
  BY <1>2, <1>5 DEF StackInv

LEMMA EndsKeeps ==
  ASSUME StackConstants, StackInv, Ends
  PROVE  StackInv'
<1>1. stack' = Reset /\ stack' \in Stack
  BY NetReset DEF Ends
<1>2. StackTypeOK'
  BY <1>1, NetConstants DEF StackInv, StackTypeOK, Ends, Unbinds
<1>3. ~stack'.configured /\ ~stack'.renewing
  BY <1>1 DEF Reset
<1>4. LeaseInv'
  BY <1>3, LeaseNone
<1> QED
  BY <1>2, <1>4 DEF StackInv

LEMMA StackKept ==
  ASSUME StackConstants
  PROVE  StackInv /\ [StackNext]_stackVars => StackInv'
<1> SUFFICES ASSUME StackInv, [StackNext]_stackVars PROVE StackInv'
  OBVIOUS
<1>1. CASE Start
  BY <1>1, StartKeeps
<1>2. CASE Tick
  BY <1>2, TickKeeps
<1>3. CASE ArpAsked
  BY <1>3, ArpAskedKeeps
<1>4. CASE Restart
  BY <1>4, EndsKeeps DEF Restart
<1>5. CASE CarrierLost
  BY <1>5, EndsKeeps DEF CarrierLost
<1>6. ASSUME NEW r \in replies, Receive(r) PROVE StackInv'
  <2>1. CASE \E o \in Options, ip \in Addresses : ReceiveOffer(r, ip, o)
    BY <2>1, OfferKeeps
  <2>2. CASE \E o \in Options, ip \in Addresses \cup {None} :
               ReceiveAck(r, ip, o)
    BY <2>2, AckKeeps
  <2>3. CASE ReceiveNak(r)
    BY <2>3, NakKeeps
  <2>4. CASE ReceiveOther(r)
    BY <2>4, OtherKeeps
  <2> QED
    BY <1>6, <2>1, <2>2, <2>3, <2>4 DEF Receive
<1>7. CASE UNCHANGED stackVars
  BY <1>7 DEF stackVars, ghosts, StackInv, StackTypeOK, LeaseInv,
              RenewingInv, AnswersInv, CountedInv, LongestInv,
              AddressIsOffered
<1> QED
  BY <1>1, <1>2, <1>3, <1>4, <1>5, <1>6, <1>7 DEF StackNext

\* The inductive invariant of the DHCP and ARP client of net_stack.cpp: what is in
\* flight agrees with the lease, whatever is lost, late or overtaken.
THEOREM StackInvariant == StackSpec => []StackInv
<1>1. StackInit => StackInv
  BY StackInitially, StackAssumption
<1>2. StackInv /\ [StackNext]_stackVars => StackInv'
  BY StackKept, StackAssumption
<1> QED
  BY <1>1, <1>2, PTL DEF StackSpec

\* The stack stays well formed, with a reply of any kind in flight.
THEOREM StackTypes == StackSpec => []StackTypeOK
<1>1. StackInv => StackTypeOK
  BY DEF StackInv
<1> QED
  BY <1>1, StackInvariant, PTL

\* TickOneSecond of net_stack.cpp keeps no address longer than the longest lease
\* that the phone has named for it, in the ACK that bound it or in the Offers
\* that HandleDhcp has taken after that ACK.
THEOREM LeaseHolds == StackSpec => []LeaseIsLive
<1>1. StackInv => LeaseIsLive
  BY DEF StackInv, LeaseInv, LongestInv, LeaseIsLive
<1> QED
  BY <1>1, StackInvariant, PTL

\* The address in use is the one last offered, in whatever order HandleDhcp of
\* net_stack.cpp is given the Offers and the answers to repeated requests.
THEOREM AddressHolds == StackSpec => []AddressIsOffered
<1>1. StackInv => AddressIsOffered
  BY DEF StackInv, LeaseInv
<1> QED
  BY <1>1, StackInvariant, PTL


-----------------------------------------------------------------------------
(* The renewal of every lease.                                             *)

\* A stack that has not been started has no lease.
IdleInv == ~started => ~stack.configured

LEMMA IdleInit == StackInit => IdleInv
BY DEF StackInit, IdleInv, Reset

LEMMA IdleNext ==
  ASSUME StackConstants
  PROVE  IdleInv /\ [StackNext]_stackVars => IdleInv'
<1> SUFFICES ASSUME IdleInv, [StackNext]_stackVars PROVE IdleInv'
  OBVIOUS
<1>1. CASE Start
  <2>1. PICK e \in SendDhcpDiscover(Reset) : Happens(e, replies)
    BY <1>1 DEF Start
  <2>2. e.stack = [Reset EXCEPT !.requested = FALSE, !.renewing = FALSE,
                                    !.seconds = 0]
    BY NetReset, DiscoverResults
  <2> QED
    BY <2>1, <2>2 DEF Happens, Reset, IdleInv
<1>2. CASE Tick
  BY <1>2 DEF Tick, IdleInv
<1>3. CASE ArpAsked
  BY <1>3 DEF ArpAsked, IdleInv
<1>4. CASE Restart \/ CarrierLost
  BY <1>4 DEF Restart, CarrierLost, Ends, Reset, IdleInv
<1>5. ASSUME NEW r \in replies, Receive(r) PROVE IdleInv'
  <2>1. \A x : Handled(x, r) => started /\ started' = started
    BY DEF Handled
  <2>2. ASSUME NEW o, NEW ip,
               ReceiveOffer(r, ip, o) \/ ReceiveAck(r, ip, o)
        PROVE  started /\ started' = started
    BY <2>1, <2>2 DEF ReceiveOffer, ReceiveAck
  <2>3. ReceiveNak(r) \/ ReceiveOther(r) => started /\ started' = started
    BY <2>1 DEF ReceiveNak, ReceiveOther
  <2>4. started /\ started' = started
    BY <1>5, <2>2, <2>3 DEF Receive
  <2> QED
    BY <2>4 DEF IdleInv
<1>6. CASE UNCHANGED stackVars
  BY <1>6 DEF stackVars, IdleInv
<1> QED
  BY <1>1, <1>2, <1>3, <1>4, <1>5, <1>6 DEF StackNext

\* A lease that runs out was renewed.
LEMMA TickRenews ==
  ASSUME StackConstants, StackInv, Tick, Expires, Renewable, ~late
  PROVE  renewals' = 1
<1>1. PICK e \in TickOneSecond(stack) : Happens(e, replies)
  BY DEF Tick
<1>2. stack' = e.stack /\ stack.configured /\ ~e.stack.configured
  BY <1>1 DEF Happens, Expires
<1>3. /\ stack \in Stack /\ stack.age \in Nat /\ stack.lease \in Nat
      /\ renewals \in Nat
  BY NetConstants DEF StackInv, StackTypeOK, Stack
<1>4. CASE stack.lease = 0
  <2>1. e \in Returns(stack, TRUE)
    BY <1>1, <1>2, <1>4 DEF TickOneSecond
  <2> QED
    BY <1>2, <2>1 DEF Returns, Result
<1>5. CASE stack.lease # 0
  <2>1. e \in Aged(stack)
    BY <1>1, <1>2, <1>5 DEF TickOneSecond
  <2>2. /\ e.stack.xid # stack.xid <=> AsksAgain(stack)
        /\ GoesOn(stack, e) \/ stack.age + 1 >= stack.lease
    BY <1>2, <1>3, <2>1, AgedResults
  <2>3. stack.age + 1 >= stack.lease
    BY <1>2, <2>2 DEF GoesOn
  <2>4. IF stack.age < Half(stack.lease) THEN renewals = 0 ELSE renewals = 1
    BY <1>2, <1>5 DEF StackInv, LeaseInv, CountedInv, Renewable
  <2>5. renewals' = IF AsksAgain(stack) THEN renewals + 1 ELSE renewals
    BY <1>2, <2>2 DEF Tick
  <2>6. AsksAgain(stack) <=> stack.age + 1 = Half(stack.lease)
    BY DEF AsksAgain, Renewable
  <2>7. Half(stack.lease) \in Nat /\ Half(stack.lease) <= stack.lease
    BY <1>3, <1>5, HalfBounds
  <2> QED
    BY <1>3, <2>3, <2>4, <2>5, <2>6, <2>7
<1> QED
  BY <1>4, <1>5

\* No other step ends a lease, but for one that is a failure.
LEMMA ReceiveEndsNoLease ==
  ASSUME StackConstants, StackInv, NEW r \in replies, Receive(r),
         Expires
  PROVE  FALSE
<1>1. /\ stack.configured /\ ~stack'.configured /\ ~failed'
      /\ stack \in Stack /\ r \in Reply
  BY DEF Expires, StackInv, StackTypeOK
<1>2. ASSUME NEW ip \in Addresses, NEW o \in Options, ReceiveOffer(r, ip, o)
      PROVE  FALSE
  <2>1. PICK e \in HandleOffer(stack, ip, o) : Happens(e, replies \ {r})
    BY <1>2 DEF ReceiveOffer, Handled
  <2>2. e.stack.configured = stack.configured
    BY <1>1, OfferResults
  <2> QED
    BY <1>1, <2>1, <2>2 DEF Happens
<1>3. ASSUME NEW ip \in Addresses \cup {None}, NEW o \in Options,
             ReceiveAck(r, ip, o)
      PROVE  FALSE
  <2>1. PICK e \in HandleAck(stack, ip, o) :
             Happens(e, replies \ {r}) /\ failed' = ~e.ok
    BY <1>3 DEF ReceiveAck, Handled
  <2>2. CASE Accepts(stack, ip)
    <3>1. ~e.stack.configured => ~e.ok
      BY <1>1, <2>2, AckResults DEF Hosts
    <3> QED
      BY <1>1, <2>1, <3>1 DEF Happens
  <2>3. CASE ~Accepts(stack, ip)
    BY <1>1, <2>1, <2>3, AckRefused DEF Happens
  <2> QED
    BY <2>2, <2>3
<1>4. ASSUME Handled(Returns(stack, TRUE), r)
             \/ Handled(Returns(stack, FALSE), r)
      PROVE  FALSE
  BY <1>1, <1>4 DEF Handled, Happens, Returns, Result
<1>5. ASSUME Handled(HandleOther(stack, r), r),
             r.kind \notin {"offer", "answer"}
      PROVE  FALSE
  <2>1. PICK e \in HandleOther(stack, r) :
             Happens(e, replies \ {r}) /\ failed' = ~e.ok /\ ~failed
    BY <1>5 DEF Handled
  <2>2. SameLease(stack, e.stack)
    BY <1>5, <2>1, OtherResults DEF Happens
  <2> QED
    BY <1>1, <2>1, <2>2 DEF Happens, SameLease
<1> QED
  BY <1>2, <1>3, <1>4, <1>5 DEF Receive, ReceiveNak, ReceiveOther

\* TickOneSecond of net_stack.cpp lets no lease run out for which SendDhcpRenew
\* has not handed one Request to the tether driver, where the server and, at half
\* of the lease, the gateway were known.
THEOREM EveryLeaseIsRenewed == StackSpec => RenewedBeforeExpiry
<1>1. StackInv /\ IdleInv /\ [StackNext]_stackVars
        => [Expires /\ Renewable => renewals' = 1 \/ late]_stackVars
  <2> SUFFICES ASSUME StackInv, IdleInv, StackNext, Expires, Renewable, ~late
               PROVE  renewals' = 1
    OBVIOUS
  <2>1. started /\ started' /\ stack' # stack
    BY DEF IdleInv, Expires
  <2>2. CASE Tick
    BY <2>2, StackAssumption, TickRenews
  <2>3. ASSUME NEW r \in replies, Receive(r) PROVE FALSE
    BY <2>3, StackAssumption, ReceiveEndsNoLease
  <2> QED
    BY <2>1, <2>2, <2>3
       DEF StackNext, Start, ArpAsked, Restart, CarrierLost,
           Ends
<1>2. StackInit => IdleInv
  BY IdleInit
<1>3. IdleInv /\ [StackNext]_stackVars => IdleInv'
  BY IdleNext, StackAssumption
<1> QED
  BY <1>1, <1>2, <1>3, StackInvariant, PTL DEF StackSpec, RenewedBeforeExpiry

-----------------------------------------------------------------------------
(* Loops.  A recursive function of the model is unfolded by showing that   *)
(* a function with its equation exists, one round after the other.         *)

\* A set of natural numbers has a least element.
LEMMA LeastNumber ==
  ASSUME NEW T \in SUBSET Nat, T # {}
  PROVE  \E x \in T : \A y \in Nat : y < x => y \notin T
<1>1. PICK x \in T : \A y \in T : <<y, x>> \notin OpToRel(<, Nat)
  BY NatLessThanWellFounded, WFMin
<1>2. ASSUME NEW y \in Nat, y < x
      PROVE  y \notin T
  <2>1. <<y, x>> \in Nat \X Nat /\ <<y, x>>[1] < <<y, x>>[2]
    BY <1>2
  <2>2. <<y, x>> \in OpToRel(<, Nat)
    BY <2>1 DEF OpToRel
  <2> QED
    BY <1>1, <2>2
<1> QED
  BY <1>2

\* What holds before the first round and is passed on by each holds after all.
LEMMA EveryRound ==
  ASSUME NEW N \in Nat, NEW T, 0 \in T,
         \A i \in 1..N : i - 1 \in T => i \in T
  PROVE  \A i \in 0..N : i \in T
<1> DEFINE Bad == {i \in Nat : i <= N /\ i \notin T}
<1>1. SUFFICES ASSUME Bad # {} PROVE FALSE
  OBVIOUS
<1>2. PICK x \in Bad : \A y \in Nat : y < x => y \notin Bad
  BY <1>1, LeastNumber
<1>3. x \in Nat /\ x <= N /\ x \notin T /\ x # 0
  OBVIOUS
<1>4. x - 1 \in Nat /\ x - 1 < x /\ x \in 1..N /\ x - 1 <= N
  BY <1>3
<1>5. x - 1 \in T
  BY <1>2, <1>4
<1> QED
  BY <1>3, <1>4, <1>5

\* A loop of N rounds over states in S, each round a step of its own number and
\* of the state before; and what such a loop leaves after every round.
IsLoop(N, S, s0, step) ==
  N \in Nat /\ s0 \in S /\ step \in [(1..N) \X S -> S]

Runs(f, N, S, s0, step) ==
  /\ f \in [0..N -> S] /\ f[0] = s0
  /\ \A i \in 1..N : f[i] = step[<<i, f[i - 1]>>]

LEMMA LoopExists ==
  ASSUME NEW N, NEW S, NEW s0, NEW step, IsLoop(N, S, s0, step)
  PROVE  \E f : Runs(f, N, S, s0, step)
<1> N \in Nat /\ s0 \in S /\ step \in [(1..N) \X S -> S]
  BY DEF IsLoop
<1> DEFINE Good(n) == \E f \in [0..n -> S] :
              f[0] = s0 /\ \A i \in 1..n : f[i] = step[<<i, f[i - 1]>>]
<1> DEFINE T == {n \in Nat : Good(n)}
<1>1. Good(0)
  <2>1. [k \in 0..0 |-> s0] \in [0..0 -> S] /\ [k \in 0..0 |-> s0][0] = s0
    OBVIOUS
  <2>2. 1..0 = {}
    OBVIOUS
  <2> QED
    BY <2>1, <2>2
<1>2. ASSUME NEW n \in Nat, n + 1 <= N, Good(n)
      PROVE  Good(n + 1)
  <2>1. PICK f \in [0..n -> S] :
          f[0] = s0 /\ \A i \in 1..n : f[i] = step[<<i, f[i - 1]>>]
    BY <1>2
  <2> DEFINE g == [k \in 0..(n + 1) |->
                     IF k = n + 1 THEN step[<<n + 1, f[n]>>] ELSE f[k]]
  <2>2. step[<<n + 1, f[n]>>] \in S
    <3>1. n + 1 \in 1..N /\ f[n] \in S
      BY <1>2, <2>1
    <3>2. <<n + 1, f[n]>> \in (1..N) \X S
      BY <3>1
    <3> QED
      BY <3>2
  <2>3. \A k \in 0..(n + 1) : k = n + 1 \/ k \in 0..n
    OBVIOUS
  <2>4. g \in [0..(n + 1) -> S]
    BY <2>1, <2>2, <2>3
  <2>5. g[0] = s0
    BY <2>1
  <2>6. ASSUME NEW i \in 1..(n + 1)
        PROVE  g[i] = step[<<i, g[i - 1]>>]
    <3>1. i - 1 \in 0..n /\ i \in 0..(n + 1) /\ i - 1 \in 0..(n + 1)
          /\ i - 1 # n + 1
      OBVIOUS
    <3>2. g[i - 1] = f[i - 1]
      BY <3>1
    <3>3. CASE i = n + 1
      BY <3>1, <3>2, <3>3
    <3>4. CASE i # n + 1
      <4>1. i \in 1..n /\ g[i] = f[i]
        BY <3>1, <3>4
      <4> QED
        BY <4>1, <3>2, <2>1
    <3> QED
      BY <3>3, <3>4
  <2> HIDE DEF g
  <2> QED
    BY <2>4, <2>5, <2>6
<1> HIDE DEF Good
<1>3. 0 \in T
  BY <1>1
<1>4. ASSUME NEW i \in 1..N, i - 1 \in T
      PROVE  i \in T
  <2>1. i - 1 \in Nat /\ (i - 1) + 1 = i /\ i <= N /\ i \in Nat
    OBVIOUS
  <2>2. Good((i - 1) + 1)
    BY <1>2, <1>4, <2>1
  <2> QED
    BY <2>1, <2>2
<1>5. \A i \in 0..N : i \in T
  <2> HIDE DEF T
  <2> QED
    BY <1>3, <1>4, EveryRound
<1>6. Good(N)
  BY <1>5
<1> QED
  BY <1>6 DEF Good, Runs

-----------------------------------------------------------------------------
(* The inputs of the algorithms.                                           *)

Blocks == [kind : {"block"}, signed : BOOLEAN, blockLen : BlockSizes,
           dpe : UNION {[1..n -> Pointer] : n \in 0..MaxPointers}]

Buffers == [kind : {"empty", "control", "frame", "unknown"},
            least : Nat, claims : Nat]

\* What the algorithms may get.
FrameInput == input.kind = "frame" =>
  \E kind \in {"arp", "dhcp", "other"}, dst, tha \in Macs,
     b \in Translate!Bootp, summed \in BOOLEAN :
    /\ Translate!Translates(Native, Tether)
    /\ b.chaddr = Native
    /\ \A i \in DOMAIN b.options :
         b.options[i].mac = IF b.options[i].code = "client" THEN Native
                            ELSE Tether
    /\ input.frame = [kind |-> kind, src |-> Native, dst |-> dst,
                      sha |-> Native, tha |-> tha, bootp |-> b,
                      sum |-> IF summed THEN Translate!SumOf(b)
                              ELSE Translate!NoSum]

BufferInput == input.kind = "buffer" =>
  /\ input.ncm \in BOOLEAN /\ input.room \in Nat
  /\ (input.buffer \in Blocks /\ input.ncm) \/ input.buffer \in Buffers

DocumentInput == input.kind = "document" =>
  input.body \in UNION {[1..n -> Document!Tokens] : n \in 0..MaxTokens}

InputInv == FrameInput /\ BufferInput /\ DocumentInput

\* Every input is one that its action makes.
LEMMA InputInvariant == FormatsSpec => []InputInv
<1>1. FormatsInit => InputInv
  BY DEF FormatsInit, InputInv, FrameInput, BufferInput, DocumentInput, Nothing
<1>2. InputInv /\ [FormatsNext]_input => InputInv'
  <2> SUFFICES ASSUME InputInv, [FormatsNext]_input
               PROVE  InputInv'
    OBVIOUS
  <2>1. CASE NativeFrame
    <3>1. PICK kind \in {"arp", "dhcp", "other"}, dst \in Macs, tha \in Macs,
            b \in Translate!Bootp, summed \in BOOLEAN :
            /\ b.chaddr = Native
            /\ \A i \in DOMAIN b.options :
                 b.options[i].mac = IF b.options[i].code = "client" THEN Native
                                    ELSE Tether
            /\ input' = [kind |-> "frame",
                    frame |-> [kind |-> kind, src |-> Native, dst |-> dst,
                               sha |-> Native, tha |-> tha, bootp |-> b,
                               sum |-> IF summed THEN Translate!SumOf(b)
                                       ELSE Translate!NoSum]]
      BY <2>1 DEF NativeFrame
    <3>2. Translate!Translates(Native, Tether)
      BY <2>1 DEF NativeFrame
    <3>3. input'.kind = "frame" /\ input'.frame = [kind |-> kind, src |-> Native,
                               dst |-> dst,
                               sha |-> Native, tha |-> tha, bootp |-> b,
                               sum |-> IF summed THEN Translate!SumOf(b)
                                       ELSE Translate!NoSum]
      BY <3>1
    <3>4. FrameInput'
      BY <3>1, <3>2, <3>3 DEF FrameInput
    <3> QED
      BY <3>3, <3>4 DEF InputInv, BufferInput, DocumentInput
  <2>2. CASE Block
    <3>0. PICK signed \in BOOLEAN, length \in BlockSizes, n \in 0..MaxPointers :
            \E dpe \in [1..n -> Pointer], room \in {1, MaxPointers} :
              input' = [kind |-> "buffer", ncm |-> TRUE, room |-> room,
                        buffer |-> [kind |-> "block", signed |-> signed,
                                    blockLen |-> length, dpe |-> dpe]]
      BY <2>2 DEF Block
    <3>1. PICK dpe \in [1..n -> Pointer], room \in {1, MaxPointers} :
            input' = [kind |-> "buffer", ncm |-> TRUE, room |-> room,
                      buffer |-> [kind |-> "block", signed |-> signed,
                                  blockLen |-> length, dpe |-> dpe]]
      BY <3>0
    <3>2. input'.kind = "buffer" /\ input'.ncm = TRUE /\ input'.room \in Nat
      BY <3>1, FormatsAssumption
    <3>3. dpe \in UNION {[1..m -> Pointer] : m \in 0..MaxPointers}
      OBVIOUS
    <3>4. input'.buffer \in Blocks
      BY <3>1, <3>3 DEF Blocks
    <3> QED
      BY <3>2, <3>4 DEF InputInv, FrameInput, BufferInput, DocumentInput
  <2>3. CASE Buffer
    <3>1. PICK kind \in {"empty", "control", "frame", "unknown"},
            ncm \in BOOLEAN, least \in 0..(Capacity + 2),
            claims \in 0..(Capacity + 2), room \in {0, 1} :
            input' = [kind |-> "buffer", ncm |-> ncm, room |-> room,
                 buffer |-> [kind |-> kind, least |-> least,
                             claims |-> claims]]
      BY <2>3 DEF Buffer
    <3>2. least \in Nat /\ claims \in Nat
      BY FormatsAssumption
    <3>3. input'.kind = "buffer" /\ input'.ncm \in BOOLEAN
          /\ input'.room \in Nat /\ input'.buffer \in Buffers
      BY <3>1, <3>2 DEF Buffers
    <3> QED
      BY <3>3 DEF InputInv, FrameInput, BufferInput, DocumentInput
  <2>4. CASE ADocument
    <3>0. PICK n \in 0..MaxTokens : \E body \in [1..n -> Document!Tokens] :
            input' = [kind |-> "document", body |-> body]
      BY <2>4 DEF ADocument
    <3>1. PICK body \in [1..n -> Document!Tokens] :
            input' = [kind |-> "document", body |-> body]
      BY <3>0
    <3> QED
      BY <3>1 DEF InputInv, FrameInput, BufferInput, DocumentInput
  <2>5. CASE Done
    BY <2>5 DEF Done, Nothing, InputInv, FrameInput, BufferInput, DocumentInput
  <2>6. CASE UNCHANGED input
    BY <2>6 DEF InputInv, FrameInput, BufferInput, DocumentInput
  <2> QED
    BY <2>1, <2>2, <2>3, <2>4, <2>5, <2>6 DEF FormatsNext
<1> QED
  BY <1>1, <1>2, PTL DEF FormatsSpec

-----------------------------------------------------------------------------
(* Transfer blocks.                                                        *)

LoopStates == [at : {"loop", "mark", "refused"}, out : Seq(Pointer)]

LEMMA BlockTable ==
  ASSUME NEW b \in Blocks
  PROVE  /\ b.dpe \in Seq(Pointer) /\ b.blockLen \in Nat
         /\ Ncm!LoopEnd(b) \in Nat /\ Ncm!LoopEnd(b) <= Len(b.dpe)
         /\ Ncm!LoopEnd(b) <= MaxDpe
         /\ Ncm!LoopEnd(b) = Len(b.dpe) \/ Ncm!LoopEnd(b) = MaxDpe
         /\ \A i \in 1..Ncm!LoopEnd(b) :
              b.dpe[i] \in Pointer /\ b.dpe[i].index \in Nat
              /\ b.dpe[i].len \in Nat
<1>1. PICK n \in 0..MaxPointers : b.dpe \in [1..n -> Pointer]
  BY DEF Blocks
<1>2. n \in Nat /\ b.dpe \in Seq(Pointer) /\ Len(b.dpe) = n
  BY <1>1, FormatsAssumption
<1>3. \A e \in Pointer : e.index \in Nat /\ e.len \in Nat
  BY FormatsAssumption DEF Pointer
<1>3a. b.blockLen \in Nat
  BY FormatsAssumption DEF Blocks
<1>4. Ncm!LoopEnd(b) \in {Len(b.dpe), MaxDpe} /\ Ncm!LoopEnd(b) \in Nat
      /\ Ncm!LoopEnd(b) <= Len(b.dpe) /\ Ncm!LoopEnd(b) <= MaxDpe
  BY <1>2, FormatsAssumption DEF Ncm!LoopEnd
<1>5. \A i \in 1..Ncm!LoopEnd(b) : b.dpe[i] \in Pointer
  BY <1>1, <1>2, <1>4
<1> QED
  BY <1>2, <1>3, <1>3a, <1>4, <1>5

LEMMA DpeLoopUnfolds ==
  ASSUME NEW b \in Blocks, NEW room \in Nat
  PROVE  \E f \in [0..Ncm!LoopEnd(b) -> LoopStates] :
           /\ f[0] = Ncm!LoopStart
           /\ \A i \in 1..Ncm!LoopEnd(b) :
                f[i] = Ncm!LoopStep(b, room, f[i - 1], b.dpe[i])
           /\ Ncm!DpeLoop(b, room) = f[Ncm!LoopEnd(b)]
<1> DEFINE N == Ncm!LoopEnd(b)
           body(f) == [i \in 0..N |->
                         IF i = 0 THEN Ncm!LoopStart
                         ELSE Ncm!LoopStep(b, room, f[i - 1], b.dpe[i])]
           step == [p \in (1..N) \X LoopStates |->
                      Ncm!LoopStep(b, room, p[2], b.dpe[p[1]])]
<1>1. N \in Nat /\ \A i \in 1..N : b.dpe[i] \in Pointer
  BY BlockTable
<1>2. Ncm!LoopStart \in LoopStates
  BY DEF LoopStates, Ncm!LoopStart
<1>3. ASSUME NEW s \in LoopStates, NEW i \in 1..N
      PROVE  Ncm!LoopStep(b, room, s, b.dpe[i]) \in LoopStates
  <2>1. Append(s.out, b.dpe[i]) \in Seq(Pointer)
    BY <1>1 DEF LoopStates
  <2> QED
    BY <2>1 DEF LoopStates, Ncm!LoopStep
<1>4. step \in [(1..N) \X LoopStates -> LoopStates]
  BY <1>3
<1>5. PICK f : Runs(f, N, LoopStates, Ncm!LoopStart, step)
  <2>1. IsLoop(N, LoopStates, Ncm!LoopStart, step)
    BY <1>1, <1>2, <1>4 DEF IsLoop
  <2> HIDE DEF N, step
  <2> QED
    BY <2>1, LoopExists
<1>5a. /\ f \in [0..N -> LoopStates] /\ f[0] = Ncm!LoopStart
       /\ \A i \in 1..N : f[i] = step[<<i, f[i - 1]>>]
  BY <1>5 DEF Runs
<1>6. f = body(f)
  <2>1. ASSUME NEW i \in 0..N
        PROVE  f[i] = body(f)[i]
    <3>1. CASE i = 0
      BY <3>1, <1>5a, <1>1
    <3>2. CASE i # 0
      <4>1. i \in 1..N /\ i - 1 \in 0..N
        BY <3>2, <1>1
      <4>2. <<i, f[i - 1]>> \in (1..N) \X LoopStates
        BY <4>1, <1>5a
      <4> QED
        BY <4>1, <4>2, <3>2, <1>5a
    <3> QED
      BY <3>1, <3>2
  <2> QED
    BY <2>1, <1>5a
<1> DEFINE g == CHOOSE h : h = body(h)
<1>7. g = body(g)
  BY <1>6
<1>8. Ncm!DpeLoop(b, room) = g[N]
  BY DEF Ncm!DpeLoop
<1>9. \A i \in 0..N : g[i] = IF i = 0 THEN Ncm!LoopStart
                             ELSE Ncm!LoopStep(b, room, g[i - 1], b.dpe[i])
  BY <1>7
<1>10. \A i \in 0..N : g[i] \in LoopStates
  <2> DEFINE T == {i \in 0..N : g[i] \in LoopStates}
  <2>1. 0 \in T
    <3>1. 0 \in 0..N
      BY <1>1
    <3>2. g[0] = Ncm!LoopStart
      <4> HIDE DEF g
      <4> QED
        BY <1>9, <3>1
    <3> HIDE DEF g, N
    <3> QED
      BY <3>1, <3>2, <1>2
  <2>2. ASSUME NEW i \in 1..N, i - 1 \in T
        PROVE  i \in T
    <3>1. i \in 0..N /\ i # 0
      BY <1>1
    <3> HIDE DEF g
    <3> QED
      BY <1>3, <1>9, <2>2, <3>1
  <2>3. \A i \in 0..N : i \in T
    <3> HIDE DEF T, N
    <3> QED
      BY <1>1, <2>1, <2>2, EveryRound
  <2> QED
    BY <2>3
<1>11. g \in [0..N -> LoopStates]
  <2> HIDE DEF g
  <2> QED
    BY <1>7, <1>9, <1>10
<1>12. g[0] = Ncm!LoopStart
  <2>1. 0 \in 0..N
    BY <1>1
  <2> HIDE DEF g
  <2> QED
    BY <1>9, <2>1
<1>13. \A i \in 1..N : g[i] = Ncm!LoopStep(b, room, g[i - 1], b.dpe[i])
  <2>1. \A i \in 1..N : i \in 0..N /\ i # 0
    BY <1>1
  <2> HIDE DEF g
  <2> QED
    BY <1>9, <2>1
<1> HIDE DEF g
<1> QED
  BY <1>8, <1>11, <1>12, <1>13

\* In a block no longer than the buffer the room behind an index is what it is in
\* the arithmetic of the code.
LEMMA PointsInside ==
  ASSUME NEW b \in Blocks, b.blockLen <= Capacity, NEW e \in Pointer
  PROVE  /\ Ncm!Points(b, e) <=> Inside(b, e)
         /\ Inside(b, e) => ~Ncm!IsNull(e) /\ e.index + e.len <= Capacity
<1>1. b.blockLen \in Nat /\ e.index \in Nat /\ e.len \in Nat
  BY FormatsAssumption DEF Blocks, Pointer
<1>2. /\ HeaderFloor \in Nat /\ HeaderFloor > 0 /\ MinFrame \in Nat
      /\ Capacity \in Nat /\ Word \in Nat /\ Capacity < Word
  BY FormatsAssumption
<1>3. ASSUME NEW x \in Nat, x < Word
      PROVE  x % Word = x
  BY <1>2, <1>3
<1>4. ASSUME e.index < b.blockLen
      PROVE  (b.blockLen - e.index) % Word = b.blockLen - e.index
  BY <1>1, <1>2, <1>3, <1>4
<1>5. Ncm!Points(b, e) => Inside(b, e)
  BY <1>1, <1>2, <1>4 DEF Ncm!Points, Inside
<1>6. Inside(b, e) => Ncm!Points(b, e)
  <2>1. ASSUME Inside(b, e)
        PROVE  e.index < b.blockLen
    BY <1>1, <2>1 DEF Inside
  <2> QED
    BY <1>1, <1>2, <1>4, <2>1 DEF Ncm!Points, Inside
<1>7. Inside(b, e) => ~Ncm!IsNull(e) /\ e.index + e.len <= Capacity
  BY <1>1, <1>2 DEF Inside, Ncm!IsNull
<1> QED
  BY <1>5, <1>6, <1>7

\* The state of the loop after i pointers: the frames delivered are those of the
\* first pointers, all good, and the next one is why it stopped.
AfterPointers(b, room, i, s) ==
  /\ Len(s.out) <= i /\ Len(s.out) <= room
  /\ \A j \in 1..Len(s.out) : s.out[j] = b.dpe[j] /\ Inside(b, b.dpe[j])
  /\ s.at = "loop" => Len(s.out) = i
  /\ s.at = "mark" => Len(s.out) < i /\ Ncm!IsNull(b.dpe[Len(s.out) + 1])
  /\ s.at = "refused" =>
       /\ Len(s.out) < i
       /\ Len(s.out) = room \/ ~Inside(b, b.dpe[Len(s.out) + 1])
       /\ ~Ncm!IsNull(b.dpe[Len(s.out) + 1])

LEMMA LoopStepKeeps ==
  ASSUME NEW b \in Blocks, b.blockLen <= Capacity, NEW room \in Nat,
         NEW i \in 1..Ncm!LoopEnd(b), NEW s \in LoopStates,
         AfterPointers(b, room, i - 1, s)
  PROVE  AfterPointers(b, room, i, Ncm!LoopStep(b, room, s, b.dpe[i]))
<1> DEFINE e == b.dpe[i]
           n == Len(s.out)
<1>1. i \in Nat /\ i - 1 \in Nat /\ i > 0 /\ e \in Pointer
  BY BlockTable
<1>2. s.out \in Seq(Pointer) /\ n \in Nat /\ s.at \in {"loop", "mark", "refused"}
  BY DEF LoopStates
<1>3. Ncm!Points(b, e) <=> Inside(b, e)
  BY <1>1, PointsInside
<1> HIDE DEF e
<1>4. CASE s.at # "loop"
  <2>1. Ncm!LoopStep(b, room, s, e) = s
    BY <1>4 DEF Ncm!LoopStep
  <2> QED
    BY <2>1, <1>1, <1>2, <1>4 DEF AfterPointers, e
<1>5. CASE s.at = "loop"
  <2>0. n = i - 1 /\ n + 1 = i
    BY <1>1, <1>2, <1>5 DEF AfterPointers
  <2>1. CASE Ncm!IsNull(e)
    <3>1. Ncm!LoopStep(b, room, s, e).at = "mark"
          /\ Ncm!LoopStep(b, room, s, e).out = s.out
      BY <1>5, <2>1 DEF Ncm!LoopStep, LoopStates
    <3> QED
      BY <1>1, <1>2, <2>0, <2>1, <3>1 DEF AfterPointers, e
  <2>2. CASE ~Ncm!IsNull(e) /\ (~Ncm!Points(b, e) \/ n = room)
    <3>1. Ncm!LoopStep(b, room, s, e).at = "refused"
          /\ Ncm!LoopStep(b, room, s, e).out = s.out
      BY <1>5, <2>2 DEF Ncm!LoopStep, LoopStates
    <3> QED
      BY <1>1, <1>2, <1>3, <2>0, <2>2, <3>1 DEF AfterPointers, e
  <2>3. CASE ~Ncm!IsNull(e) /\ Ncm!Points(b, e) /\ n # room
    <3>1. Ncm!LoopStep(b, room, s, e).at = "loop"
          /\ Ncm!LoopStep(b, room, s, e).out = Append(s.out, e)
      BY <1>5, <2>3 DEF Ncm!LoopStep, LoopStates
    <3> DEFINE more == Append(s.out, e)
    <3>2. Len(more) = i /\ more[i] = e /\ \A j \in 1..n : more[j] = s.out[j]
      BY <1>1, <1>2, <2>0
    <3>3. i <= room
      BY <1>1, <1>2, <2>0, <2>3 DEF AfterPointers
    <3> HIDE DEF more
    <3>4. ASSUME NEW j \in 1..i
          PROVE  more[j] = b.dpe[j] /\ Inside(b, b.dpe[j])
      <4>1. CASE j = i
        BY <4>1, <3>2, <1>3, <2>3 DEF e
      <4>2. CASE j # i
        <5>1. j \in 1..n
          BY <4>2, <2>0, <1>1, <1>2
        <5> QED
          BY <5>1, <3>2 DEF AfterPointers
      <4> QED
        BY <4>1, <4>2
    <3> QED
      BY <1>1, <3>1, <3>2, <3>3, <3>4 DEF AfterPointers, more, e
  <2> QED
    BY <2>1, <2>2, <2>3
<1> QED
  BY <1>4, <1>5

LEMMA DpeLoopResult ==
  ASSUME NEW b \in Blocks, b.blockLen <= Capacity, NEW room \in Nat
  PROVE  /\ Ncm!DpeLoop(b, room) \in LoopStates
         /\ AfterPointers(b, room, Ncm!LoopEnd(b), Ncm!DpeLoop(b, room))
<1> DEFINE N == Ncm!LoopEnd(b)
<1>1. PICK f \in [0..N -> LoopStates] :
        /\ f[0] = Ncm!LoopStart
        /\ \A i \in 1..N : f[i] = Ncm!LoopStep(b, room, f[i - 1], b.dpe[i])
        /\ Ncm!DpeLoop(b, room) = f[N]
  BY DpeLoopUnfolds
<1>2. N \in Nat
  BY BlockTable
<1> DEFINE T == {i \in 0..N : AfterPointers(b, room, i, f[i])}
<1>3. 0 \in T
  <2>1. Len(f[0].out) = 0 /\ f[0].at = "loop"
    BY <1>1 DEF Ncm!LoopStart
  <2> QED
    BY <1>2, <2>1 DEF AfterPointers
<1>4. ASSUME NEW i \in 1..N, i - 1 \in T
      PROVE  i \in T
  <2>1. i - 1 \in 0..N /\ i \in 0..N
    BY <1>2
  <2>2. f[i - 1] \in LoopStates
    BY <1>1, <2>1
  <2> QED
    BY <1>1, <1>4, <2>1, <2>2, LoopStepKeeps
<1>5. \A i \in 0..N : i \in T
  <2> HIDE DEF T, N
  <2> QED
    BY <1>2, <1>3, <1>4, EveryRound
<1>6. N \in 0..N
  BY <1>2
<1> HIDE DEF N
<1> QED
  BY <1>1, <1>5, <1>6 DEF N

\* What is decoded from a block of which so much room is filled.
IsDecoded(b, room, d) ==
  /\ \A i \in DOMAIN d.out : /\ Inside(b, d.out[i])
                             /\ d.out[i].index + d.out[i].len <= Capacity
  /\ d.ok <=> /\ Ncm!HeaderIsGood(b, Capacity)
              /\ \E n \in 0..room : Holds(b, n)
  /\ d.ok => /\ Holds(b, Len(d.out))
             /\ d.out = SubSeq(b.dpe, 1, Len(d.out))

LEMMA NcmFrames ==
  ASSUME NEW b \in Blocks, NEW room \in Nat
  PROVE  IsDecoded(b, room, Ncm!DecodeNcm(b, Capacity, room))
<1> DEFINE d == Ncm!DecodeNcm(b, Capacity, room)
           s == Ncm!DpeLoop(b, room)
           m == Len(s.out)
           N == Ncm!LoopEnd(b)
<1>1. CASE ~Ncm!HeaderIsGood(b, Capacity)
  <2>1. d.ok = FALSE /\ d.out = <<>>
    BY <1>1 DEF Ncm!DecodeNcm, Ncm!Refused
  <2> QED
    BY <1>1, <2>1 DEF IsDecoded
<1>2. CASE Ncm!HeaderIsGood(b, Capacity)
  <2>1. d.ok = (s.at = "mark") /\ d.out = s.out
    BY <1>2 DEF Ncm!DecodeNcm
  <2>2. b.blockLen <= Capacity
    BY <1>2 DEF Ncm!HeaderIsGood
  <2>3. s \in LoopStates /\ AfterPointers(b, room, N, s)
    BY <2>2, DpeLoopResult
  <2>4. /\ b.dpe \in Seq(Pointer) /\ N \in Nat
        /\ N <= Len(b.dpe) /\ N <= MaxDpe /\ (N = Len(b.dpe) \/ N = MaxDpe)
        /\ Len(b.dpe) \in Nat /\ MaxDpe \in Nat
    BY BlockTable, FormatsAssumption
  <2>5. \A i \in 1..N : b.dpe[i] \in Pointer
    BY BlockTable
  <2> HIDE DEF d, s, N
  <2>6. s.out \in Seq(Pointer) /\ m \in Nat /\ DOMAIN s.out = 1..m
        /\ s.at \in {"loop", "mark", "refused"}
    BY <2>3 DEF LoopStates
  <2>7. /\ m <= N /\ m <= room
        /\ \A j \in 1..m : s.out[j] = b.dpe[j] /\ Inside(b, b.dpe[j])
    BY <2>3 DEF AfterPointers
  <2>8. ASSUME NEW j \in 1..m
        PROVE  b.dpe[j].index + b.dpe[j].len <= Capacity
               /\ ~Ncm!IsNull(b.dpe[j])
    <3>1. j \in 1..N
      BY <2>4, <2>6, <2>7
    <3> QED
      BY <3>1, <2>2, <2>5, <2>7, PointsInside
  <2>9. \A i \in DOMAIN d.out : /\ Inside(b, d.out[i])
                                /\ d.out[i].index + d.out[i].len <= Capacity
    BY <2>1, <2>6, <2>7, <2>8
  <2>10. ASSUME d.ok
         PROVE  Holds(b, m) /\ m \in 0..room
    <3>1. m < N /\ Ncm!IsNull(b.dpe[m + 1])
      BY <2>1, <2>3, <2>10 DEF AfterPointers
    <3> QED
      BY <3>1, <2>4, <2>6, <2>7 DEF Holds
  <2>11. ASSUME NEW n \in 0..room, Holds(b, n)
         PROVE  d.ok
    <3>1. n \in Nat /\ n < N
      BY <2>4, <2>11 DEF Holds
    <3>2. /\ Ncm!IsNull(b.dpe[n + 1])
          /\ \A i \in 1..n : Inside(b, b.dpe[i])
      BY <2>11 DEF Holds
    <3>3. ~(n < m)
      <4>1. SUFFICES ASSUME n < m PROVE FALSE
        OBVIOUS
      <4>2. n + 1 \in 1..m
        BY <4>1, <3>1, <2>6
      <4> QED
        BY <4>2, <2>8, <3>2
    <3>4. s.at # "loop"
      BY <2>3, <2>4, <2>6, <3>1, <3>3 DEF AfterPointers
    <3>5. ASSUME s.at = "refused"
          PROVE  FALSE
      <4>1. m < N /\ (m = room \/ ~Inside(b, b.dpe[m + 1]))
            /\ ~Ncm!IsNull(b.dpe[m + 1])
        BY <2>3, <3>5 DEF AfterPointers
      <4>2. n # m
        BY <3>2, <4>1
      <4>3. m < n
        BY <4>2, <3>1, <3>3, <2>6
      <4>4. m + 1 \in 1..n /\ m # room
        BY <4>3, <3>1, <2>6, <2>11
      <4> QED
        BY <3>2, <4>1, <4>4
    <3> QED
      BY <2>1, <2>6, <3>4, <3>5
  <2>12. ASSUME d.ok
         PROVE  s.out = SubSeq(b.dpe, 1, m)
    <3> DEFINE q == SubSeq(b.dpe, 1, m)
    <3>1. m <= Len(b.dpe)
      BY <2>4, <2>6, <2>7
    <3>2. q = [i \in 1..m |-> b.dpe[i]]
      BY <2>4, <2>6, <3>1
    <3>3. s.out = [i \in 1..m |-> s.out[i]]
      BY <2>6
    <3> QED
      BY <2>7, <3>2, <3>3
  <2> QED
    BY <1>2, <2>1, <2>9, <2>10, <2>11, <2>12 DEF d, IsDecoded
<1> QED
  BY <1>1, <1>2

LEMMA FramesAreInside == InputInv => FramesAreReceived
<1> SUFFICES ASSUME InputInv, input.kind = "buffer"
             PROVE  FramesAreReceived
  BY DEF FramesAreReceived, Is
<1> DEFINE b == input.buffer
           room == input.room
<1>1. /\ input.ncm \in BOOLEAN /\ room \in Nat
      /\ (b \in Blocks /\ input.ncm) \/ b \in Buffers
  BY DEF InputInv, BufferInput
<1>2. CASE b \in Blocks /\ input.ncm
  <2>1. b.kind = "block"
    BY <1>2 DEF Blocks
  <2>2. Decoded = Ncm!DecodeNcm(b, Capacity, room)
    BY <1>2, <2>1 DEF Decoded, Ncm!DecodeIphethRx
  <2>3. IsDecoded(b, room, Decoded)
    BY <1>1, <1>2, <2>2, NcmFrames
  <2> QED
    BY <1>2, <2>1, <2>3 DEF FramesAreReceived, IsDecoded
<1>3. CASE b \in Buffers
  <2>1. /\ b.kind \in {"empty", "control", "frame", "unknown"}
        /\ b.least \in Nat /\ b.claims \in Nat
    BY <1>3 DEF Buffers
  <2>2. CASE Decoded.out = <<>>
    BY <2>1, <2>2 DEF FramesAreReceived
  <2>3. CASE Decoded.out # <<>>
    <3>1. /\ ~input.ncm /\ Decoded = Ncm!DecodeLegacy(b, Capacity, room)
      BY <2>1, <2>3 DEF Decoded, Ncm!DecodeIphethRx, Ncm!Refused
    <3> DEFINE n == Ncm!LegacyFrameLength(b, Capacity - 2)
    <3>2. n # 0 /\ Decoded.out = <<[index |-> 2, len |-> n]>>
      BY <2>3, <3>1 DEF Ncm!DecodeLegacy, Ncm!Refused
    <3>3. n = b.claims /\ n <= Capacity - 2
      BY <3>2, <2>1, FormatsAssumption DEF Ncm!LegacyFrameLength
    <3>4. 2 + n <= Capacity
      BY <3>3, <2>1, FormatsAssumption
    <3> HIDE DEF n
    <3> QED
      BY <2>1, <3>1, <3>2, <3>4 DEF FramesAreReceived
  <2> QED
    BY <2>2, <2>3
<1> QED
  BY <1>1, <1>2, <1>3

\* Of any buffer only frames that were received are handed on, and of a block
\* all of them or it is refused (DecodeIphethRx).
THEOREM FramesReceived == FormatsSpec => []FramesAreReceived
BY InputInvariant, FramesAreInside, PTL

-----------------------------------------------------------------------------
(* The translation of addresses.                                           *)

\* The options the console writes: an identifier is its own.
NativeOptions(os) == \A i \in DOMAIN os :
  os[i].mac = IF os[i].code = "client" THEN Native ELSE Tether

OptionLists == UNION {[1..n -> Translate!Option] : n \in 0..MaxOptions}

\* Only identifiers that the loop reaches are changed, and how far it comes does
\* not depend on what it changes.
Translated(os, sent, from, to) ==
  /\ sent \in OptionLists /\ DOMAIN sent = DOMAIN os
  /\ \A i \in DOMAIN os :
       /\ sent[i].code = os[i].code
       /\ sent[i].mac = IF os[i].code = "client" /\ Translate!Scanned(os, i)
                       THEN Translate!ReplaceMacIfEqual(os[i].mac, from, to)
                       ELSE os[i].mac
       /\ Translate!Scanned(sent, i) <=> Translate!Scanned(os, i)

LEMMA OptionsTranslated ==
  ASSUME NEW os \in OptionLists, NEW from \in Macs, NEW to \in Macs
  PROVE  Translated(os, Translate!TranslateOptions(os, from, to), from, to)
<1> DEFINE sent == Translate!TranslateOptions(os, from, to)
<1>1. PICK n \in 0..MaxOptions : os \in [1..n -> Translate!Option]
  BY DEF OptionLists
<1>2. DOMAIN os = 1..n /\ DOMAIN sent = 1..n /\ n \in Nat
  BY <1>1, FormatsAssumption DEF Translate!TranslateOptions
<1>3. ASSUME NEW i \in 1..n
      PROVE  /\ sent[i] \in Translate!Option
             /\ sent[i].code = os[i].code
             /\ sent[i].mac = IF os[i].code = "client" /\ Translate!Scanned(os, i)
                       THEN Translate!ReplaceMacIfEqual(os[i].mac, from, to)
                       ELSE os[i].mac
  <2>1. os[i] \in Translate!Option
    BY <1>1
  <2>2. os[i].mac \in Macs
    BY <2>1 DEF Translate!Option
  <2> DEFINE r == Translate!ReplaceMacIfEqual(os[i].mac, from, to)
  <2>3. r \in Macs
    BY <2>2 DEF Translate!ReplaceMacIfEqual
  <2>4. CASE os[i].code = "client" /\ Translate!Scanned(os, i)
    <3>1. sent[i] = [os[i] EXCEPT !.mac = r]
      BY <1>2, <2>4 DEF Translate!TranslateOptions
    <3> HIDE DEF r, sent
    <3>2. sent[i].code = os[i].code /\ sent[i].mac = r
      BY <2>1, <3>1 DEF Translate!Option
    <3>3. sent[i] \in Translate!Option
      BY <2>1, <2>3, <3>1 DEF Translate!Option
    <3> QED
      BY <2>4, <3>2, <3>3 DEF r
  <2>5. CASE ~(os[i].code = "client" /\ Translate!Scanned(os, i))
    <3>1. sent[i] = os[i]
      BY <1>2, <2>5 DEF Translate!TranslateOptions
    <3> QED
      BY <2>1, <2>5, <3>1
  <2> QED
    BY <2>4, <2>5
<1>4. sent \in [1..n -> Translate!Option]
  BY <1>2, <1>3 DEF Translate!TranslateOptions
<1>5. ASSUME NEW i \in 1..n
      PROVE  Translate!Scanned(sent, i) <=> Translate!Scanned(os, i)
  <2>1. \A j \in 1..(i - 1) : j \in 1..n
    BY <1>2
  <2> HIDE DEF sent
  <2> QED
    BY <1>3, <2>1 DEF Translate!Scanned
<1> HIDE DEF sent
<1>6. sent \in OptionLists
  BY <1>4 DEF OptionLists
<1> QED
  BY <1>2, <1>3, <1>5, <1>6 DEF Translated, sent

\* The console's options on their way out and back.
LEMMA OptionsReturn ==
  ASSUME NEW os \in OptionLists, NativeOptions(os)
  PROVE  Translate!TranslateOptions(
           Translate!TranslateOptions(os, Native, Tether), Tether, Native) = os
<1> DEFINE sent  == Translate!TranslateOptions(os, Native, Tether)
           back == Translate!TranslateOptions(sent, Tether, Native)
<1>1. Native \in Macs /\ Tether \in Macs /\ Native # Tether
  BY FormatsAssumption
<1>2. Translated(os, sent, Native, Tether)
  BY <1>1, OptionsTranslated
<1> HIDE DEF sent
<1>3. Translated(sent, back, Tether, Native)
  BY <1>1, <1>2, OptionsTranslated DEF Translated
<1> HIDE DEF back
<1>4. PICK n \in 0..MaxOptions : os \in [1..n -> Translate!Option]
  BY DEF OptionLists
<1>5. DOMAIN back = 1..n /\ DOMAIN os = 1..n /\ DOMAIN sent = 1..n
  BY <1>2, <1>3, <1>4 DEF Translated
<1>6. PICK m \in 0..MaxOptions : back \in [1..m -> Translate!Option]
  BY <1>3 DEF OptionLists, Translated
<1>7. ASSUME NEW i \in 1..n
      PROVE  back[i] = os[i]
  <2>1. back[i] \in Translate!Option /\ os[i] \in Translate!Option
    BY <1>4, <1>5, <1>6
  <2>2. back[i].code = os[i].code
    BY <1>2, <1>3, <1>5 DEF Translated
  <2>3. os[i].mac = IF os[i].code = "client" THEN Native ELSE Tether
    BY <1>5 DEF NativeOptions
  <2>4. back[i].mac = os[i].mac
    <3>1. CASE os[i].code = "client" /\ Translate!Scanned(os, i)
      <4>1. sent[i].mac = Tether
        BY <1>2, <1>5, <2>3, <3>1 DEF Translated, Translate!ReplaceMacIfEqual
      <4>2. sent[i].code = "client" /\ Translate!Scanned(sent, i)
        BY <1>2, <1>5, <3>1 DEF Translated
      <4>3. back[i].mac = Native
        BY <1>3, <1>5, <4>1, <4>2 DEF Translated, Translate!ReplaceMacIfEqual
      <4> QED
        BY <2>3, <3>1, <4>3
    <3>2. CASE ~(os[i].code = "client" /\ Translate!Scanned(os, i))
      <4>1. sent[i].mac = os[i].mac
        BY <1>2, <1>5, <3>2 DEF Translated
      <4>2. ~(sent[i].code = "client" /\ Translate!Scanned(sent, i))
        BY <1>2, <1>5, <3>2 DEF Translated
      <4> QED
        BY <1>3, <1>5, <4>1, <4>2 DEF Translated
    <3> QED
      BY <3>1, <3>2
  <2> QED
    BY <2>1, <2>2, <2>4 DEF Translate!Option
<1> QED
  BY <1>4, <1>5, <1>6, <1>7 DEF sent, back

LEMMA BootpReturns ==
  ASSUME NEW b \in Translate!Bootp, b.chaddr = Native, NativeOptions(b.options)
  PROVE  Translate!TranslateBootp(
           Translate!TranslateBootp(b, Native, Tether), Tether, Native) = b
<1> DEFINE sent == Translate!TranslateBootp(b, Native, Tether)
<1>1. b.options \in OptionLists
  BY DEF Translate!Bootp, OptionLists
<1>2. sent.chaddr = Tether
      /\ sent.options = Translate!TranslateOptions(b.options, Native, Tether)
  BY DEF Translate!TranslateBootp, Translate!ReplaceMacIfEqual
<1> HIDE DEF sent
<1>3. Translate!TranslateOptions(sent.options, Tether, Native) = b.options
  BY <1>1, <1>2, OptionsReturn
<1>4. Translate!TranslateBootp(sent, Tether, Native)
      = [chaddr |-> Native, options |-> b.options]
  BY <1>2, <1>3 DEF Translate!TranslateBootp, Translate!ReplaceMacIfEqual
<1>5. b = [chaddr |-> b.chaddr, options |-> b.options]
  BY DEF Translate!Bootp
<1> QED
  BY <1>4, <1>5 DEF sent

\* No identifier that the phone reads names the console.
LEMMA OptionsHide ==
  ASSUME NEW os \in OptionLists, NativeOptions(os),
         NEW i \in DOMAIN Translate!TranslateOptions(os, Native, Tether),
         Translate!TranslateOptions(os, Native, Tether)[i].code = "client",
         Translate!Scanned(Translate!TranslateOptions(os, Native, Tether), i)
  PROVE  Translate!TranslateOptions(os, Native, Tether)[i].mac = Tether
<1> DEFINE sent == Translate!TranslateOptions(os, Native, Tether)
<1>1. Translated(os, sent, Native, Tether)
  BY FormatsAssumption, OptionsTranslated
<1> HIDE DEF sent
<1>2. i \in DOMAIN os /\ sent[i].code = "client" /\ Translate!Scanned(sent, i)
  BY <1>1 DEF sent, Translated
<1>3. os[i].code = "client" /\ Translate!Scanned(os, i)
  BY <1>1, <1>2 DEF Translated
<1>4. os[i].mac = Native
  BY <1>2, <1>3 DEF NativeOptions
<1> QED
  BY <1>1, <1>2, <1>3, <1>4 DEF Translated, Translate!ReplaceMacIfEqual, sent

LEMMA FramesAreTranslated == InputInv => NativeIsTranslated
<1> SUFFICES ASSUME InputInv, input.kind = "frame"
             PROVE  NativeIsTranslated
  BY DEF NativeIsTranslated, Is
<1> DEFINE f == input.frame
<1>1. PICK kind \in {"arp", "dhcp", "other"}, dst \in Macs, tha \in Macs,
        b \in Translate!Bootp, summed \in BOOLEAN :
        /\ b.chaddr = Native /\ NativeOptions(b.options)
        /\ f = [kind |-> kind, src |-> Native, dst |-> dst,
                sha |-> Native, tha |-> tha, bootp |-> b,
                sum |-> IF summed THEN Translate!SumOf(b)
                        ELSE Translate!NoSum]
  BY DEF InputInv, FrameInput, NativeOptions
<1> DEFINE sum == IF summed THEN Translate!SumOf(b) ELSE Translate!NoSum
<1>2. /\ f.kind = kind /\ f.src = Native /\ f.dst = dst /\ f.sha = Native
      /\ f.tha = tha /\ f.bootp = b /\ f.sum = sum
  BY <1>1
<1>3. Native # Tether
  BY FormatsAssumption
<1>4. ASSUME NEW c
      PROVE  Translate!SumOf(c) # Translate!NoSum
  BY DEF Translate!SumOf, Translate!NoSum
<1> DEFINE g == [f EXCEPT !.src =
                   Translate!ReplaceMacIfEqual(@, Native, Tether)]
           a == Translate!Answer(Outbound, Tether, Outbound.sum)
           h == [a EXCEPT !.dst =
                   Translate!ReplaceMacIfEqual(@, Tether, Native)]
<1>5. /\ g.kind = kind /\ g.src = Tether /\ g.sha = Native
      /\ g.bootp = b /\ g.sum = sum
  BY <1>1 DEF Translate!ReplaceMacIfEqual
<1>6. /\ a.kind = Outbound.kind /\ a.dst = Outbound.src
      /\ a.tha = Outbound.sha /\ a.bootp = Outbound.bootp
      /\ a.sum = IF Outbound.sum = Translate!NoSum THEN Translate!NoSum
                 ELSE Translate!SumOf(Outbound.bootp)
  BY DEF Translate!Answer
<1>7. CASE kind = "arp"
  <2>1. Outbound = [g EXCEPT !.sha =
                      Translate!ReplaceMacIfEqual(@, Native, Tether)]
    BY <1>2, <1>5, <1>7 DEF Outbound, Translate!TranslateOutboundFrame,
       Translate!TranslateArpOutbound
  <2>2. Outbound.kind = "arp" /\ Outbound.src = Tether
        /\ Outbound.sha = Tether
    BY <1>1, <1>5, <1>7, <2>1 DEF Translate!ReplaceMacIfEqual
  <2>3. a.kind = "arp" /\ a.dst = Tether /\ a.tha = Tether
    BY <1>6, <2>2
  <2>4. h.kind = "arp" /\ h.dst = Native /\ h.tha = Tether
    BY <2>3 DEF Translate!Answer, Translate!ReplaceMacIfEqual
  <2>5. Inbound = [h EXCEPT !.tha =
                     Translate!ReplaceMacIfEqual(@, Tether, Native)]
    BY <2>3 DEF Inbound, Translate!TranslateInboundFrame,
       Translate!TranslateArpInbound, Translate!Answer
  <2>6. Inbound.kind = "arp" /\ Inbound.dst = Native /\ Inbound.tha = Native
    BY <2>4, <2>5 DEF Translate!Answer, Translate!ReplaceMacIfEqual
  <2>7. Translate!SenderMacs(Outbound) = {Tether}
    BY <2>2 DEF Translate!SenderMacs
  <2> QED
    BY <1>2, <1>3, <1>7, <2>2, <2>6, <2>7
       DEF NativeIsTranslated, Translate!SumIsRight
<1>8. CASE kind = "dhcp"
  <2> DEFINE B == Translate!TranslateBootp(b, Native, Tether)
  <2>1. Outbound = [[g EXCEPT !.bootp = B] EXCEPT
                      !.sum = Translate!UdpChecksum(g.sum, B)]
    BY <1>2, <1>5, <1>8 DEF Outbound, Translate!TranslateOutboundFrame,
       Translate!TranslateDhcpMac
  <2> HIDE DEF B
  <2>2. /\ Outbound.kind = "dhcp" /\ Outbound.src = Tether
        /\ Outbound.bootp = B
        /\ Outbound.sum = Translate!UdpChecksum(sum, B)
    BY <1>1, <1>5, <1>8, <2>1
  <2>3. /\ a.kind = "dhcp" /\ a.dst = Tether /\ a.bootp = B
        /\ a.sum = IF Outbound.sum = Translate!NoSum THEN Translate!NoSum
                   ELSE Translate!SumOf(B)
    BY <1>6, <2>2
  <2>4. h.kind = "dhcp" /\ h.dst = Native /\ h.bootp = B /\ h.sum = a.sum
    BY <2>3 DEF Translate!Answer, Translate!ReplaceMacIfEqual
  <2> DEFINE C == Translate!TranslateBootp(B, Tether, Native)
  <2>5. C = b
    BY <1>1, BootpReturns DEF B
  <2> HIDE DEF C
  <2>6. Inbound = [[h EXCEPT !.bootp = C] EXCEPT
                     !.sum = Translate!UdpChecksum(h.sum, C)]
    BY <2>3, <2>4 DEF Inbound, Translate!TranslateInboundFrame,
       Translate!TranslateDhcpMac, Translate!Answer, C
  <2>7. /\ Inbound.kind = "dhcp" /\ Inbound.dst = Native
        /\ Inbound.bootp = C
        /\ Inbound.sum = Translate!UdpChecksum(h.sum, C)
    BY <2>4, <2>6 DEF Translate!Answer
  <2>8. Translate!SumIsRight(Outbound)
    BY <2>2 DEF Translate!SumIsRight, Translate!UdpChecksum
  <2>9. Translate!SumIsRight(Inbound)
    BY <2>7 DEF Translate!SumIsRight, Translate!UdpChecksum
  <2>10. Native \notin Translate!SenderMacs(Outbound)
    <3>1. B.chaddr = Tether
          /\ B.options = Translate!TranslateOptions(b.options, Native, Tether)
      BY <1>1 DEF B, Translate!TranslateBootp, Translate!ReplaceMacIfEqual
    <3>2. b.options \in OptionLists
      BY DEF Translate!Bootp, OptionLists
    <3>3. ASSUME NEW i \in DOMAIN B.options, B.options[i].code = "client",
                 Translate!Scanned(B.options, i)
          PROVE  B.options[i].mac = Tether
      BY <1>1, <3>1, <3>2, <3>3, OptionsHide
    <3> QED
      BY <1>3, <2>2, <3>1, <3>3 DEF Translate!SenderMacs
  <2> QED
    BY <1>2, <1>8, <2>5, <2>7, <2>8, <2>9, <2>10 DEF NativeIsTranslated
<1>9. CASE kind = "other"
  <2>1. Outbound = g
    BY <1>2, <1>5, <1>9 DEF Outbound, Translate!TranslateOutboundFrame
  <2>2. a.kind = "other" /\ a.dst = Tether
    BY <1>5, <1>6, <1>9, <2>1
  <2>3. h.kind = "other" /\ h.dst = Native
    BY <2>2 DEF Translate!Answer, Translate!ReplaceMacIfEqual
  <2>4. Inbound = h
    BY <2>2, <2>3 DEF Inbound, Translate!TranslateInboundFrame, Translate!Answer
  <2>5. Translate!SenderMacs(Outbound) = {Tether}
    BY <1>5, <1>9, <2>1 DEF Translate!SenderMacs
  <2> QED
    BY <1>2, <1>3, <1>5, <1>9, <2>1, <2>3, <2>4, <2>5
       DEF NativeIsTranslated, Translate!SumIsRight
<1> QED
  BY <1>7, <1>8, <1>9

\* Whatever the console sends, the phone sees its own address only, and what it
\* answers comes back to the console's (TranslateOutbound- and InboundFrame).
THEOREM AddressesTranslated == FormatsSpec => []NativeIsTranslated
BY InputInvariant, FramesAreTranslated, PTL

-----------------------------------------------------------------------------
(* Licence documents: a round of the loop takes one line.                  *)

Documents == UNION {[1..n -> Document!Tokens] : n \in 0..MaxTokens}

\* The first position from i on whose token is none of "skipped".
IsSkipped(body, i, skipped, j) ==
  /\ j \in i..(Len(body) + 1)
  /\ \A k \in i..(j - 1) : body[k] \in skipped
  /\ j > Len(body) \/ body[j] \notin skipped

LEMMA SkipWhileStops ==
  ASSUME NEW body, Len(body) \in Nat, NEW i \in 1..(Len(body) + 1),
         NEW skipped
  PROVE  IsSkipped(body, i, skipped, Document!SkipWhile(body, i, skipped))
<1> DEFINE T == {j \in i..(Len(body) + 1) :
                   j > Len(body) \/ body[j] \notin skipped}
<1>1. T \in SUBSET Nat
  OBVIOUS
<1>2. Len(body) + 1 \in T
  OBVIOUS
<1>3. PICK x \in T : \A y \in Nat : y < x => y \notin T
  <2> HIDE DEF T
  <2> QED
    BY <1>1, <1>2, LeastNumber
<1>4. ASSUME NEW k \in i..(x - 1)
      PROVE  body[k] \in skipped
  <2>1. k \in Nat /\ k < x /\ k \in i..(Len(body) + 1) /\ ~(k > Len(body))
    BY <1>1
  <2> QED
    BY <2>1, <1>3
<1>5. IsSkipped(body, i, skipped, x)
  BY <1>4 DEF IsSkipped
<1>6. Document!SkipWhile(body, i, skipped) =
        CHOOSE j \in i..(Len(body) + 1) :
           /\ \A k \in i..(j - 1) : body[k] \in skipped
           /\ j > Len(body) \/ body[j] \notin skipped
  BY DEF Document!SkipWhile
<1> QED
  BY <1>5, <1>6 DEF IsSkipped

\* The same from the back.
IsTrimmed(body, first, last, j) ==
  /\ j \in first..last
  /\ \A k \in j..(last - 1) : body[k] = "blank"
  /\ j = first \/ body[j - 1] # "blank"

LEMMA TrimEndStops ==
  ASSUME NEW body, NEW first \in Nat, NEW last \in Nat, first <= last
  PROVE  IsTrimmed(body, first, last, Document!TrimEnd(body, first, last))
<1> DEFINE T == {j \in first..last :
                   \A k \in j..(last - 1) : body[k] = "blank"}
<1>1. T \in SUBSET Nat
  OBVIOUS
<1>2. last \in T
  OBVIOUS
<1>3. PICK x \in T : \A y \in Nat : y < x => y \notin T
  <2> HIDE DEF T
  <2> QED
    BY <1>1, <1>2, LeastNumber
<1>4. ASSUME x # first, body[x - 1] = "blank"
      PROVE  FALSE
  <2>1. x - 1 \in first..last /\ x - 1 \in Nat /\ x - 1 < x
    BY <1>4
  <2>2. \A k \in (x - 1)..(last - 1) : k = x - 1 \/ k \in x..(last - 1)
    BY <2>1
  <2>3. x - 1 \in T
    BY <1>4, <2>1, <2>2
  <2> QED
    BY <1>3, <2>1, <2>3
<1>5. IsTrimmed(body, first, last, x)
  BY <1>4 DEF IsTrimmed
<1>6. Document!TrimEnd(body, first, last) =
        CHOOSE j \in first..last :
           /\ \A k \in j..(last - 1) : body[k] = "blank"
           /\ j = first \/ body[j - 1] # "blank"
  BY DEF Document!TrimEnd
<1> QED
  BY <1>5, <1>6 DEF IsTrimmed

LEMMA DocumentTokens ==
  ASSUME NEW body \in Documents
  PROVE  /\ body \in Seq(Document!Tokens) /\ Len(body) \in Nat
         /\ DOMAIN body = 1..Len(body)
         /\ \A k \in 1..Len(body) : body[k] \in Document!Tokens
         /\ Begin(body) \in 1..2 /\ Begin(body) <= Len(body) + 1
<1>1. PICK n \in 0..MaxTokens : body \in [1..n -> Document!Tokens]
  BY DEF Documents
<1>2. body \in Seq(Document!Tokens) /\ Len(body) = n /\ n \in Nat
  BY <1>1, FormatsAssumption
<1>3. body = <<>> \/ Len(body) > 0
  BY <1>2
<1> QED
  BY <1>1, <1>2, <1>3 DEF Begin

\* Where a round of the loop may begin.
Aligned(body, off) ==
  /\ off \in Begin(body)..Len(body)
  /\ off = Begin(body) \/ body[off - 1] = "nl"

\* The end of a line, and what is found in it.
LEMMA LineEnds ==
  ASSUME NEW body \in Documents, NEW off \in 1..Len(body)
  PROVE  /\ Document!LineEnd(body, off) \in off..(Len(body) + 1)
         /\ \A k \in off..(Document!LineEnd(body, off) - 1) : body[k] # "nl"
         /\ \/ Document!LineEnd(body, off) = Len(body) + 1
            \/ body[Document!LineEnd(body, off)] = "nl"
<1> DEFINE e == Document!LineEnd(body, off)
           S == Document!Tokens \ {"nl"}
<1>1. Len(body) \in Nat /\ \A k \in 1..Len(body) : body[k] \in Document!Tokens
  BY DocumentTokens
<1>2. IsSkipped(body, off, S, e)
  <2>1. off \in 1..(Len(body) + 1)
    BY <1>1
  <2> QED
    BY <1>1, <2>1, SkipWhileStops DEF Document!LineEnd
<1> HIDE DEF e
<1>3. e \in off..(Len(body) + 1) /\ \A k \in off..(e - 1) : body[k] # "nl"
  BY <1>2 DEF IsSkipped
<1>4. ASSUME e # Len(body) + 1
      PROVE  body[e] = "nl"
  <2>1. e \in 1..Len(body) /\ ~(e > Len(body))
    BY <1>1, <1>3, <1>4
  <2> QED
    BY <1>1, <1>2, <2>1 DEF IsSkipped
<1> QED
  BY <1>3, <1>4 DEF e

\* A line of the loop, as one of the document's lines.
LEMMA LineIsFound ==
  ASSUME NEW body \in Documents, NEW off, Aligned(body, off),
         Document!LineEnd(body, off) # off
  PROVE  <<off, Document!LineEnd(body, off) - 1>> \in LinesOf(body)
<1> DEFINE e == Document!LineEnd(body, off)
           B == Begin(body)
<1>1. /\ Len(body) \in Nat /\ B \in 1..2 /\ off \in B..Len(body)
      /\ off \in 1..Len(body)
      /\ off = B \/ body[off - 1] = "nl"
  BY DocumentTokens DEF Aligned
<1>2. /\ e \in off..(Len(body) + 1) /\ e # off
      /\ \A k \in off..(e - 1) : body[k] # "nl"
      /\ e = Len(body) + 1 \/ body[e] = "nl"
  BY <1>1, LineEnds
<1> HIDE DEF e, B
<1>3. e - 1 \in B..Len(body) /\ off <= e - 1 /\ (e - 1) + 1 = e
      /\ (e = Len(body) + 1 => e - 1 = Len(body))
  BY <1>1, <1>2
<1> DEFINE p == <<off, e - 1>>
<1>4. p \in (B..Len(body)) \X (B..Len(body)) /\ p[1] = off /\ p[2] = e - 1
  BY <1>1, <1>3
<1> HIDE DEF p
<1>5. p \in LinesOf(body)
  BY <1>1, <1>2, <1>3, <1>4 DEF LinesOf, B
<1> QED
  BY <1>5 DEF p, e

\* Between two rounds there is no line but the one of the round.
LEMMA LineIsNext ==
  ASSUME NEW body \in Documents, NEW off, Aligned(body, off),
         NEW p \in LinesOf(body), p[2] >= off,
         p[2] < Document!SkipWhile(body, Document!LineEnd(body, off), {"nl"})
  PROVE  /\ Document!LineEnd(body, off) # off
         /\ p = <<off, Document!LineEnd(body, off) - 1>>
<1> DEFINE e == Document!LineEnd(body, off)
           B == Begin(body)
           next == Document!SkipWhile(body, e, {"nl"})
<1>1. /\ Len(body) \in Nat /\ B \in 1..2 /\ off \in B..Len(body)
      /\ off \in 1..Len(body)
      /\ off = B \/ body[off - 1] = "nl"
  BY DocumentTokens DEF Aligned
<1>2. /\ e \in off..(Len(body) + 1)
      /\ \A k \in off..(e - 1) : body[k] # "nl"
      /\ e = Len(body) + 1 \/ body[e] = "nl"
  BY <1>1, LineEnds
<1> HIDE DEF e
<1>3. e \in 1..(Len(body) + 1)
  BY <1>1, <1>2
<1>4. next \in e..(Len(body) + 1) /\ \A k \in e..(next - 1) : body[k] = "nl"
  BY <1>1, <1>3, SkipWhileStops DEF IsSkipped
<1>5. p[2] >= off /\ p[2] < next
  BY DEF e
<1>6. /\ p \in (B..Len(body)) \X (B..Len(body))
      /\ p[1] <= p[2]
      /\ \A k \in p[1]..p[2] : body[k] # "nl"
      /\ p[1] = B \/ body[p[1] - 1] = "nl"
      /\ p[2] = Len(body) \/ body[p[2] + 1] = "nl"
  BY DEF LinesOf
<1>7. p[1] \in B..Len(body) /\ p[2] \in B..Len(body) /\ p = <<p[1], p[2]>>
  BY <1>6
<1> HIDE DEF next, B
<1> DEFINE a == p[1]
           z == p[2]
<1>8. a \in Nat /\ z \in Nat /\ a <= z /\ z <= Len(body) /\ a >= B
  BY <1>1, <1>6, <1>7
<1>9. z < e
  <2>1. SUFFICES ASSUME z >= e PROVE FALSE
    BY <1>1, <1>2, <1>8
  <2>2. z \in e..(next - 1)
    BY <2>1, <1>1, <1>2, <1>4, <1>5, <1>8
  <2>3. body[z] = "nl"
    BY <2>2, <1>4
  <2>4. z \in a..z
    BY <1>8
  <2> QED
    BY <2>3, <2>4, <1>6
<1>10. z = e - 1
  <2>1. SUFFICES ASSUME z # e - 1 PROVE FALSE
    OBVIOUS
  <2>2. z + 1 \in off..(e - 1) /\ z # Len(body)
    BY <2>1, <1>1, <1>2, <1>5, <1>8, <1>9
  <2> QED
    BY <2>2, <1>2, <1>6
<1>11. ~(a > off)
  <2>1. SUFFICES ASSUME a > off PROVE FALSE
    OBVIOUS
  <2>2. a - 1 \in off..(e - 1) /\ a # B
    BY <2>1, <1>1, <1>2, <1>8, <1>9
  <2> QED
    BY <2>2, <1>2, <1>6
<1>12. ~(a < off)
  <2>1. SUFFICES ASSUME a < off PROVE FALSE
    OBVIOUS
  <2>2. off - 1 \in a..z /\ off # B
    BY <2>1, <1>1, <1>5, <1>8
  <2> QED
    BY <2>2, <1>1, <1>6
<1>13. a = off /\ e # off
  BY <1>1, <1>2, <1>5, <1>8, <1>9, <1>11, <1>12
<1> QED
  BY <1>7, <1>10, <1>13 DEF e

\* What the loop takes a line for: nothing or a comment, one known word, or one
\* that spoils the document.
IsKind(body, p, kind) ==
  \/ p \notin Counts(body) /\ kind \in {"empty", "comment"}
  \/ /\ p \in Counts(body) /\ ~Spoils(body, p)
     /\ kind = Lead(body, p) /\ kind \in Document!Words
  \/ p \in Counts(body) /\ Spoils(body, p) /\ kind = "invalid"

\* The first and the last of a line's marks.
LEMMA LeadIsFirst ==
  ASSUME NEW body, NEW p, NEW first \in Nat, p[1] \in Nat,
         first \in Marks(body, p), \A k \in Marks(body, p) : first <= k
  PROVE  Lead(body, p) = body[first]
<1> DEFINE c == CHOOSE k \in Marks(body, p) : \A l \in Marks(body, p) : k <= l
<1>1. c \in Marks(body, p) /\ \A l \in Marks(body, p) : c <= l
  OBVIOUS
<1>2. c \in Int
  BY <1>1 DEF Marks
<1>3. c <= first /\ first <= c
  BY <1>1
<1> HIDE DEF c
<1>4. c = first
  BY <1>2, <1>3
<1>5. Lead(body, p) = body[c]
  BY DEF Lead, c
<1> QED
  BY <1>4, <1>5

LEMMA EmptyRound ==
  ASSUME NEW body \in Documents, NEW off \in 1..Len(body),
         Document!LineEnd(body, off) = off
  PROVE  Document!KindAt(body, off) = "empty"
<1>1. Len(body) \in Nat /\ body \in Seq(Document!Tokens)
  BY DocumentTokens
<1> DEFINE q == SubSeq(body, 1, off - 1)
           first == Document!SkipWhile(q, off, {"blank"})
<1>2. Len(q) = off - 1
  BY <1>1
<1>3. first = off
  <2>1. IsSkipped(q, off, {"blank"}, first)
    <3>1. Len(q) \in Nat /\ off \in 1..(Len(q) + 1)
      BY <1>2
    <3> HIDE DEF q
    <3> QED
      BY <3>1, SkipWhileStops
  <2> HIDE DEF first, q
  <2>2. first \in off..((off - 1) + 1)
    BY <1>2, <2>1 DEF IsSkipped
  <2> QED
    BY <2>2
<1>4. Document!TrimEnd(body, off, off) = off
  <2>1. IsTrimmed(body, off, off, Document!TrimEnd(body, off, off))
    BY TrimEndStops
  <2> QED
    BY <2>1 DEF IsTrimmed
<1>5. Document!KindAt(body, off)
      = Document!LineKind(body, first, Document!TrimEnd(body, first, off))
  BY DEF Document!KindAt
<1> QED
  BY <1>3, <1>4, <1>5 DEF Document!LineKind

LEMMA LineIsOfKind ==
  ASSUME NEW body \in Documents, NEW off, Aligned(body, off),
         Document!LineEnd(body, off) # off
  PROVE  IsKind(body, <<off, Document!LineEnd(body, off) - 1>>,
                Document!KindAt(body, off))
<1> DEFINE e == Document!LineEnd(body, off)
           p == <<off, e - 1>>
           q == SubSeq(body, 1, e - 1)
           first == Document!SkipWhile(q, off, {"blank"})
           last  == Document!TrimEnd(body, first, e)
           kind  == Document!KindAt(body, off)
<1>1. kind = Document!LineKind(body, first, last)
  BY DEF Document!KindAt
<1>2. p \in LinesOf(body)
  BY LineIsFound
<1>3. /\ Len(body) \in Nat /\ body \in Seq(Document!Tokens)
      /\ \A k \in 1..Len(body) : body[k] \in Document!Tokens
      /\ off \in 1..Len(body)
  BY DocumentTokens DEF Aligned
<1>4. /\ e \in off..(Len(body) + 1) /\ e # off
      /\ \A k \in off..(e - 1) : body[k] # "nl"
  BY <1>3, LineEnds
<1> HIDE DEF e
<1>5. e \in Nat /\ e - 1 \in Nat /\ e - 1 <= Len(body) /\ off \in Nat
      /\ off <= e - 1 /\ off >= 1
  BY <1>3, <1>4
<1>6. Len(q) = e - 1 /\ \A k \in 1..(e - 1) : q[k] = body[k]
  BY <1>3, <1>5
<1>7. IsSkipped(q, off, {"blank"}, first)
  <2>1. Len(q) \in Nat /\ off \in 1..(Len(q) + 1)
    BY <1>5, <1>6
  <2> HIDE DEF q
  <2> QED
    BY <2>1, SkipWhileStops
<1> HIDE DEF q, kind
<1>8. /\ first \in off..e
      /\ \A k \in off..(first - 1) : body[k] = "blank"
      /\ first = e \/ body[first] # "blank"
  <2> HIDE DEF first
  <2>1. first \in off..((e - 1) + 1) /\ (e - 1) + 1 = e
    BY <1>5, <1>6, <1>7 DEF IsSkipped
  <2>2. \A k \in off..(first - 1) : k \in 1..(e - 1)
    BY <1>5, <2>1
  <2>3. first # e => first \in 1..(e - 1) /\ ~(first > e - 1)
    BY <1>5, <2>1
  <2> QED
    BY <1>6, <1>7, <2>1, <2>2, <2>3 DEF IsSkipped
<1> HIDE DEF first
<1>9. first \in Nat /\ first <= e
  BY <1>5, <1>8
<1>10. /\ last \in first..e
       /\ \A k \in last..(e - 1) : body[k] = "blank"
       /\ last = first \/ body[last - 1] # "blank"
  BY <1>5, <1>9, TrimEndStops DEF IsTrimmed
<1> HIDE DEF last
<1>11. Marks(body, p) = {k \in off..(e - 1) : body[k] # "blank"} /\ p[1] = off
  BY DEF Marks
<1> HIDE DEF p
<1>12. CASE first = e
  <2>1. last = first
    BY <1>5, <1>10, <1>12
  <2>2. kind = "empty"
    BY <1>1, <2>1 DEF Document!LineKind
  <2>3. Marks(body, p) = {}
    BY <1>8, <1>11, <1>12
  <2> QED
    BY <2>2, <2>3 DEF IsKind, Counts, kind, p, e
<1>13. CASE first # e
  <2>1. first \in off..(e - 1) /\ body[first] # "blank" /\ first \in 1..Len(body)
    BY <1>3, <1>5, <1>8, <1>13
  <2>2. first \in Marks(body, p)
    BY <1>11, <2>1
  <2>3. \A k \in Marks(body, p) : first <= k
    <3>1. ASSUME NEW k \in off..(e - 1), ~(first <= k)
          PROVE  body[k] = "blank"
      BY <1>5, <1>8, <2>1, <3>1
    <3> QED
      BY <1>11, <3>1
  <2>4. Lead(body, p) = body[first]
    BY <1>5, <1>9, <1>11, <2>2, <2>3, LeadIsFirst
  <2>5. last # first
    BY <1>10, <2>1
  <2>6. last \in Nat /\ first < last /\ last <= e
    BY <1>9, <1>10, <2>5, <1>5
  <2>7. CASE body[first] = "#"
    <3>1. kind = "comment"
      BY <1>1, <2>5, <2>7 DEF Document!LineKind
    <3>2. p \notin Counts(body)
      BY <2>4, <2>7 DEF Counts
    <3> QED
      BY <3>1, <3>2 DEF IsKind, kind, p, e
  <2>8. CASE body[first] # "#" /\ last = first + 1
             /\ body[first] \in Document!Words
    <3>1. kind = body[first]
      BY <1>1, <2>5, <2>8 DEF Document!LineKind
    <3>2. p \in Counts(body)
      BY <1>2, <2>2, <2>4, <2>8 DEF Counts, p, e
    <3>3. ASSUME NEW k \in Marks(body, p)
          PROVE  k = first
      <4>1. k \in off..(e - 1) /\ body[k] # "blank" /\ first <= k
        BY <1>11, <2>3
      <4>2. ~(k \in last..(e - 1))
        BY <1>10, <4>1
      <4> QED
        BY <4>1, <4>2, <2>6, <2>8, <1>5, <1>9
    <3>4. Lead(body, p) \notin {"bom", "junk"}
      BY <2>4, <2>8 DEF Document!Words
    <3>5. ~Spoils(body, p)
      BY <3>3, <3>4 DEF Spoils
    <3> QED
      BY <2>4, <2>8, <3>1, <3>2, <3>5 DEF IsKind, kind, p, e
  <2>9. CASE body[first] # "#" /\ ~(last = first + 1
             /\ body[first] \in Document!Words)
    <3>1. kind = "invalid"
      BY <1>1, <2>5, <2>9 DEF Document!LineKind
    <3>2. p \in Counts(body)
      BY <1>2, <2>2, <2>4, <2>9 DEF Counts, p, e
    <3>3. CASE last # first + 1
      <4>1. last - 1 \in off..(e - 1) /\ last - 1 # first
        BY <2>6, <3>3, <1>5, <1>9, <2>1
      <4>2. last - 1 \in Marks(body, p)
        BY <4>1, <1>10, <1>11, <2>5
      <4> QED
        BY <2>2, <4>1, <4>2, <3>1, <3>2 DEF IsKind, Spoils, kind, p, e
    <3>4. CASE body[first] \notin Document!Words
      <4>1. body[first] \in Document!Tokens /\ body[first] # "nl"
        BY <1>3, <1>4, <2>1
      <4>2. body[first] \in {"bom", "junk"}
        BY <4>1, <2>1, <2>9, <3>4 DEF Document!Words
      <4>3. Spoils(body, p)
        BY <2>4, <4>2 DEF Spoils
      <4> QED
        BY <4>3, <3>1, <3>2 DEF IsKind, kind, p, e
    <3> QED
      BY <2>9, <3>3, <3>4
  <2> QED
    BY <2>7, <2>8, <2>9
<1> QED
  BY <1>12, <1>13

-----------------------------------------------------------------------------
(* The loop over the lines.                                                *)

Kinds == Document!Tokens \cup {"empty", "comment", "invalid"}

ScanStates(body) == [off : 1..(Len(body) + 1), seen : SUBSET Kinds,
                     bad : BOOLEAN]

ScanStart(body) == [off |-> Begin(body), seen |-> {}, bad |-> FALSE]

\* One round: it leads behind the line and the line ends after it.
LEMMA RoundType ==
  ASSUME NEW body \in Documents, NEW s \in ScanStates(body),
         s.off <= Len(body)
  PROVE  /\ Document!LineRound(body, s) \in ScanStates(body)
         /\ Document!LineRound(body, s).off > s.off
         /\ \/ Document!LineRound(body, s).off = Len(body) + 1
            \/ /\ Document!LineRound(body, s).off <= Len(body)
               /\ body[Document!LineRound(body, s).off - 1] = "nl"
<1> DEFINE e == Document!LineEnd(body, s.off)
           next == Document!SkipWhile(body, e, {"nl"})
           r == Document!LineRound(body, s)
<1>1. Len(body) \in Nat /\ s.off \in 1..Len(body) /\ s.off \in Nat
      /\ s.seen \in SUBSET Kinds
  BY DocumentTokens DEF ScanStates
<1>2. /\ e \in s.off..(Len(body) + 1)
      /\ e = Len(body) + 1 \/ body[e] = "nl"
  BY <1>1, LineEnds
<1>3. r.off = next /\ r.seen = s.seen \cup {Document!KindAt(body, s.off)}
      /\ r.bad = (Document!KindAt(body, s.off) = "invalid")
      /\ r = [off |-> r.off, seen |-> r.seen, bad |-> r.bad]
  BY DEF Document!LineRound
<1>4. Document!KindAt(body, s.off) \in Kinds
  BY DEF Document!KindAt, Document!LineKind, Kinds, Document!Words
<1> HIDE DEF e, r
<1>5. IsSkipped(body, e, {"nl"}, next)
  <2>1. e \in 1..(Len(body) + 1)
    BY <1>1, <1>2
  <2> QED
    BY <1>1, <2>1, SkipWhileStops
<1> HIDE DEF next
<1>6. next \in e..(Len(body) + 1) /\ (next > Len(body) \/ body[next] # "nl")
      /\ \A k \in e..(next - 1) : body[k] = "nl"
  BY <1>5 DEF IsSkipped
<1>7. next > s.off
  <2>1. CASE e = s.off
    <3>1. e # Len(body) + 1 /\ ~(e > Len(body))
      BY <1>1, <2>1
    <3>2. next # e
      BY <1>2, <1>6, <3>1
    <3> QED
      BY <1>1, <1>2, <1>6, <2>1, <3>2
  <2>2. CASE e # s.off
    BY <1>1, <1>2, <1>6, <2>2
  <2> QED
    BY <2>1, <2>2
<1>8. next \in 1..(Len(body) + 1)
  BY <1>1, <1>6, <1>7, <1>2
<1>9. next = Len(body) + 1 \/ (next <= Len(body) /\ body[next - 1] = "nl")
  <2>1. SUFFICES ASSUME next # Len(body) + 1
                 PROVE  next <= Len(body) /\ body[next - 1] = "nl"
    OBVIOUS
  <2>2. next <= Len(body) /\ e <= Len(body) /\ e # Len(body) + 1
    BY <1>1, <1>2, <1>6, <1>8, <2>1
  <2>3. body[e] = "nl" /\ next # e
    BY <1>2, <1>6, <2>2, <1>1
  <2>4. next - 1 \in e..(next - 1)
    BY <1>1, <1>2, <1>6, <2>3
  <2> QED
    BY <1>6, <2>2, <2>4
<1>10. r \in ScanStates(body)
  BY <1>1, <1>3, <1>4, <1>8 DEF ScanStates
<1> QED
  BY <1>3, <1>7, <1>9, <1>10 DEF r

LEMMA StepType ==
  ASSUME NEW body \in Documents, NEW s \in ScanStates(body)
  PROVE  Document!LineStep(body, s) \in ScanStates(body)
<1>1. CASE s.bad \/ s.off > Len(body)
  BY <1>1 DEF Document!LineStep
<1>2. CASE ~(s.bad \/ s.off > Len(body))
  <2>1. Len(body) \in Nat /\ s.off \in Nat
    BY DocumentTokens DEF ScanStates
  <2>2. s.off <= Len(body)
    BY <1>2, <2>1
  <2> QED
    BY <1>2, <2>2, RoundType DEF Document!LineStep
<1> QED
  BY <1>1, <1>2

LEMMA ScanUnfolds ==
  ASSUME NEW body \in Documents
  PROVE  \E f \in [0..Len(body) -> ScanStates(body)] :
           /\ f[0] = ScanStart(body)
           /\ \A i \in 1..Len(body) : f[i] = Document!LineStep(body, f[i - 1])
           /\ Document!Scan(body, Begin(body)) = f[Len(body)]
<1> DEFINE N == Len(body)
           S == ScanStates(body)
           s0 == ScanStart(body)
           rounds(f) == [i \in 0..N |->
                           IF i = 0
                           THEN [off |-> Begin(body), seen |-> {}, bad |-> FALSE]
                           ELSE Document!LineStep(body, f[i - 1])]
           step == [p \in (1..N) \X S |-> Document!LineStep(body, p[2])]
<1>1. N \in Nat
  BY DocumentTokens
<1>2. s0 \in S
  BY DocumentTokens DEF ScanStates, ScanStart
<1>3. ASSUME NEW s \in S
      PROVE  Document!LineStep(body, s) \in S
  BY StepType
<1>4. step \in [(1..N) \X S -> S]
  BY <1>3
<1> HIDE DEF S
<1>5. PICK f : Runs(f, N, S, s0, step)
  <2>1. IsLoop(N, S, s0, step)
    BY <1>1, <1>2, <1>4 DEF IsLoop
  <2> HIDE DEF N, step, s0
  <2> QED
    BY <2>1, LoopExists
<1>6. /\ f \in [0..N -> S] /\ f[0] = s0
      /\ \A i \in 1..N : f[i] = step[<<i, f[i - 1]>>]
  BY <1>5 DEF Runs
<1>7. f = rounds(f)
  <2>1. ASSUME NEW i \in 0..N
        PROVE  f[i] = rounds(f)[i]
    <3>1. CASE i = 0
      BY <3>1, <1>6, <1>1 DEF ScanStart
    <3>2. CASE i # 0
      <4>1. i \in 1..N /\ i - 1 \in 0..N
        BY <3>2, <1>1
      <4>2. <<i, f[i - 1]>> \in (1..N) \X S
        BY <4>1, <1>6
      <4> QED
        BY <4>1, <4>2, <3>2, <1>6
    <3> QED
      BY <3>1, <3>2
  <2> QED
    BY <2>1, <1>6
<1> DEFINE g == CHOOSE h : h = rounds(h)
<1>8. g = rounds(g)
  BY <1>7
<1>9. Document!Scan(body, Begin(body)) = g[N]
  BY DEF Document!Scan
<1>10. \A i \in 0..N : g[i] = IF i = 0 THEN s0
                              ELSE Document!LineStep(body, g[i - 1])
  BY <1>8 DEF ScanStart
<1> HIDE DEF g
<1> DEFINE T == {i \in 0..N : g[i] \in S}
<1>11. 0 \in T
  BY <1>1, <1>2, <1>10
<1>12. ASSUME NEW i \in 1..N, i - 1 \in T
       PROVE  i \in T
  <2>1. i \in 0..N /\ i # 0
    BY <1>1
  <2> QED
    BY <1>3, <1>10, <1>12, <2>1
<1>13. \A i \in 0..N : i \in T
  <2> HIDE DEF T, N
  <2> QED
    BY <1>1, <1>11, <1>12, EveryRound
<1>14. g \in [0..N -> S]
  BY <1>8, <1>10, <1>13
<1>15. g[0] = s0 /\ \A i \in 1..N : g[i] = Document!LineStep(body, g[i - 1])
  BY <1>1, <1>10
<1> QED
  BY <1>9, <1>14, <1>15 DEF S

\* The lines that count among those that end before "off".
Behind(body, off) == {p \in LinesOf(body) : p[2] < off /\ p \in Counts(body)}

\* The state of the loop after i rounds: what it has seen is what the lines
\* behind it say, and it has given up exactly if one of them spoils the document.
AfterLines(body, i, s) ==
  /\ s.off = Len(body) + 1 \/ Aligned(body, s.off)
  /\ s.bad \/ s.off = Len(body) + 1 \/ s.off > i
  /\ s.bad <=> \E p \in Behind(body, s.off) : Spoils(body, p)
  /\ ~s.bad => \A w \in Document!Words :
       w \in s.seen <=> \E p \in Behind(body, s.off) : Lead(body, p) = w

\* A round adds its own line to those behind it, if it counts.
LEMMA RoundAddsLine ==
  ASSUME NEW body \in Documents, NEW s \in ScanStates(body),
         Aligned(body, s.off), NEW p,
         p = <<s.off, Document!LineEnd(body, s.off) - 1>>
  PROVE  Behind(body, Document!LineRound(body, s).off) =
           IF Document!LineEnd(body, s.off) # s.off /\ p \in Counts(body)
           THEN Behind(body, s.off) \cup {p} ELSE Behind(body, s.off)
<1> DEFINE e == Document!LineEnd(body, s.off)
           next == Document!SkipWhile(body, e, {"nl"})
<1>1. Document!LineRound(body, s).off = next
  BY DEF Document!LineRound
<1>2. Len(body) \in Nat /\ s.off \in 1..Len(body) /\ s.off \in Nat
  BY DocumentTokens DEF Aligned
<1>3. e \in s.off..(Len(body) + 1)
  BY <1>2, LineEnds
<1>4. next \in e..(Len(body) + 1)
  <2> HIDE DEF e
  <2>1. e \in 1..(Len(body) + 1)
    BY <1>2, <1>3
  <2> QED
    BY <1>2, <2>1, SkipWhileStops DEF IsSkipped
<1>5. ASSUME NEW q \in LinesOf(body)
      PROVE  q[2] \in Nat
  <2>1. Begin(body) \in Nat
    BY DocumentTokens
  <2> QED
    BY <1>2, <2>1 DEF LinesOf
<1>6. ASSUME NEW q \in LinesOf(body), q[2] < s.off
      PROVE  q[2] < next
  BY <1>2, <1>3, <1>4, <1>5, <1>6
<1>7. ASSUME NEW q \in LinesOf(body), q[2] < next, ~(q[2] < s.off)
      PROVE  e # s.off /\ q = p
  <2>1. q[2] >= s.off
    BY <1>2, <1>5, <1>7
  <2> QED
    BY <1>7, <2>1, LineIsNext
<1>8. ASSUME e # s.off
      PROVE  p \in LinesOf(body) /\ p[2] < next
  <2>1. p \in LinesOf(body)
    BY <1>8, LineIsFound
  <2>2. p[2] = e - 1
    OBVIOUS
  <2> QED
    BY <2>1, <2>2, <1>2, <1>3, <1>4
<1> HIDE DEF next
<1> QED
  BY <1>1, <1>6, <1>7, <1>8 DEF Behind

LEMMA LineStepKeeps ==
  ASSUME NEW body \in Documents, NEW i \in 1..Len(body),
         NEW s \in ScanStates(body), AfterLines(body, i - 1, s)
  PROVE  AfterLines(body, i, Document!LineStep(body, s))
<1>1. Len(body) \in Nat /\ s.off \in 1..(Len(body) + 1) /\ s.bad \in BOOLEAN
      /\ Begin(body) \in 1..2 /\ i \in Nat
  BY DocumentTokens DEF ScanStates
<1>2. CASE s.bad \/ s.off > Len(body)
  <2>1. Document!LineStep(body, s) = s
    BY <1>2 DEF Document!LineStep
  <2>2. s.bad \/ s.off = Len(body) + 1
    BY <1>1, <1>2
  <2> QED
    BY <2>1, <2>2 DEF AfterLines
<1>3. CASE ~(s.bad \/ s.off > Len(body))
  <2> DEFINE r == Document!LineRound(body, s)
             e == Document!LineEnd(body, s.off)
             p == <<s.off, e - 1>>
             kind == Document!KindAt(body, s.off)
  <2>1. Document!LineStep(body, s) = r
    BY <1>3 DEF Document!LineStep
  <2>2. ~s.bad /\ s.off <= Len(body) /\ s.off # Len(body) + 1
    BY <1>1, <1>3
  <2>3. Aligned(body, s.off)
    BY <2>2 DEF AfterLines
  <2>4. /\ r \in ScanStates(body) /\ r.off > s.off
        /\ r.off = Len(body) + 1
           \/ (r.off <= Len(body) /\ body[r.off - 1] = "nl")
    BY <2>2, RoundType
  <2>5. r.seen = s.seen \cup {kind} /\ r.bad = (kind = "invalid")
    BY DEF Document!LineRound
  <2>6. Behind(body, r.off) = IF e # s.off /\ p \in Counts(body)
                              THEN Behind(body, s.off) \cup {p}
                              ELSE Behind(body, s.off)
    BY <2>3, RoundAddsLine
  <2>7. e = s.off => kind = "empty"
    <3>1. s.off \in 1..Len(body)
      BY <1>1, <2>2
    <3> QED
      BY <3>1, EmptyRound
  <2>8. e # s.off => IsKind(body, p, kind)
    BY <2>3, LineIsOfKind
  <2> HIDE DEF r, e, p, kind
  <2>9. r.off = Len(body) + 1 \/ Aligned(body, r.off)
    BY <1>1, <2>2, <2>3, <2>4 DEF Aligned, ScanStates
  <2>10. r.off = Len(body) + 1 \/ r.off > i
    <3>1. s.off > i - 1
      BY <2>2 DEF AfterLines
    <3>2. r.off \in Nat
      BY <2>4 DEF ScanStates
    <3> QED
      BY <1>1, <2>4, <3>1, <3>2
  <2>11. ~\E q \in Behind(body, s.off) : Spoils(body, q)
    BY <2>2 DEF AfterLines
  <2>12. \A w \in Document!Words :
           w \in s.seen <=> \E q \in Behind(body, s.off) : Lead(body, q) = w
    BY <2>2 DEF AfterLines
  <2>13. \A w \in Document!Words : w \notin {"empty", "comment", "invalid"}
    BY DEF Document!Words, Document!Tokens
  <2>14. CASE e = s.off \/ p \notin Counts(body)
    <3>1. kind \in {"empty", "comment"}
      BY <2>7, <2>8, <2>14 DEF IsKind
    <3>2. Behind(body, r.off) = Behind(body, s.off)
      BY <2>6, <2>14
    <3>3. ~r.bad
      BY <2>5, <3>1
    <3>4. \A w \in Document!Words : w \in r.seen <=> w \in s.seen
      BY <2>5, <2>13, <3>1
    <3> QED
      BY <2>1, <2>9, <2>10, <2>11, <2>12, <3>2, <3>3, <3>4 DEF AfterLines
  <2>15. CASE e # s.off /\ p \in Counts(body)
    <3>1. Behind(body, r.off) = Behind(body, s.off) \cup {p}
      BY <2>6, <2>15
    <3>2. CASE Spoils(body, p) /\ kind = "invalid"
      <4>1. r.bad
        BY <2>5, <3>2
      <4> QED
        BY <2>1, <2>9, <2>10, <3>1, <3>2, <4>1 DEF AfterLines
    <3>3. CASE ~Spoils(body, p) /\ kind = Lead(body, p)
               /\ kind \in Document!Words
      <4>1. ~r.bad
        BY <2>5, <2>13, <3>3
      <4>2. ~\E q \in Behind(body, r.off) : Spoils(body, q)
        BY <2>11, <3>1, <3>3
      <4>3. ASSUME NEW w \in Document!Words
            PROVE  w \in r.seen
                   <=> \E q \in Behind(body, r.off) : Lead(body, q) = w
        BY <2>5, <2>12, <3>1, <3>3
      <4> QED
        BY <2>1, <2>9, <2>10, <4>1, <4>2, <4>3 DEF AfterLines
    <3> QED
      BY <2>8, <2>15, <3>2, <3>3 DEF IsKind
  <2> QED
    BY <2>14, <2>15
<1> QED
  BY <1>2, <1>3

\* After the last round every line is behind the loop, unless it gave up.
LEMMA ScanResult ==
  ASSUME NEW body \in Documents
  PROVE  /\ Document!Scan(body, Begin(body)) \in ScanStates(body)
         /\ AfterLines(body, Len(body), Document!Scan(body, Begin(body)))
<1> DEFINE N == Len(body)
<1>1. PICK f \in [0..N -> ScanStates(body)] :
        /\ f[0] = ScanStart(body)
        /\ \A i \in 1..N : f[i] = Document!LineStep(body, f[i - 1])
        /\ Document!Scan(body, Begin(body)) = f[N]
  BY ScanUnfolds
<1>2. N \in Nat /\ Begin(body) \in 1..2 /\ Begin(body) <= N + 1
  BY DocumentTokens
<1> DEFINE T == {i \in 0..N : AfterLines(body, i, f[i])}
<1>3. 0 \in T
  <2>1. f[0].off = Begin(body) /\ f[0].seen = {} /\ f[0].bad = FALSE
    BY <1>1 DEF ScanStart
  <2>2. Behind(body, Begin(body)) = {}
    <3>1. ASSUME NEW p \in LinesOf(body)
          PROVE  ~(p[2] < Begin(body))
      BY <1>2 DEF LinesOf
    <3> QED
      BY <3>1 DEF Behind
  <2>3. Begin(body) = N + 1 \/ Aligned(body, Begin(body))
    BY <1>2 DEF Aligned
  <2>4. Begin(body) > 0 /\ 0 \in 0..N
    BY <1>2
  <2> QED
    BY <2>1, <2>2, <2>3, <2>4 DEF AfterLines
<1>4. ASSUME NEW i \in 1..N, i - 1 \in T
      PROVE  i \in T
  <2>1. i - 1 \in 0..N /\ i \in 0..N
    BY <1>2
  <2>2. f[i - 1] \in ScanStates(body)
    BY <1>1, <2>1
  <2> QED
    BY <1>1, <1>4, <2>1, <2>2, LineStepKeeps
<1>5. \A i \in 0..N : i \in T
  <2> HIDE DEF T, N
  <2> QED
    BY <1>2, <1>3, <1>4, EveryRound
<1>6. N \in 0..N
  BY <1>2
<1> HIDE DEF N
<1> QED
  BY <1>1, <1>5, <1>6 DEF N

LEMMA DocumentVerdict ==
  ASSUME NEW body \in Documents, body # <<>>
  PROVE  Document!EvaluateLicenceDocument(body) =
         IF Counts(body) = {} \/ \E p \in Counts(body) : Spoils(body, p)
         THEN "invalid"
         ELSE IF Says(body, "mine") THEN "matched"
         ELSE IF Says(body, "free") THEN "free" ELSE "noMatch"
<1> DEFINE s == Document!Scan(body, Begin(body))
           W == Document!Words
<1>1. Document!EvaluateLicenceDocument(body) = Document!Verdict(s)
  BY DEF Document!EvaluateLicenceDocument, Document!Start, Begin
<1>2. s \in ScanStates(body) /\ AfterLines(body, Len(body), s)
  BY ScanResult
<1> HIDE DEF s
<1>3. Len(body) \in Nat /\ s.off \in 1..(Len(body) + 1) /\ s.bad \in BOOLEAN
      /\ Begin(body) \in 1..2
  BY <1>2, DocumentTokens DEF ScanStates
<1>4. CASE s.bad
  <2>1. \E p \in Behind(body, s.off) : Spoils(body, p)
    BY <1>2, <1>4 DEF AfterLines
  <2>2. \E p \in Counts(body) : Spoils(body, p)
    BY <2>1 DEF Behind
  <2>3. Document!Verdict(s) = "invalid"
    BY <1>4 DEF Document!Verdict
  <2> QED
    BY <1>1, <2>2, <2>3
<1>5. CASE ~s.bad
  <2>1. s.off = Len(body) + 1
    BY <1>2, <1>3, <1>5 DEF AfterLines
  <2>2. ASSUME NEW p \in LinesOf(body)
        PROVE  p[2] < s.off
    BY <1>3, <2>1 DEF LinesOf
  <2>3. Behind(body, s.off) = Counts(body)
    BY <2>2 DEF Behind, Counts
  <2>4. ~\E p \in Counts(body) : Spoils(body, p)
    BY <1>2, <1>5, <2>3 DEF AfterLines
  <2>5. \A w \in W : w \in s.seen <=> Says(body, w)
    BY <1>2, <1>5, <2>3 DEF AfterLines, Says
  <2>6. ASSUME NEW p \in Counts(body)
        PROVE  Lead(body, p) \in W
    <3>1. Marks(body, p) # {} /\ Lead(body, p) # "#" /\ p \in LinesOf(body)
      BY DEF Counts
    <3>2. Lead(body, p) \notin {"bom", "junk"}
      BY <2>4 DEF Spoils
    <3>3. Lead(body, p) \in Document!Tokens \ {"nl", "blank"}
      <4>1. Marks(body, p) \in SUBSET Nat
        BY <1>3, <3>1 DEF Marks, LinesOf
      <4>2. PICK x \in Marks(body, p) :
              \A y \in Nat : y < x => y \notin Marks(body, p)
        BY <3>1, <4>1, LeastNumber
      <4>3. \A k \in Marks(body, p) : x <= k
        BY <4>1, <4>2
      <4>4. x \in Nat /\ p[1] \in Nat
        BY <1>3, <3>1, <4>1 DEF LinesOf
      <4>5. Lead(body, p) = body[x]
        BY <4>2, <4>3, <4>4, LeadIsFirst
      <4>6. x \in p[1]..p[2] /\ body[x] # "blank"
        BY <4>2 DEF Marks
      <4>7. body[x] # "nl" /\ x \in 1..Len(body)
        BY <1>3, <3>1, <4>6 DEF LinesOf
      <4> QED
        BY <4>5, <4>6, <4>7, DocumentTokens
    <3> QED
      BY <3>1, <3>2, <3>3 DEF Document!Words
  <2>7. s.seen \cap W = {} <=> Counts(body) = {}
    BY <2>5, <2>6 DEF Says
  <2>8. "mine" \in W /\ "free" \in W
    BY DEF Document!Words, Document!Tokens
  <2> QED
    BY <1>1, <1>5, <2>4, <2>5, <2>7, <2>8 DEF Document!Verdict
<1> QED
  BY <1>3, <1>4, <1>5

LEMMA DocumentsAreJudged == InputInv => VerdictByLines
<1> SUFFICES ASSUME InputInv, input.kind = "document"
             PROVE  VerdictByLines
  BY DEF VerdictByLines, Is
<1>1. input.body \in Documents
  BY DEF InputInv, DocumentInput, Documents
<1>2. CASE input.body # <<>>
  BY <1>1, <1>2, DocumentVerdict DEF VerdictByLines
<1>3. CASE input.body = <<>>
  <2>1. Document!EvaluateLicenceDocument(input.body) = "invalid"
    BY <1>3 DEF Document!EvaluateLicenceDocument
  <2>2. Begin(input.body) = 1 /\ Len(input.body) = 0
    BY <1>3 DEF Begin
  <2>3. Counts(input.body) = {}
    BY <2>2 DEF Counts, LinesOf
  <2> QED
    BY <2>1, <2>3 DEF VerdictByLines
<1> QED
  BY <1>2, <1>3

\* The verdict on a document of any length is that of its lines, wherever they
\* stand (EvaluateLicenceDocument).
THEOREM DocumentsJudged == FormatsSpec => []VerdictByLines
BY InputInvariant, DocumentsAreJudged, PTL
=============================================================================
