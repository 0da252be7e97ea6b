-------------------------- MODULE FrameRing_proofs --------------------------
(***************************************************************************)
(* What the accesses of FrameRing do to the frames in the ring, for any    *)
(* number of slots.  A ring is tight when its three indexes agree; both    *)
(* queues of the tether driver and the one of the native bridge are, and   *)
(* then putting a frame appends it to the content and taking one removes   *)
(* the head.                                                               *)
(***************************************************************************)
EXTENDS FrameRing, Sequences, TLAPS

Tight(r) == /\ r \in Ring
            /\ r.tail = (r.head + r.count) % Depth

\* An index runs around once at most.
Wrapped(n) == IF n < Depth THEN n ELSE n - Depth

LEMMA Around ==
  ASSUME Depth \in Nat \ {0}, NEW n \in Nat, n < Depth + Depth
  PROVE  n % Depth = Wrapped(n) /\ Wrapped(n) \in Slots
<1>1. CASE n < Depth
  BY <1>1, SMT DEF Wrapped, Slots
<1>2. CASE n >= Depth
  <2>1. n - Depth \in 0..(Depth - 1)
    BY <1>2, SMT
  <2>2. (n - Depth) % Depth = n - Depth
    BY <2>1, SMT
  <2>3. n % Depth = (n - Depth) % Depth
    BY <1>2, SMT
  <2> QED
    BY <1>2, <2>1, <2>2, <2>3, SMT DEF Wrapped, Slots
<1> QED
  BY <1>1, <1>2, SMT

\* A ring by its fields.
RingOf(sl, h, t, c) == [slot |-> sl, head |-> h, tail |-> t, count |-> c]
SlotsOf == [Slots -> Frame \cup {NoFrame}]

LEMMA Fields ==
  ASSUME Depth \in Nat \ {0}, NEW r \in Ring
  PROVE  \E sl \in SlotsOf, h \in Slots, t \in Slots, c \in 0..Depth :
           r = RingOf(sl, h, t, c)
BY DEF Ring, RingOf, SlotsOf

LEMMA RingIs ==
  ASSUME NEW sl \in SlotsOf, NEW h \in Slots, NEW t \in Slots, NEW c \in 0..Depth
  PROVE  RingOf(sl, h, t, c) \in Ring
BY DEF Ring, RingOf, SlotsOf

LEMMA SequenceIsFunction ==
  ASSUME NEW T, NEW q \in Seq(T)
  PROVE  q = [i \in 1..Len(q) |-> q[i]]
OBVIOUS

\* The content by the fields of the ring.
ContentOf(sl, h, c) == [i \in 1..c |-> sl[(h + i - 1) % Depth]]

LEMMA ContentIs ==
  ASSUME Depth \in Nat \ {0}, NEW sl \in SlotsOf, NEW h \in Slots, NEW t \in Slots,
         NEW c \in 0..Depth
  PROVE  /\ Content(RingOf(sl, h, t, c)) = ContentOf(sl, h, c)
         /\ ContentOf(sl, h, c) \in Seq(Frame \cup {NoFrame})
         /\ Len(ContentOf(sl, h, c)) = c
<1>1. Content(RingOf(sl, h, t, c)) = ContentOf(sl, h, c)
  BY DEF Content, RingOf, ContentOf
<1>2. ASSUME NEW i \in 1..c
      PROVE  sl[(h + i - 1) % Depth] \in Frame \cup {NoFrame}
  <2>1. h + i - 1 \in Nat /\ h + i - 1 < Depth + Depth
    BY <1>2 DEF Slots
  <2>2. (h + i - 1) % Depth \in Slots
    BY <2>1, Around
  <2> QED
    BY <2>2 DEF SlotsOf
<1>3. ContentOf(sl, h, c) \in [1..c -> Frame \cup {NoFrame}]
  BY <1>2 DEF ContentOf
<1>4. c \in Nat
  OBVIOUS
<1> QED
  BY <1>1, <1>3, <1>4

LEMMA EmptyIsTight ==
  ASSUME Depth \in Nat \ {0}
  PROVE  Tight(EmptyRing) /\ Content(EmptyRing) = <<>>
<1> DEFINE sl == [i \in Slots |-> NoFrame]
<1>1. sl \in SlotsOf /\ 0 \in Slots /\ 0 \in 0..Depth
  BY DEF SlotsOf, Slots
<1>2. EmptyRing = RingOf(sl, 0, 0, 0)
  BY DEF EmptyRing, RingOf
<1> HIDE DEF sl
<1>3. Len(ContentOf(sl, 0, 0)) = 0 /\ ContentOf(sl, 0, 0) \in Seq(Frame \cup {NoFrame})
  BY <1>1, ContentIs
<1>4. Content(EmptyRing) = <<>>
  BY <1>1, <1>2, <1>3, ContentIs
<1>5. 0 % Depth = 0
  BY Around DEF Wrapped
<1>6. EmptyRing \in Ring
  BY <1>1, <1>2, RingIs
<1> QED
  BY <1>2, <1>4, <1>5, <1>6 DEF Tight, RingOf

\* Putting a frame begins with the copy into the slot at the tail, which is
\* none of the content's while there is room, as SendEthernet, ConsumeEthernet
\* and the transmit callback of xnet_bridge.cpp test first.
THEOREM FilledKeepsContent ==
  ASSUME Depth \in Nat \ {0}, NEW r, Tight(r), NEW f \in Frame,
         r.count < Depth
  PROVE  /\ Tight(Filled(r, f)) /\ Content(Filled(r, f)) = Content(r)
         /\ Filled(r, f).count = r.count
         /\ Filled(r, f).slot[Filled(r, f).tail] = f
<1>1. PICK sl \in SlotsOf, h \in Slots, t \in Slots, c \in 0..Depth :
        r = RingOf(sl, h, t, c)
  BY Fields DEF Tight
<1>2. c < Depth /\ t = (h + c) % Depth
  BY <1>1 DEF Tight, RingOf
<1> DEFINE sk == [sl EXCEPT ![t] = f]
<1>3. Filled(r, f) = RingOf(sk, h, t, c)
  BY <1>1 DEF Filled, RingOf
<1>4. sk \in SlotsOf /\ sk[t] = f
  BY DEF SlotsOf
<1>5. ASSUME NEW i \in 1..c
      PROVE  sk[(h + i - 1) % Depth] = sl[(h + i - 1) % Depth]
  <2> DEFINE n == h + i - 1
             m == h + c
  <2>1. n \in Nat /\ n < Depth + Depth /\ m \in Nat /\ m < Depth + Depth
        /\ m - n \in 1..(Depth - 1)
    BY <1>2, <1>5 DEF Slots
  <2>2. t = m % Depth
    BY <1>2
  <2> HIDE DEF n, m
  <2>3. n % Depth = Wrapped(n) /\ Wrapped(n) \in Slots /\ m % Depth = Wrapped(m)
    BY <2>1, Around
  <2>4. Wrapped(n) # Wrapped(m)
    BY <2>1 DEF Wrapped
  <2>5. n % Depth # t /\ n % Depth \in Slots
    BY <2>2, <2>3, <2>4
  <2>6. sk[n % Depth] = sl[n % Depth]
    BY <2>5 DEF SlotsOf
  <2> QED
    BY <2>6 DEF n
<1>6. ContentOf(sk, h, c) = ContentOf(sl, h, c)
  BY <1>5 DEF ContentOf
<1> HIDE DEF sk
<1>7. Content(Filled(r, f)) = Content(r)
  BY <1>1, <1>3, <1>4, <1>6, ContentIs
<1>8. Filled(r, f) \in Ring
  BY <1>3, <1>4, RingIs
<1> QED
  BY <1>1, <1>2, <1>3, <1>4, <1>7, <1>8 DEF Tight, RingOf

\* It ends with the change of tail and count, which appends the frame.
THEOREM AppendedAppends ==
  ASSUME Depth \in Nat \ {0}, NEW r, Tight(r), r.count < Depth,
         NEW f, r.slot[r.tail] = f
  PROVE  /\ Tight(Appended(r))
         /\ Content(Appended(r)) = Append(Content(r), f)
         /\ Appended(r).count = r.count + 1
<1>1. PICK sl \in SlotsOf, h \in Slots, t \in Slots, c \in 0..Depth :
        r = RingOf(sl, h, t, c)
  BY Fields DEF Tight
<1>2. c < Depth /\ t = (h + c) % Depth /\ sl[t] = f
  BY <1>1 DEF Tight, RingOf
<1> DEFINE u == (t + 1) % Depth
<1>3. Appended(r) = RingOf(sl, h, u, c + 1)
  <2>1. Appended(r) = [r EXCEPT !.tail = u, !.count = c + 1]
    BY <1>1 DEF Appended, RingOf
  <2> HIDE DEF u
  <2> QED
    BY <1>1, <2>1 DEF RingOf
<1>4. t + 1 \in Nat /\ t + 1 < Depth + Depth /\ h + c \in Nat /\ h + c < Depth + Depth
      /\ h + c + 1 \in Nat /\ h + c + 1 < Depth + Depth /\ c + 1 \in 0..Depth
  BY <1>2 DEF Slots
<1>5. u = Wrapped(t + 1) /\ u \in Slots /\ t = Wrapped(h + c)
      /\ (h + c + 1) % Depth = Wrapped(h + c + 1)
  BY <1>2, <1>4, Around
<1> HIDE DEF u
<1>6. u = (h + (c + 1)) % Depth
  <2>1. Wrapped(t + 1) = Wrapped(h + c + 1)
    BY <1>4, <1>5 DEF Wrapped, Slots
  <2>2. h + (c + 1) = h + c + 1
    BY DEF Slots
  <2> QED
    BY <1>5, <2>1, <2>2
<1>7. ContentOf(sl, h, c + 1) = Append(ContentOf(sl, h, c), f)
  <2>1. sl[(h + (c + 1) - 1) % Depth] = f
    <3>1. h + (c + 1) - 1 = h + c
      BY DEF Slots
    <3> QED
      BY <1>2, <3>1
  <2> DEFINE q == ContentOf(sl, h, c)
  <2>2. q \in Seq(Frame \cup {NoFrame}) /\ Len(q) = c
    BY ContentIs
  <2>3. \A i \in 1..c : q[i] = sl[(h + i - 1) % Depth]
    BY DEF ContentOf
  <2> HIDE DEF q
  <2>4. DOMAIN Append(q, f) = 1..(c + 1) /\ Append(q, f)[c + 1] = f
        /\ \A i \in 1..c : Append(q, f)[i] = q[i]
    BY <2>2
  <2>5. Append(q, f) = [i \in 1..(c + 1) |-> Append(q, f)[i]]
    <3>1. f \in Frame \cup {NoFrame}
      BY <1>2 DEF SlotsOf
    <3>2. Append(q, f) \in Seq(Frame \cup {NoFrame}) /\ Len(Append(q, f)) = c + 1
      BY <2>2, <3>1
    <3> QED
      BY <3>2, SequenceIsFunction
  <2>6. ASSUME NEW i \in 1..(c + 1)
        PROVE  Append(q, f)[i] = sl[(h + i - 1) % Depth]
    <3>1. i = c + 1 \/ i \in 1..c
      OBVIOUS
    <3> QED
      BY <2>1, <2>3, <2>4, <3>1
  <2>7. ContentOf(sl, h, c + 1) = [i \in 1..(c + 1) |-> Append(q, f)[i]]
    BY <2>6 DEF ContentOf
  <2> QED
    BY <2>5, <2>7 DEF q
<1>8. Content(Appended(r)) = Append(Content(r), f)
  <2>1. c \in 0..Depth /\ Content(r) = ContentOf(sl, h, c)
    BY <1>1, ContentIs
  <2>2. Content(RingOf(sl, h, u, c + 1)) = ContentOf(sl, h, c + 1)
    BY <1>4, <1>5, ContentIs
  <2> QED
    BY <1>3, <1>7, <2>1, <2>2
<1>9. Appended(r) \in Ring
  BY <1>3, <1>4, <1>5, RingIs
<1> QED
  BY <1>1, <1>3, <1>6, <1>8, <1>9 DEF Tight, RingOf

\* PumpTx, PopEthernet and PopXboxTransmit take the frame at the head, which
\* is the oldest.
THEOREM RemovedRemoves ==
  ASSUME Depth \in Nat \ {0}, NEW r, Tight(r), r.count > 0
  PROVE  /\ Tight(Removed(r))
         /\ Content(r) # <<>>
         /\ First(r) = Head(Content(r))
         /\ Content(Removed(r)) = Tail(Content(r))
         /\ Removed(r).count = r.count - 1
<1>1. PICK sl \in SlotsOf, h \in Slots, t \in Slots, c \in 0..Depth :
        r = RingOf(sl, h, t, c)
  BY Fields DEF Tight
<1>2. c > 0 /\ t = (h + c) % Depth
  BY <1>1 DEF Tight, RingOf
<1> DEFINE u  == (h + 1) % Depth
           sk == [sl EXCEPT ![h] = NoFrame]
<1>3. Removed(r) = RingOf(sk, u, t, c - 1)
  <2>1. r.head = h /\ r.count = c /\ r.slot = sl
    BY <1>1 DEF RingOf
  <2>2. Removed(r) = [[r EXCEPT !.slot[h] = NoFrame] EXCEPT !.head = u, !.count = c - 1]
    BY <2>1 DEF Removed
  <2>3. [r EXCEPT !.slot[h] = NoFrame] = RingOf(sk, h, t, c)
    BY <1>1 DEF RingOf
  <2> HIDE DEF u, sk
  <2> QED
    BY <2>2, <2>3 DEF RingOf
<1>4. h + 1 \in Nat /\ h + 1 < Depth + Depth /\ c - 1 \in 0..Depth /\ c - 1 \in Nat
  BY <1>2 DEF Slots
<1>5. u = Wrapped(h + 1) /\ u \in Slots
  BY <1>4, Around
<1>6. sk \in SlotsOf /\ \A i \in Slots : i # h => sk[i] = sl[i]
  BY DEF SlotsOf
<1> HIDE DEF u, sk
<1> DEFINE q == ContentOf(sl, h, c)
<1>7. q \in Seq(Frame \cup {NoFrame}) /\ Len(q) = c /\ Content(r) = q
  BY <1>1, ContentIs
<1>8. \A i \in 1..c : q[i] = sl[(h + i - 1) % Depth]
  BY DEF ContentOf
<1> HIDE DEF q
<1>9. q # <<>> /\ First(r) = Head(q)
  <2>1. (h + 1 - 1) % Depth = h
    <3>1. h + 1 - 1 = h /\ h \in Nat /\ h < Depth + Depth /\ h < Depth
      BY DEF Slots
    <3> QED
      BY <3>1, Around DEF Wrapped
  <2>2. q[1] = sl[h]
    BY <1>2, <1>8, <2>1
  <2>3. q # <<>> /\ Head(q) = q[1]
    BY <1>2, <1>7
  <2> QED
    BY <1>1, <2>2, <2>3 DEF First, RingOf
<1>10. ASSUME NEW i \in 1..c
       PROVE  /\ (u + i - 1) % Depth = (h + (i + 1) - 1) % Depth
              /\ (u + i - 1) % Depth \in Slots
              /\ i < c => (u + i - 1) % Depth # h
  <2> DEFINE n == u + i - 1
             m == h + (i + 1) - 1
  <2>1. n \in Nat /\ n < Depth + Depth /\ m \in Nat /\ m < Depth + Depth
    BY <1>5, <1>10 DEF Slots
  <2>2. n = u + i - 1 /\ m = h + i
    BY DEF Slots
  <2> HIDE DEF n, m
  <2>3. n % Depth = Wrapped(n) /\ Wrapped(n) \in Slots /\ m % Depth = Wrapped(m)
    BY <2>1, Around
  <2>4. Wrapped(n) = Wrapped(m) /\ (i < c => Wrapped(n) # h)
    BY <1>5, <1>10, <2>1, <2>2 DEF Wrapped, Slots
  <2> QED
    BY <2>3, <2>4 DEF n, m
<1>11. t = (u + (c - 1)) % Depth
  <2>1. c \in 1..c /\ u + c - 1 = u + (c - 1) /\ h + (c + 1) - 1 = h + c
    BY <1>2, <1>5 DEF Slots
  <2> QED
    BY <1>2, <1>10, <2>1
<1>12. ContentOf(sk, u, c - 1) = Tail(q)
  <2>1. DOMAIN Tail(q) = 1..(c - 1) /\ Tail(q) \in Seq(Frame \cup {NoFrame})
        /\ \A i \in 1..(c - 1) : Tail(q)[i] = q[i + 1]
    BY <1>2, <1>7, <1>9
  <2>2. ASSUME NEW i \in 1..(c - 1)
        PROVE  Tail(q)[i] = sk[(u + i - 1) % Depth]
    <3>1. i + 1 \in 1..c /\ i \in 1..c /\ i < c
      BY <1>2, <2>2
    <3>2. Tail(q)[i] = sl[(h + (i + 1) - 1) % Depth]
      BY <1>8, <2>1, <3>1
    <3> QED
      BY <1>6, <1>10, <3>1, <3>2
  <2>3. Tail(q) = [i \in 1..(c - 1) |-> Tail(q)[i]]
    <3>1. Len(Tail(q)) = c - 1
      BY <1>2, <1>7, <1>9
    <3> QED
      BY <2>1, <3>1, SequenceIsFunction
  <2> QED
    BY <2>2, <2>3 DEF ContentOf
<1>13. Content(Removed(r)) = ContentOf(sk, u, c - 1)
  BY <1>3, <1>4, <1>5, <1>6, ContentIs
<1>14. Removed(r) \in Ring
  BY <1>3, <1>4, <1>5, <1>6, RingIs
<1> QED
  BY <1>1, <1>3, <1>7, <1>9, <1>11, <1>12, <1>13, <1>14 DEF Tight, RingOf

\* The content is a sequence, as long as the count says.
LEMMA ContentIsSeq ==
  ASSUME Depth \in Nat \ {0}, NEW r, Tight(r)
  PROVE  /\ Content(r) \in Seq(Frame \cup {NoFrame}) /\ Len(Content(r)) = r.count
         /\ r.count \in 0..Depth
<1>1. PICK sl \in SlotsOf, h \in Slots, t \in Slots, c \in 0..Depth :
        r = RingOf(sl, h, t, c)
  BY Fields DEF Tight
<1>2. r.count = c
  BY <1>1 DEF RingOf
<1> QED
  BY <1>1, <1>2, ContentIs

\* Several units taken from the head, by the fields.
LEMMA SkippedRing ==
  ASSUME Depth \in Nat \ {0}, NEW sl \in SlotsOf, NEW h \in Slots, NEW t \in Slots,
         NEW c \in 0..Depth, t = (h + c) % Depth, NEW n \in 0..c,
         NEW u, u = (h + n) % Depth
  PROVE  /\ u \in Slots /\ c - n \in 0..Depth
         /\ t = (u + (c - n)) % Depth
         /\ \A i \in 1..(c - n) :
              ContentOf(sl, u, c - n)[i] = ContentOf(sl, h, c)[i + n]
<1>1. n \in Nat /\ c \in Nat /\ c - n \in 0..Depth /\ c - n \in Nat
  OBVIOUS
<1>2. h + n \in Nat /\ h + n < Depth + Depth
  BY <1>1 DEF Slots
<1>3. u = Wrapped(h + n) /\ u \in Slots
  BY <1>2, Around
<1>4. ASSUME NEW i \in 0..(c - n)
      PROVE  (u + i) % Depth = (h + n + i) % Depth
  <2> DEFINE k == u + i
             m == h + n + i
  <2>1. k \in Nat /\ k < Depth + Depth /\ m \in Nat /\ m < Depth + Depth
    BY <1>1, <1>3, <1>4 DEF Slots
  <2>2. k = u + i /\ m = h + n + i
    OBVIOUS
  <2> HIDE DEF k, m
  <2>3. k % Depth = Wrapped(k) /\ m % Depth = Wrapped(m)
    BY <2>1, Around
  <2>4. Wrapped(k) = Wrapped(m)
    BY <1>1, <1>3, <1>4, <2>1, <2>2 DEF Wrapped, Slots
  <2> QED
    BY <2>3, <2>4 DEF k, m
<1>5. t = (u + (c - n)) % Depth
  <2>1. c - n \in 0..(c - n) /\ h + n + (c - n) = h + c
    BY <1>1 DEF Slots
  <2> QED
    BY <1>4, <2>1
<1>6. ASSUME NEW i \in 1..(c - n)
      PROVE  ContentOf(sl, u, c - n)[i] = ContentOf(sl, h, c)[i + n]
  <2>1. i + n \in 1..c
    BY <1>1, <1>6
  <2>2. ContentOf(sl, h, c)[i + n] = sl[(h + (i + n) - 1) % Depth]
    BY <2>1 DEF ContentOf
  <2>3. ContentOf(sl, u, c - n)[i] = sl[(u + i - 1) % Depth]
    BY <1>6 DEF ContentOf
  <2>4. i - 1 \in 0..(c - n) /\ u + (i - 1) = u + i - 1 /\ h + n + (i - 1) = h + (i + n) - 1
    BY <1>1, <1>3, <1>6 DEF Slots
  <2> QED
    BY <1>4, <2>2, <2>3, <2>4
<1> QED
  BY <1>1, <1>3, <1>5, <1>6

\* PopRx of b9c_stream.cpp takes several units from the head at once.
Skipped(r, n) == [r EXCEPT !.head = (@ + n) % Depth, !.count = @ - n]

\* What it leaves is the content without the first n, for any number of slots.
THEOREM SkippedSkips ==
  ASSUME Depth \in Nat \ {0}, NEW r, Tight(r), NEW n \in 0..r.count
  PROVE  /\ Tight(Skipped(r, n)) /\ Skipped(r, n).count = r.count - n
         /\ \A i \in 1..(r.count - n) : Content(Skipped(r, n))[i] = Content(r)[i + n]
<1>1. PICK sl \in SlotsOf, h \in Slots, t \in Slots, c \in 0..Depth :
        r = RingOf(sl, h, t, c)
  BY Fields DEF Tight
<1> DEFINE u == (h + n) % Depth
           d == c - n
           s == RingOf(sl, u, t, d)
<1>2. r.count = c /\ r.head = h /\ t = (h + c) % Depth /\ n \in 0..c
  BY <1>1 DEF Tight, RingOf
<1>3. (r.head + n) % Depth = u /\ r.count - n = d /\ u = (h + n) % Depth /\ d = c - n
  BY <1>2
<1> HIDE DEF u, d
<1>4. /\ u \in Slots /\ d \in 0..Depth /\ t = (u + d) % Depth
      /\ \A i \in 1..d : ContentOf(sl, u, d)[i] = ContentOf(sl, h, c)[i + n]
  BY <1>2, <1>3, SkippedRing
<1>5. Skipped(r, n) = s
  <2>1. Skipped(r, n) = [r EXCEPT !.head = u, !.count = d]
    BY <1>3 DEF Skipped
  <2>2. [r EXCEPT !.head = u] = RingOf(sl, u, t, c)
    BY <1>1 DEF RingOf
  <2>3. [RingOf(sl, u, t, c) EXCEPT !.count = d] = s
    BY DEF RingOf
  <2>4. [r EXCEPT !.head = u, !.count = d] = [[r EXCEPT !.head = u] EXCEPT !.count = d]
    OBVIOUS
  <2> QED
    BY <2>1, <2>2, <2>3, <2>4
<1>6. /\ s \in Ring /\ Content(s) = ContentOf(sl, u, d)
  BY <1>4, RingIs, ContentIs
<1>7. Content(r) = ContentOf(sl, h, c)
  BY <1>1, ContentIs
<1>8. s.head = u /\ s.tail = t /\ s.count = d
  BY DEF RingOf
<1>9. Tight(s)
  BY <1>4, <1>6, <1>8 DEF Tight
<1> HIDE DEF s
<1> QED
  BY <1>3, <1>4, <1>5, <1>6, <1>7, <1>8, <1>9
=============================================================================
