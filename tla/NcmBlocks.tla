------------------------------ MODULE NcmBlocks -----------------------------
(***************************************************************************)
(* The transfer blocks of the phone and how DecodeIphethRx takes the       *)
(* Ethernet frames out of them (ipheth_ncm.cpp).  A block is read out of a *)
(* buffer that is always full; only its own header says how much of it was *)
(* received.                                                               *)
(***************************************************************************)
EXTENDS Naturals, Integers, Sequences

CONSTANTS
  HeaderFloor,  \* bytes before the first frame, 108 in the code
  MaxDpe,       \* pointers that are looked at, 22
  MinFrame,     \* length of an Ethernet header, 14
  Word          \* unsigned arithmetic is modulo this, 2^32

\* Mutant of Points: the room is computed without looking at the index first.
PointsUnchecked(b, e) ==
  /\ e.index >= HeaderFloor
  /\ e.len >= MinFrame /\ e.len <= (b.blockLen - e.index) % Word

\* A datagram pointer that DecodeNcm takes.
Points(b, e) ==
  /\ e.index >= HeaderFloor /\ e.index < b.blockLen
  /\ e.len >= MinFrame /\ e.len <= (b.blockLen - e.index) % Word

IsNull(e) == e.index = 0 /\ e.len = 0

\* A block: whether its signatures and fixed lengths are right, its length,
\* and as many pointers as its table claims to have.
HeaderIsGood(b, cap) ==
  cap >= HeaderFloor /\ b.signed /\ b.blockLen >= HeaderFloor
  /\ b.blockLen <= cap

LoopEnd(b) == IF Len(b.dpe) < MaxDpe THEN Len(b.dpe) ELSE MaxDpe

\* The loop over the pointers: whether it goes on, has seen the mark behind
\* the last one or has refused the block, and the frames delivered so far.
\* The callback takes at most "room" of them.
LoopStart == [at |-> "loop", out |-> <<>>]

LoopStep(b, room, s, e) ==
  IF s.at # "loop" THEN s
  ELSE IF IsNull(e) THEN [s EXCEPT !.at = "mark"]
  ELSE IF ~Points(b, e) \/ Len(s.out) = room THEN [s EXCEPT !.at = "refused"]
  ELSE [s EXCEPT !.out = Append(@, e)]

DpeLoop(b, room) ==
  LET loop[i \in 0..LoopEnd(b)] ==
        IF i = 0 THEN LoopStart ELSE LoopStep(b, room, loop[i - 1], b.dpe[i])
  IN loop[LoopEnd(b)]

Refused == [ok |-> FALSE, out |-> <<>>]

DecodeNcm(b, cap, room) ==
  IF HeaderIsGood(b, cap)
  THEN [ok  |-> DpeLoop(b, room).at = "mark", out |-> DpeLoop(b, room).out]
  ELSE Refused

\* Without NCM the one frame has the length that its own protocol gives; a
\* length of 0 is no frame.  "claims" is that length and "least" the shortest
\* header it needs.
LegacyFrameLength(f, cap) ==
  IF f.kind = "unknown" \/ cap < f.least \/ f.claims < f.least
     \/ f.claims > cap
  THEN 0 ELSE f.claims

\* Two bytes come before a frame without NCM.
DecodeLegacy(f, cap, room) ==
  LET n == LegacyFrameLength(f, cap - 2)
  IN IF n = 0 \/ room = 0 THEN Refused
     ELSE [ok |-> TRUE, out |-> <<[index |-> 2, len |-> n]>>]

\* A buffer may hold nothing, the phone's control frame, a block or a frame.
DecodeIphethRx(x, cap, ncm, room) ==
  CASE x.kind = "control" \/ (x.kind = "empty" /\ ncm) ->
         [ok |-> TRUE, out |-> <<>>]
    [] x.kind = "block" /\ ncm -> DecodeNcm(x, cap, room)
    [] x.kind \in {"frame", "unknown"} /\ ~ncm -> DecodeLegacy(x, cap, room)
    [] OTHER -> Refused
=============================================================================
