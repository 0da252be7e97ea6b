------------------------------- MODULE Formats ------------------------------
(***************************************************************************)
(* The pure algorithms on their own: each gets one input after the other,  *)
(* and what it makes of it is compared with what it is for.                *)
(***************************************************************************)
EXTENDS Naturals, Sequences

CONSTANTS
  Native, Tether,  \* addresses of the console and of the phone's interface
  Macs,            \* all addresses in frames, Native and Tether among them
  Groups,          \* those that are no single station's
  MaxOptions,      \* of a DHCP message
  MaxTokens,       \* of a licence document
  BlockSizes,      \* lengths in the header of a transfer block
  Capacity,        \* of the receive buffer
  DpeFields,       \* values of a datagram pointer's fields
  MaxPointers,     \* in a block
  HeaderFloor, MaxDpe, MinFrame, Word  \* of NcmBlocks

\* The console and the phone are two devices with an address each.
ASSUME FormatsAssumption ==
  /\ {Native, Tether} \subseteq Macs /\ Native # Tether
  /\ MaxOptions \in Nat /\ MaxTokens \in Nat /\ MaxPointers \in Nat
  /\ BlockSizes \subseteq Nat /\ DpeFields \subseteq Nat
  /\ Capacity \in Nat /\ Word \in Nat /\ Capacity < Word
  /\ HeaderFloor \in Nat \ {0} /\ MaxDpe \in Nat /\ MinFrame \in Nat

Translate == INSTANCE FrameTranslate WITH Mac <- Macs, Group <- Groups
Ncm       == INSTANCE NcmBlocks
Document  == INSTANCE LicenceDocument

VARIABLE input  \* of one of the algorithms

Is(kind) == input.kind = kind
Nothing  == [kind |-> "nothing"]

FormatsInit == input = Nothing

\* A frame as the console's stack sends it: from its own address, in every
\* field that says so, and an identifier if it gives one.
NativeFrame ==
  /\ Is("nothing") /\ Translate!Translates(Native, Tether)
  /\ \E kind \in {"arp", "dhcp", "other"}, dst, tha \in Macs,
        b \in Translate!Bootp, summed \in BOOLEAN :
       /\ b.chaddr = Native
       /\ \A i \in DOMAIN b.options :
            b.options[i].mac = IF b.options[i].code = "client" THEN Native
                               ELSE Tether
       /\ input' = [kind |-> "frame",
                    frame |-> [kind |-> kind, src |-> Native, dst |-> dst,
                               sha |-> Native, tha |-> tha, bootp |-> b,
                               sum |-> IF summed THEN Translate!SumOf(b)
                                       ELSE Translate!NoSum]]

Pointer == [index : DpeFields, len : DpeFields]

Block ==
  /\ Is("nothing")
  /\ \E signed \in BOOLEAN, length \in BlockSizes, n \in 0..MaxPointers :
       \E dpe \in [1..n -> Pointer], room \in {1, MaxPointers} :
         input' = [kind |-> "buffer", ncm |-> TRUE, room |-> room,
                   buffer |-> [kind |-> "block", signed |-> signed,
                               blockLen |-> length, dpe |-> dpe]]

Buffer ==
  /\ Is("nothing")
  /\ \E kind \in {"empty", "control", "frame", "unknown"}, ncm \in BOOLEAN,
        least, claims \in 0..(Capacity + 2), room \in {0, 1} :
       input' = [kind |-> "buffer", ncm |-> ncm, room |-> room,
                 buffer |-> [kind |-> kind, least |-> least,
                             claims |-> claims]]

ADocument ==
  /\ Is("nothing")
  /\ \E n \in 0..MaxTokens : \E body \in [1..n -> Document!Tokens] :
       input' = [kind |-> "document", body |-> body]

Done == ~Is("nothing") /\ input' = Nothing

FormatsNext == NativeFrame \/ Block \/ Buffer \/ ADocument \/ Done

FormatsSpec == FormatsInit /\ [][FormatsNext]_input

-----------------------------------------------------------------------------
(* Frames.                                                                 *)

Outbound == Translate!TranslateOutboundFrame(input.frame, Native, Tether)

Inbound == Translate!TranslateInboundFrame(
             Translate!Answer(Outbound, Tether, Outbound.sum), Tether, Native)

\* Whatever the console's stack sends, nothing in it names the console to the
\* phone, and a checksum that was right still is; and the answer to what was sent
\* in the console's place reaches the console as an answer to itself: in the
\* header, in the target of an ARP reply, and in the client address and
\* identifier of a DHCP reply.
NativeIsTranslated ==
  Is("frame") =>
    /\ Native \notin Translate!SenderMacs(Outbound)
    /\ Translate!SumIsRight(Outbound)
    /\ Inbound.dst = Native
    /\ input.frame.kind = "arp" => Inbound.tha = Native
    /\ input.frame.kind = "dhcp" => Inbound.bootp = input.frame.bootp
    /\ Translate!SumIsRight(Inbound)

-----------------------------------------------------------------------------
(* Transfer blocks.                                                        *)

Decoded ==
  Ncm!DecodeIphethRx(input.buffer, Capacity, input.ncm, input.room)

\* A pointer whose frame lies behind the headers and inside the block.
Inside(b, e) ==
  /\ e.index >= HeaderFloor /\ e.len >= MinFrame
  /\ e.len > 0 \/ e.index < b.blockLen
  /\ e.index + e.len <= b.blockLen

\* A block of n frames: their pointers, and the mark behind the last.
Holds(b, n) ==
  /\ n < Len(b.dpe) /\ n < MaxDpe /\ Ncm!IsNull(b.dpe[n + 1])
  /\ \A i \in 1..n : Inside(b, b.dpe[i])

\* Every frame handed on lies behind the headers and inside what was
\* received, whatever its pointers say and in unsigned arithmetic; a block is
\* taken exactly if it has the mark behind pointers that are all good, no more
\* than the callback takes, and then all of its frames have been handed on in
\* their order.
FramesAreReceived ==
  Is("buffer") =>
    LET b   == input.buffer
        out == Decoded.out
    IN /\ \A i \in DOMAIN out : out[i].index + out[i].len <= Capacity
       /\ IF input.ncm /\ b.kind = "block"
          THEN /\ \A i \in DOMAIN out : Inside(b, out[i])
               /\ Decoded.ok <=> /\ Ncm!HeaderIsGood(b, Capacity)
                                 /\ \E n \in 0..input.room : Holds(b, n)
               /\ Decoded.ok => /\ Holds(b, Len(out))
                                /\ out = SubSeq(b.dpe, 1, Len(out))
          ELSE \A i \in DOMAIN out : ~input.ncm /\ out[i].index = 2

-----------------------------------------------------------------------------
(* Documents.                                                              *)

\* The lines of a document: where each begins and ends, the line ends around it
\* and the byte order mark left out.
Begin(body) == IF body # <<>> /\ body[1] = "bom" THEN 2 ELSE 1

LinesOf(body) ==
  {p \in (Begin(body)..Len(body)) \X (Begin(body)..Len(body)) :
     /\ p[1] <= p[2]
     /\ \A k \in p[1]..p[2] : body[k] # "nl"
     /\ p[1] = Begin(body) \/ body[p[1] - 1] = "nl"
     /\ p[2] = Len(body) \/ body[p[2] + 1] = "nl"}

\* Where a line has something, and what it has first.
Marks(body, p) == {k \in p[1]..p[2] : body[k] # "blank"}
Lead(body, p)  ==
  body[CHOOSE k \in Marks(body, p) : \A l \in Marks(body, p) : k <= l]

Counts(body) == {p \in LinesOf(body) :
                   Marks(body, p) # {} /\ Lead(body, p) # "#"}

Says(body, word) == \E p \in Counts(body) : Lead(body, p) = word

\* A line that is neither a comment nor one known word.
Spoils(body, p) == \/ \E k, l \in Marks(body, p) : k # l
                   \/ Lead(body, p) \in {"bom", "junk"}

\* Such a line makes the document invalid wherever it stands, also behind the
\* console's own line; the console's line counts wherever it stands, also behind
\* "free".
VerdictByLines ==
  Is("document") =>
    LET body == input.body
    IN Document!EvaluateLicenceDocument(body) =
         IF Counts(body) = {} \/ \E p \in Counts(body) : Spoils(body, p)
         THEN "invalid"
         ELSE IF Says(body, "mine") THEN "matched"
         ELSE IF Says(body, "free") THEN "free" ELSE "noMatch"
=============================================================================
