--------------------------- MODULE FrameTranslate ---------------------------
(***************************************************************************)
(* The hardware addresses that the native bridge changes in a frame        *)
(* (native_net/frame_translate.cpp), as operators on a record of the       *)
(* fields that can hold one.  The bytes of a frame, where its fields lie   *)
(* and what is too short to have them are in the record's kind: "arp" and  *)
(* "dhcp" are frames that pass every test of TranslateArp and LocateDhcp,  *)
(* behind at most two VLAN tags; "other" is anything else.                 *)
(***************************************************************************)
EXTENDS Naturals, Sequences

CONSTANTS
  Mac,        \* hardware addresses
  Group,      \* those that are zero or have the group bit
  MaxOptions  \* of a DHCP message

\* A DHCP option: padding, the end mark, one that runs past the message, a
\* client identifier of the form 01:<MAC>, or any other.
Option == [code : {"pad", "end", "overrun", "client", "other"}, mac : Mac]

\* A UDP checksum is none, or one computed over some client address and
\* options.
Bootp    == [chaddr : Mac,
             options : UNION {[1..n -> Option] : n \in 0..MaxOptions}]
NoSum    == <<>>
SumOf(b) == <<b>>

IsUsableUnicastMac(m) == m \notin Group

ReplaceMacIfEqual(m, from, to) == IF m = from THEN to ELSE m

\* The loop over the options stops at the end mark and at an overrun.
Scanned(os, i) == \A j \in 1..(i - 1) : os[j].code \notin {"end", "overrun"}

TranslateOptions(os, from, to) ==
  [i \in DOMAIN os |->
     IF os[i].code = "client" /\ Scanned(os, i)
     THEN [os[i] EXCEPT !.mac = ReplaceMacIfEqual(@, from, to)]
     ELSE os[i]]

TranslateBootp(b, from, to) ==
  [chaddr  |-> ReplaceMacIfEqual(b.chaddr, from, to),
   options |-> TranslateOptions(b.options, from, to)]

\* A sum of zero stays; any other is computed anew.
UdpChecksum(sum, b) == IF sum = NoSum THEN NoSum ELSE SumOf(b)

TranslateDhcpMac(f, from, to) ==
  LET b == TranslateBootp(f.bootp, from, to)
  IN [f EXCEPT !.bootp = b, !.sum = UdpChecksum(f.sum, b)]

\* The address of the sender on the way out, of the target on the way in.
TranslateArpOutbound(f, native, tether) ==
  [f EXCEPT !.sha = ReplaceMacIfEqual(@, native, tether)]

TranslateArpInbound(f, tether, native) ==
  [f EXCEPT !.tha = ReplaceMacIfEqual(@, tether, native)]

\* Only then is a frame translated, and passed on, at all.
Translates(native, tether) ==
  IsUsableUnicastMac(native) /\ IsUsableUnicastMac(tether)

TranslateOutboundFrame(f, native, tether) ==
  LET g == [f EXCEPT !.src = ReplaceMacIfEqual(@, native, tether)]
  IN CASE f.kind = "arp"  -> TranslateArpOutbound(g, native, tether)
       [] f.kind = "dhcp" -> TranslateDhcpMac(g, native, tether)
       [] OTHER           -> g

\* Mutant of TranslateInboundFrame: the arguments of the caller in the order
\* of the other direction.
TranslateInboundSwapped(f, tether, native) ==
  LET g == [f EXCEPT !.dst = ReplaceMacIfEqual(@, tether, native)]
  IN CASE f.kind = "arp"  -> TranslateArpInbound(g, tether, native)
       [] f.kind = "dhcp" -> TranslateDhcpMac(g, native, tether)
       [] OTHER           -> g

TranslateInboundFrame(f, tether, native) ==
  LET g == [f EXCEPT !.dst = ReplaceMacIfEqual(@, tether, native)]
  IN CASE f.kind = "arp"  -> TranslateArpInbound(g, tether, native)
       [] f.kind = "dhcp" -> TranslateDhcpMac(g, tether, native)
       [] OTHER           -> g

\* What the phone makes of a frame it is sent, and answers: an ARP reply
\* to the sender, a DHCP reply that repeats the client's address and its
\* identifier; the sum is right or not there.
Answer(f, peer, sum) ==
  [kind |-> f.kind, src |-> peer, dst |-> f.src, sha |-> peer, tha |-> f.sha,
   bootp |-> f.bootp, sum |-> IF sum = NoSum THEN NoSum ELSE SumOf(f.bootp)]

\* The addresses in the fields that say who sends a frame.
SenderMacs(f) ==
  {f.src} \cup (IF f.kind = "arp" THEN {f.sha} ELSE {})
  \cup (IF f.kind # "dhcp" THEN {}
        ELSE {f.bootp.chaddr}
             \cup {f.bootp.options[i].mac :
                     i \in {j \in DOMAIN f.bootp.options :
                              /\ f.bootp.options[j].code = "client"
                              /\ Scanned(f.bootp.options, j)}})

SumIsRight(f) == f.kind = "dhcp" => f.sum \in {NoSum, SumOf(f.bootp)}
=============================================================================
