------------------------------ MODULE NetStack ------------------------------
(***************************************************************************)
(* The standalone network stack (net_stack.cpp) as the tether Worker       *)
(* drives it: DHCP with retry, renewal and expiry, then ARP, DNS and one   *)
(* HTTP request that validates the connection.                             *)
(*                                                                         *)
(* The stack runs on the Worker only.  What makes it hard is the other     *)
(* side: a reply comes late, in another order, twice because the request   *)
(* was repeated, for an earlier run of the stack (a restart uses the same  *)
(* seed, hence the same transaction id, DNS id and TCP sequence), or       *)
(* never.  A reply in flight says only which request it answers; what the  *)
(* phone puts into it is chosen when it arrives.                           *)
(*                                                                         *)
(* A handler is an expression for its possible results: the stack it       *)
(* leaves, the reply its frames bring about, and the value it returns.     *)
(***************************************************************************)
EXTENDS Naturals, FiniteSets

CONSTANTS
  Addresses,     \* addresses the phone may give out
  Router,        \* the gateway, where the phone names one
  Server,        \* the DHCP server
  None,          \* address 0, option absent
  Options,       \* what a DHCP message can carry: records of router, server
                 \* and lease, None or 0 where the option is absent
  RetrySeconds,  \* seconds between two requests, 4 in the code
  MaxSyn,        \* bound: SYNs of one run
  MaxReplies     \* bound: replies in flight, others are lost

StackConstants ==
  /\ Options \subseteq [router : {Router, None}, server : {Server, None},
                        lease : Nat]
  /\ RetrySeconds \in Nat \ {0} /\ MaxSyn \in Nat /\ MaxReplies \in Nat
  /\ None \notin Addresses /\ Router # None /\ Server # None

ASSUME StackAssumption == StackConstants

VARIABLES
  stack,     \* the fields of StandaloneNetStack
  started,   \* the driver's gCtx.netStarted
  failed,    \* the driver's gCtx.netFailed
  replies,   \* replies in flight
  renewals,  \* history: renewals asked for since the lease was bound
  blind,     \* history: the gateway was not known when half the lease was over
  longest,   \* history: the longest of the lease time bound by the ACK and
             \* those of the Offers that came after it, 0 for one without end
  held,      \* history: seconds since that ACK, while longest is not 0
  late,      \* history: an Offer came while the lease was bound, and no ACK
             \* for it
  reused     \* history: a reply in flight carried the id when it was chosen

ghosts    == <<renewals, blind, longest, held, late>>
stackVars == <<stack, started, failed, replies, ghosts, reused>>

Gateways == {Router, Server}
Times    == {o.lease : o \in Options} \cup {0}

\* gatewayMac_ is named by the host it belongs to, and resolvedIp_ reduced to
\* whether it is set.  The transaction id is the set of ages by which renewals
\* have changed it, for it is their exclusive or.  tcpSeq_ counts the SYNs;
\* tcpEstablished_ and tcpAck_ are the connection, named by the SYN it answers.
Stack == [ip : Addresses \cup {None}, gateway : Gateways \cup {None},
          server : {Server, None}, lease : Times,
          offered : Addresses \cup {None}, offerServer : {Server, None},
          mac : Gateways \cup {None}, configured : BOOLEAN,
          requested : BOOLEAN, renewing : BOOLEAN,
          seconds : 0..(RetrySeconds - 1), age : Nat, xid : SUBSET Nat,
          resolved : BOOLEAN, syn : BOOLEAN, seq : 0..MaxSyn,
          connection : 0..MaxSyn, httpSent : BOOLEAN, internetOk : BOOLEAN]

\* What can come back, and the address it is sent to, None for a broadcast.
Offer(x)         == [kind |-> "offer",  xid |-> x]
Answer(x, a, to) == [kind |-> "answer", xid |-> x, ip |-> a, to |-> to]
ArpReply(g)      == [kind |-> "arp", host |-> g]
DnsReply(to)     == [kind |-> "dns", to |-> to]
SynAck(n, to)    == [kind |-> "synack", ack |-> n, to |-> to]
Http(n, to)      == [kind |-> "http", ack |-> n, to |-> to]

\* A reply in flight: to which request, or from and to which address.
Hosts == Addresses \cup {None}
Reply ==
  [kind : {"offer"}, xid : SUBSET Nat]
  \cup [kind : {"answer"}, xid : SUBSET Nat, ip : Hosts, to : Hosts]
  \cup [kind : {"arp"}, host : Gateways \cup {None}] \cup [kind : {"dns"}, to : Hosts]
  \cup [kind : {"synack", "http"}, ack : 1..MaxSyn, to : Hosts]

\* StandaloneNetStack::Reset and the ids Start computes from the seed.
Reset == [ip |-> None, gateway |-> None, server |-> None, lease |-> 0,
          offered |-> None, offerServer |-> None, mac |-> None,
          configured |-> FALSE, requested |-> FALSE, renewing |-> FALSE,
          seconds |-> 0, age |-> 0, xid |-> {}, resolved |-> FALSE,
          syn |-> FALSE, seq |-> 0, connection |-> 0,
          httpSent |-> FALSE, internetOk |-> FALSE]

StackTypeOK ==
  /\ stack \in Stack
  /\ started \in BOOLEAN /\ failed \in BOOLEAN
  /\ replies \subseteq Reply
  /\ renewals \in Nat /\ blind \in BOOLEAN
  /\ longest \in Times /\ held \in Nat
  /\ late \in BOOLEAN /\ reused \in BOOLEAN

StackInit ==
  /\ stack = Reset /\ started = FALSE /\ failed = FALSE /\ replies = {}
  /\ renewals = 0 /\ blind = FALSE /\ longest = 0 /\ held = 0
  /\ late = FALSE /\ reused = FALSE

-----------------------------------------------------------------------------
(* Results of a handler.                                                   *)

Result(s, r, ok) == [stack |-> s, replies |-> r, ok |-> ok]
Returns(s, ok)   == {Result(s, {}, ok)}

\* SendFrame: the driver's queue takes the frame, and the phone answers or not;
\* or it refuses the frame.
Sends(s, reply) ==
  {Result(s, {reply}, TRUE), Result(s, {}, TRUE), Result(s, {}, FALSE)}

-----------------------------------------------------------------------------
(* DHCP.                                                                   *)

SendDhcpDiscover(s) ==
  LET t == [s EXCEPT !.requested = FALSE, !.renewing = FALSE, !.seconds = 0]
  IN  Sends(t, Offer(t.xid))

SendDhcpRequest(s) ==
  IF s.offered = None \/ s.offerServer = None THEN Returns(s, FALSE)
  ELSE LET t == [s EXCEPT !.requested = TRUE, !.renewing = FALSE, !.seconds = 0]
       IN  Sends(t, Answer(t.xid, t.offered, None))

Toggled(x, n) == (x \ {n}) \cup ({n} \ x)

\* Mutant of SendDhcpRenew: the lease is taken for renewed when it is asked for.
SendDhcpRenewRestarts(s) ==
  IF ~s.configured \/ s.mac = None \/ s.server = None THEN Returns(s, FALSE)
  ELSE LET t == [s EXCEPT !.xid = Toggled(@, s.age), !.renewing = TRUE,
                          !.seconds = 0, !.age = 0]
       IN  Sends(t, Answer(t.xid, t.ip, t.ip))

SendDhcpRenew(s) ==
  IF ~s.configured \/ s.mac = None \/ s.server = None THEN Returns(s, FALSE)
  ELSE LET t == [s EXCEPT !.xid = Toggled(@, s.age), !.renewing = TRUE,
                          !.seconds = 0]
       IN  Sends(t, Answer(t.xid, t.ip, t.ip))

\* Mutant of RenewalDue: half of a lease of one second is 0.
RenewalDueUnrounded(s) == s.age = s.lease \div 2

Half(l) == IF l \div 2 = 0 THEN 1 ELSE l \div 2

RenewalDue(s) == s.age = Half(s.lease)

Expired(s) ==
  [s EXCEPT !.configured = FALSE, !.mac = None, !.renewing = FALSE,
            !.offered = None, !.offerServer = None,
            !.ip = None, !.gateway = None, !.server = None, !.lease = 0]

\* Mutant of Retried: the Request is repeated whether there was an Offer or not.
RetriedRequestOnly(s) ==
  IF s.seconds + 1 < RetrySeconds
  THEN Returns([s EXCEPT !.seconds = @ + 1], TRUE)
  ELSE SendDhcpRequest([s EXCEPT !.seconds = 0])

\* A second without a lease.
Retried(s) ==
  IF s.seconds + 1 < RetrySeconds
  THEN Returns([s EXCEPT !.seconds = @ + 1], TRUE)
  ELSE LET t == [s EXCEPT !.seconds = 0]
       IN  IF s.requested /\ s.offered # None THEN SendDhcpRequest(t)
                                              ELSE SendDhcpDiscover(t)

\* A second of a lease.
Aged(s) ==
  LET older == [s EXCEPT !.age = @ + 1]
      asked == IF RenewalDue(older) THEN SendDhcpRenew(older)
                                    ELSE Returns(older, TRUE)
      Ends(t) == IF t.age >= t.lease THEN SendDhcpDiscover(Expired(t))
                                     ELSE Returns(t, TRUE)
  IN  UNION {{Result(e.stack, a.replies \cup e.replies, e.ok) : e \in Ends(a.stack)}
               : a \in asked}

TickOneSecond(s) ==
  IF ~s.configured THEN Retried(s)
  ELSE IF s.lease = 0 THEN Returns(s, TRUE) ELSE Aged(s)

HandleOffer(s, ip, o) ==
  SendDhcpRequest([s EXCEPT !.seconds = 0, !.offered = ip,
                            !.offerServer = o.server, !.gateway = o.router,
                            !.lease = o.lease])

Otherwise(a, b) == IF a # None THEN a ELSE b

Assigned(s, ip) == Otherwise(ip, IF s.renewing THEN s.ip ELSE None)

\* Mutant of Accepts: an answer to an earlier Request is taken.
AcceptsAny(s, ip) == Assigned(s, ip) # None

Accepts(s, ip) ==
  /\ Assigned(s, ip) # None
  /\ s.renewing \/ s.offered = None \/ Assigned(s, ip) = s.offered

\* The lease is taken over; a missing gateway is replaced by the server.
Bound(s, ip, o) ==
  LET srv == Otherwise(o.server, s.offerServer)
      gw  == Otherwise(Otherwise(o.router, s.gateway), srv)
  IN  [s EXCEPT !.ip = Assigned(s, ip), !.gateway = gw, !.server = srv,
                !.lease = IF o.lease # 0 THEN o.lease ELSE @,
                !.configured = gw # None,
                !.renewing = FALSE, !.seconds = 0, !.age = 0]

HandleAck(s, ip, o) ==
  IF ~Accepts(s, ip) THEN Returns(s, TRUE)
  ELSE LET t == Bound(s, ip, o)
       IN  IF t.configured THEN Sends(t, ArpReply(t.gateway))
                           ELSE Returns(t, FALSE)

-----------------------------------------------------------------------------
(* ARP, DNS and TCP.                                                       *)

SendDnsQuery(s) ==
  IF ~s.configured \/ s.mac = None THEN Returns(s, FALSE)
  ELSE Sends(s, DnsReply(s.ip))

\* The echo request sent before the query changes nothing.
HandleArpReply(s, host) ==
  IF s.configured /\ host = s.gateway THEN SendDnsQuery([s EXCEPT !.mac = host])
  ELSE Returns(s, TRUE)

\* The sequence number moves only when the SYN was taken.
SendTcpSyn(s) ==
  IF s.mac = None THEN Returns(s, FALSE)
  ELSE LET t == [s EXCEPT !.syn = TRUE]
           u == [t EXCEPT !.seq = @ + 1]
       IN  {Result(u, {SynAck(u.seq, u.ip)}, TRUE), Result(u, {}, TRUE),
            Result(t, {}, FALSE)}

\* An answer with an address, or without.
HandleDns(s) ==
  SendTcpSyn([s EXCEPT !.resolved = TRUE]) \cup Returns(s, FALSE)

\* The handshake is acknowledged and the request sent: either may be refused.
HandleSynAck(s, ack) ==
  IF s.resolved /\ s.syn /\ s.connection = 0 /\ ack = s.seq
  THEN LET t == [s EXCEPT !.connection = ack]
           u == [t EXCEPT !.httpSent = TRUE]
       IN  Returns(t, FALSE) \cup
           (IF s.mac = None THEN {}
            ELSE {Result(u, {Http(ack, u.ip)}, TRUE), Result(u, {}, TRUE)})
  ELSE Returns(s, TRUE)

\* Data of another connection do not continue this one.
HandleHttp(s, ack) ==
  Returns(IF s.resolved /\ s.connection = ack
          THEN [s EXCEPT !.internetOk = TRUE] ELSE s, TRUE)

-----------------------------------------------------------------------------
(* OnEthernetFrame.                                                        *)

\* HandleIpv4 takes what is sent to the address in use, or to all.
Addressed(s, to) == s.configured => to = s.ip

\* ARP, DNS and TCP.  Beyond the bound a DNS answer is lost.
HandleOther(s, r) ==
  IF r.kind = "arp" THEN HandleArpReply(s, r.host)
  ELSE IF ~Addressed(s, r.to) THEN Returns(s, TRUE)
  ELSE CASE r.kind = "dns"    -> IF s.seq < MaxSyn THEN HandleDns(s)
                                                   ELSE Returns(s, TRUE)
         [] r.kind = "synack" -> HandleSynAck(s, r.ack)
         [] r.kind = "http"   -> HandleHttp(s, r.ack)

-----------------------------------------------------------------------------
(* The Worker.                                                             *)

\* A result happens: its reply joins those in flight, while there is room.
Happens(result, others) ==
  /\ stack' = result.stack
  /\ replies' = others \cup result.replies
  /\ Cardinality(replies') <= MaxReplies

\* A reply in flight that already carries the id.
InUse(x) == \E r \in replies : r.kind \in {"offer", "answer"} /\ r.xid = x

\* No lease any more, and nothing to tell of one.
Unbinds ==
  /\ renewals' = 0 /\ blind' = FALSE
  /\ longest' = 0 /\ held' = 0 /\ late' = FALSE

\* A run starts when the carrier is up; a Discover that is refused ends it.
Start ==
  /\ ~started
  /\ \E result \in SendDhcpDiscover(Reset) :
       Happens(result, replies) /\ started' = result.ok
  /\ failed' = FALSE
  /\ Unbinds /\ reused' = InUse({})

\* A renewal that is sent, and nothing else, changes the id.
Tick ==
  /\ started /\ ~failed
  /\ \E result \in TickOneSecond(stack) : Happens(result, replies)
  /\ renewals' = IF stack'.xid # stack.xid THEN renewals + 1
                 ELSE IF stack.configured THEN renewals ELSE 0
  /\ blind' = (/\ stack.configured
               /\ blind \/ (stack.mac = None /\ stack'.age >= Half(stack.lease)))
  /\ longest' = IF stack'.configured THEN longest ELSE 0
  /\ held' = IF longest' # 0 THEN held + 1 ELSE 0
  /\ late' = (late /\ stack'.configured)
  /\ reused' = (reused \/ (stack'.xid # stack.xid /\ InUse(stack'.xid)))
  /\ UNCHANGED <<started, failed>>

\* A frame that a handler reports as a failure is the last one of the round.
Handled(results, r) ==
  /\ started /\ ~failed
  /\ \E result \in results :
       Happens(result, replies \ {r}) /\ failed' = ~result.ok
  /\ UNCHANGED <<started, reused>>

\* A DHCP message counts if it carries the id and is sent to the console.
Matches(r) ==
  /\ r.kind \in {"offer", "answer"} /\ r.xid = stack.xid
  /\ r.kind = "answer" => r.to = None \/ Addressed(stack, r.to)

Longer(a, b) == IF a = 0 \/ b = 0 THEN 0 ELSE IF a < b THEN b ELSE a

ReceiveOffer(r, ip, o) ==
  /\ r.kind = "offer" /\ Matches(r)
  /\ Handled(HandleOffer(stack, ip, o), r)
  /\ late' = (late \/ stack.configured)
  /\ longest' = IF stack.configured THEN Longer(longest, o.lease) ELSE 0
  /\ held' = IF longest' # 0 THEN held ELSE 0
  /\ UNCHANGED <<renewals, blind>>

ReceiveAck(r, ip, o) ==
  /\ r.kind = "answer" /\ Matches(r) /\ ip \in {r.ip, None}
  /\ Handled(HandleAck(stack, ip, o), r)
  /\ late' = (late /\ ~(/\ Accepts(stack, ip)
                        /\ Assigned(stack, ip) = stack.offered))
  /\ IF Accepts(stack, ip)
     THEN /\ renewals' = 0 /\ blind' = FALSE /\ held' = 0
          /\ longest' = IF stack'.configured THEN stack'.lease ELSE 0
     ELSE UNCHANGED <<renewals, blind, longest, held>>

ReceiveNak(r) ==
  /\ r.kind = "answer" /\ Matches(r)
  /\ Handled(Returns(stack, FALSE), r)
  /\ UNCHANGED ghosts

ReceiveOther(r) ==
  /\ IF r.kind \in {"offer", "answer"}
     THEN ~Matches(r) /\ Handled(Returns(stack, TRUE), r)
     ELSE Handled(HandleOther(stack, r), r)
  /\ UNCHANGED ghosts

Receive(r) ==
  \/ \E o \in Options :
       \/ \E ip \in Addresses : ReceiveOffer(r, ip, o)
       \/ \E ip \in Addresses \cup {None} :
            ReceiveAck(r, ip, o)
  \/ ReceiveNak(r) \/ ReceiveOther(r)

\* The phone asks for the console's address; the answer may be refused.
ArpAsked ==
  /\ started /\ ~failed /\ stack.configured
  /\ failed' = TRUE
  /\ UNCHANGED <<stack, started, replies, ghosts, reused>>

Ends ==
  /\ started' = FALSE /\ failed' = FALSE
  /\ stack' = Reset
  /\ Unbinds /\ reused' = FALSE
  /\ UNCHANGED replies

\* A failure, or 600 rounds without a validated connection.
Restart == started /\ (failed \/ ~stack.internetOk) /\ Ends

CarrierLost == started /\ ~failed /\ Ends

StackNext ==
  \/ Start \/ Tick \/ ArpAsked \/ Restart \/ CarrierLost
  \/ \E r \in replies : Receive(r)

StackSpec == StackInit /\ [][StackNext]_stackVars
-----------------------------------------------------------------------------
(* Fairness.  The Worker's rounds go on and take what has arrived, and a    *)
(* failure ends the run.  Of the phone: one that is asked for a lease again *)
(* and again answers once with an Offer that can be requested and with an   *)
(* ACK.  Nothing is assumed of single requests.                            *)

Answered  == Tick /\ replies' # replies
Offered   == \E r \in replies, ip \in Addresses, o \in Options :
               /\ ReceiveOffer(r, ip, o)
               /\ replies' # replies \ {r}
Confirmed == \E r \in replies, ip \in Addresses, o \in Options :
               ReceiveAck(r, ip, o) /\ stack'.configured

Fairness ==
  /\ WF_stackVars(Tick) /\ WF_stackVars(Restart /\ failed)
  /\ WF_stackVars(\E r \in replies : Receive(r))
  /\ SF_stackVars(Answered) /\ SF_stackVars(Offered) /\ SF_stackVars(Confirmed)

FairSpec == StackSpec /\ Fairness

-----------------------------------------------------------------------------
(* Properties.                                                             *)

\* An address is given up when its lease has run out, counted in seconds since
\* the ACK that bound it: first lease, renewal or lease after an expiry.  An
\* Offer that comes while it is bound replaces the lease time although no ACK
\* confirms it, by a longer one or by none; so the lease meant here is the
\* longest that the phone has named, in that ACK and in the Offers after it.
LeaseIsLive == stack.configured => longest = 0 \/ held < longest

\* No lease runs out without one Request to renew it, handed to the tether
\* driver, and none is renewed twice, however short the lease is; provided that
\* the server and, before half of the lease was over, the gateway were known:
\* SendDhcpRenew sends nothing without them, and is not called again.
Expires == stack.configured /\ ~stack'.configured /\ started' /\ ~failed'
Renewable == /\ stack.server # None /\ stack.mac # None
             /\ ~blind
RenewedBeforeExpiry ==
  [][Expires /\ Renewable => renewals' = 1 \/ late]_stackVars

\* The address in use is the one last offered, although Offers and answers to
\* repeated requests overtake each other.
AddressIsOffered ==
  stack.configured /\ stack.offered # None =>
    stack.ip = stack.offered \/ late \/ reused

\* A phone that answers in the end gives the console its lease: the requests are
\* repeated, and late replies do not stop them.
LeaseIsObtained == started ~> stack.configured \/ ~started
=============================================================================
