----------------------------- MODULE TlsStream ------------------------------
(***************************************************************************)
(* The TCP stream of the licence check and the HTTPS fetch over it         *)
(* (tls/b9c_stream.cpp, tls/bearssl_https.cpp, tls/deadline.h).            *)
(*                                                                         *)
(* Two threads share the stream: the check thread runs the fetch and polls *)
(* for what arrives; the tether Worker hands it frames, one at a time.     *)
(* The network loses, repeats and reorders segments: whatever the server   *)
(* has sent may arrive now, later, again or never.  The stream repeats     *)
(* nothing it sends, and the server repeats what is not acknowledged.      *)
(*                                                                         *)
(* Data are units, numbered as they leave the server; the server's first   *)
(* unit answers the first unit of the request, the rest follow the whole   *)
(* request.  The TLS library is outside: it wants each unit of the request *)
(* written and the answers read, and when Read returns 0 it asks again or  *)
(* gives up.  Sequence numbers start at 0 on both sides.                   *)
(***************************************************************************)
EXTENDS Naturals, Sequences

CONSTANTS
  Asked,     \* units of the request
  Sent,      \* units of the server's answer, the first of the TLS handshake
  Lengths,   \* of the body, as the header may give them
  Capacity,  \* of the ring, 16384 bytes in the code
  ReadMax    \* units the TLS library reads at a time

\* The request follows a handshake that the server has answered.
ASSUME SizesAssumption ==
  /\ Asked \in Nat \ {0, 1} /\ Sent \in Nat \ {0}
  /\ Lengths \subseteq 0..(Sent + 1) /\ Lengths # {}
  /\ Capacity \in Nat \ {0} /\ ReadMax \in Nat \ {0}

Units    == 1..Sent
Fetcher  == "check thread"
Worker   == "tether Worker"
Nobody   == "nobody"
NoLength == Sent + 1  \* the header gives none

R == INSTANCE FrameRing WITH Depth <- Capacity, Frame <- Units, NoFrame <- 0

VARIABLES
  configured,  \* configured_
  dnsDone,     \* dns_done_
  resolved,    \* resolved_ip_ is an address
  remote,      \* remote_ip_ is set
  connected,   \* connected_
  closed,      \* closed_
  failed,      \* failed_
  sendSeq,     \* send_seq_
  recvSeq,     \* recv_seq_
  peerAck,     \* peer_ack_
  ring,        \* rx_ with rx_head_, rx_tail_ and rx_count_
  rxLock,      \* the thread that holds rx_lock_
  expired,     \* Deadline::Expired
  pc,          \* where each thread is
  asked,       \* units of the request that Write has sent
  read,        \* the units that the TLS library has got
  result,      \* what FetchFixedLicenceFile returned
  segment,     \* the segment that the Worker is working on
  queried,     \* a DNS query has left
  synSent,     \* a SYN has left
  got,         \* units of the request that the server has
  served,      \* units that the server has sent; Sent + 1 with its FIN
  declared,    \* the body length in the header, or NoLength
  acked,       \* history: the highest number acknowledged to the server
  eof,         \* history: Read returned 0
  early,       \* history: the stream closed before its end was reached
  reopened     \* history: a late SYN-ACK connected a stream that had closed

flags   == <<configured, dnsDone, resolved, remote, connected, closed, failed>>
numbers == <<sendSeq, recvSeq, peerAck>>
buffer  == <<ring, rxLock>>
fetch   == <<asked, read, result>>
server  == <<queried, synSent, got, served, declared>>
ghosts  == <<acked, eof, early, reopened>>
streamVars ==
  <<flags, numbers, buffer, expired, pc, fetch, segment, server, ghosts>>

Results  == {"none", "ok", "dns", "connect", "tls", "http", "tooLarge",
             "timedOut"}
FetchPc == {"idle", "query", "resolve", "reset", "syn", "sequence",
              "connect", "engine", "write", "advance", "acknowledge", "pop",
              "take", "testFailed", "testClosed", "zero", "abort",
              "close", "judge", "done"}
WorkerPc  == {"none", "segment", "lock", "push", "accept", "reply", "flags",
              "fail"}

(***************************************************************************)
(* A segment: the number of its unit, whether it has that unit, its        *)
(* acknowledgement, and its flags.                                         *)
(***************************************************************************)
Segment == [seq : 0..(Sent + 1), data : BOOLEAN, ack : 0..(Asked + 1),
            syn : BOOLEAN, fin : BOOLEAN, rst : BOOLEAN]
Plain     == [seq |-> 0, data |-> FALSE, ack |-> 0, syn |-> FALSE,
              fin |-> FALSE, rst |-> FALSE]
NoSegment == Plain

StreamTypeOK ==
  /\ {configured, dnsDone, resolved, remote, connected, closed, failed}
       \subseteq BOOLEAN
  /\ sendSeq \in 0..(Asked + 1) /\ peerAck \in 0..(Asked + 1)
  /\ recvSeq \in 0..(Sent + 2)
  /\ ring \in R!Ring
  /\ rxLock \in {Fetcher, Worker, Nobody}
  /\ expired \in BOOLEAN
  /\ pc[Fetcher] \in FetchPc /\ pc[Worker] \in WorkerPc
  /\ asked \in 0..Asked
  /\ read \in Seq(Units)
  /\ result \in Results
  /\ segment \in Segment
  /\ {queried, synSent, eof, early, reopened} \subseteq BOOLEAN
  /\ got \in 0..Asked /\ served \in 0..(Sent + 1)
  /\ declared \in Lengths
  /\ acked \in 0..(Sent + 2)

At(t, p)   == pc[t] = p
Goto(t, p) == pc' = [pc EXCEPT ![t] = p]

\* A server may say nothing of the length, say what it sends, or break off.
StreamInit ==
  /\ configured = FALSE /\ dnsDone = FALSE /\ resolved = FALSE
  /\ remote = FALSE /\ connected = FALSE /\ closed = FALSE /\ failed = FALSE
  /\ sendSeq = 0 /\ recvSeq = 0 /\ peerAck = 0
  /\ ring = R!EmptyRing /\ rxLock = Nobody
  /\ expired = FALSE
  /\ pc = [t \in {Fetcher, Worker} |-> IF t = Fetcher THEN "idle" ELSE "none"]
  /\ asked = 0 /\ read = <<>> /\ result = "none"
  /\ segment = NoSegment
  /\ queried = FALSE /\ synSent = FALSE /\ got = 0 /\ served = 0
  /\ declared \in Lengths
  /\ acked = 0 /\ eof = FALSE /\ early = FALSE /\ reopened = FALSE

\* SendTcp acknowledges what recv_seq_ is when the segment is built; whether
\* the tether driver takes it is not up to the stream.
Acknowledges == acked' = IF recvSeq > acked THEN recvSeq ELSE acked

\* FetchFixedLicenceFile returns; a result of its own counts only in time.
Returns(r) == /\ result' = IF expired THEN "timedOut" ELSE r
              /\ Goto(Fetcher, "done")

-----------------------------------------------------------------------------
(* B9cTcpStream::Configure, which MaybeStartCheck calls on the Worker's    *)
(* thread when no check runs, and the start of the next fetch.             *)

Configure ==
  /\ pc[Fetcher] \in {"idle", "done"} /\ At(Worker, "none")
  /\ configured' = TRUE /\ dnsDone' = FALSE /\ resolved' = FALSE
  /\ remote' = FALSE /\ connected' = FALSE /\ closed' = FALSE
  /\ failed' = FALSE
  /\ sendSeq' = 0 /\ recvSeq' = 0 /\ peerAck' = 0
  /\ ring' = R!EmptyRing /\ rxLock' = Nobody
  /\ expired' = FALSE
  /\ Goto(Fetcher, "query")
  /\ asked' = 0 /\ read' = <<>> /\ result' = "none"
  /\ queried' = FALSE /\ synSent' = FALSE /\ got' = 0 /\ served' = 0
  /\ declared' \in Lengths
  /\ acked' = 0 /\ eof' = FALSE /\ early' = FALSE /\ reopened' = FALSE
  /\ UNCHANGED segment

-----------------------------------------------------------------------------
(* ResolveHost.  A frame is sent if the tether driver takes it.            *)

Query ==
  /\ At(Fetcher, "query")
  /\ dnsDone' = FALSE /\ resolved' = FALSE
  /\ \/ queried' = TRUE /\ Goto(Fetcher, "resolve") /\ UNCHANGED result
     \/ Returns("dns") /\ UNCHANGED queried
  /\ UNCHANGED <<configured, remote, connected, closed, failed, numbers,
                 buffer, expired, asked, read, segment, synSent, got,
                 served, declared, ghosts>>

Resolved ==
  /\ At(Fetcher, "resolve") /\ ~expired /\ ~failed /\ dnsDone /\ resolved
  /\ Goto(Fetcher, "reset")
  /\ UNCHANGED <<flags, numbers, buffer, expired, fetch, segment, server,
                 ghosts>>

ResolveFails ==
  /\ At(Fetcher, "resolve")
  /\ expired \/ failed \/ (dnsDone /\ ~resolved)
  /\ Returns("dns")
  /\ UNCHANGED <<flags, numbers, buffer, expired, asked, read, segment,
                 server, ghosts>>

-----------------------------------------------------------------------------
(* Connect.                                                                *)

ConnectReset ==
  /\ At(Fetcher, "reset")
  /\ remote' = TRUE /\ recvSeq' = 0 /\ peerAck' = 0
  /\ closed' = FALSE /\ failed' = FALSE /\ connected' = FALSE
  /\ Goto(Fetcher, "syn")
  /\ UNCHANGED <<configured, dnsDone, resolved, sendSeq, buffer, expired,
                 fetch, segment, server, ghosts>>

SendSyn ==
  /\ At(Fetcher, "syn")
  /\ \/ synSent' = TRUE /\ Goto(Fetcher, "sequence") /\ UNCHANGED result
     \/ Returns("connect") /\ UNCHANGED synSent
  /\ UNCHANGED <<flags, numbers, buffer, expired, asked, read, segment,
                 queried, got, served, declared, ghosts>>

\* A SYN-ACK that comes before this assignment is not taken.
SynNumbered ==
  /\ At(Fetcher, "sequence")
  /\ sendSeq' = 1
  /\ Goto(Fetcher, "connect")
  /\ UNCHANGED <<flags, recvSeq, peerAck, buffer, expired, fetch, segment,
                 server, ghosts>>

Connected ==
  /\ At(Fetcher, "connect") /\ ~expired /\ ~failed /\ connected
  /\ Goto(Fetcher, "engine")
  /\ UNCHANGED <<flags, numbers, buffer, expired, fetch, segment, server,
                 ghosts>>

ConnectFails ==
  /\ At(Fetcher, "connect") /\ (expired \/ failed)
  /\ Returns("connect")
  /\ UNCHANGED <<flags, numbers, buffer, expired, asked, read, segment,
                 server, ghosts>>

-----------------------------------------------------------------------------
(* The TLS library, and the loop that reads the answer through it.         *)

BodyRead  == IF Len(read) > 1 THEN Len(read) - 1 ELSE 0
BodyWhole == BodyRead > 0 /\ declared # NoLength /\ declared <= BodyRead
Reading   == asked = Asked /\ Len(read) > 0

\* What is wanted next: a unit of the request after each answer it needs.
EngineWrites ==
  /\ At(Fetcher, "engine") /\ asked < Asked /\ Len(read) >= asked
  /\ Goto(Fetcher, "write")
  /\ UNCHANGED <<flags, numbers, buffer, expired, fetch, segment, server,
                 ghosts>>

EngineReads ==
  /\ At(Fetcher, "engine") /\ (asked = Asked \/ Len(read) < asked)
  /\ Reading => ~expired /\ ~BodyWhole
  /\ Goto(Fetcher, "pop")
  /\ UNCHANGED <<flags, numbers, buffer, expired, fetch, segment, server,
                 ghosts>>

\* A certificate, a record or an answer that the library rejects.
EngineFails ==
  /\ At(Fetcher, "engine")
  /\ Goto(Fetcher, "abort")
  /\ UNCHANGED <<flags, numbers, buffer, expired, fetch, segment, server,
                 ghosts>>

\* The loop is left: the body is there, time is up, or the library reports
\* the end that the server signed.
ReadingEnds ==
  /\ At(Fetcher, "engine") /\ Reading
  /\ BodyWhole \/ expired \/ Len(read) = Sent
  /\ Goto(Fetcher, "close")
  /\ UNCHANGED <<flags, numbers, buffer, expired, fetch, segment, server,
                 ghosts>>

-----------------------------------------------------------------------------
(* Write, one unit: one segment, and a wait for its acknowledgement.       *)

WriteUnconnected ==
  /\ At(Fetcher, "write") /\ ~connected
  /\ Goto(Fetcher, "abort")
  /\ UNCHANGED <<flags, numbers, buffer, expired, fetch, segment, server,
                 ghosts>>

\* Out of time Write returns 0 at once, and the library calls it again: the
\* thread stays here until the stream is not connected any more.
Spins == At(Fetcher, "write") /\ connected /\ expired

WriteSent ==
  /\ At(Fetcher, "write") /\ connected /\ ~expired
  /\ asked' = asked + 1
  /\ Acknowledges
  /\ Goto(Fetcher, "advance")
  /\ UNCHANGED <<flags, numbers, buffer, expired, read, result,
                 segment, server, eof, early, reopened>>

\* SendTcp is refused: Fail.
WriteRefused ==
  /\ At(Fetcher, "write") /\ connected /\ ~expired
  /\ failed' = TRUE /\ connected' = FALSE
  /\ Goto(Fetcher, "abort")
  /\ UNCHANGED <<configured, dnsDone, resolved, remote, closed, numbers,
                 buffer, expired, fetch, segment, server, ghosts>>

WriteNumbered ==
  /\ At(Fetcher, "advance")
  /\ sendSeq' = sendSeq + 1
  /\ Goto(Fetcher, "acknowledge")
  /\ UNCHANGED <<flags, recvSeq, peerAck, buffer, expired, fetch, segment,
                 server, ghosts>>

\* A stream that has failed ends the wait too, and Write reports success.
WriteDone ==
  /\ At(Fetcher, "acknowledge")
  /\ peerAck >= sendSeq \/ (failed /\ ~expired)
  /\ Goto(Fetcher, "engine")
  /\ UNCHANGED <<flags, numbers, buffer, expired, fetch, segment, server,
                 ghosts>>

WriteExpires ==
  /\ At(Fetcher, "acknowledge") /\ peerAck < sendSeq /\ expired
  /\ Goto(Fetcher, "abort")
  /\ UNCHANGED <<flags, numbers, buffer, expired, fetch, segment, server,
                 ghosts>>

-----------------------------------------------------------------------------
(* Read.                                                                   *)

\* Mutant of ReadTry: the stream is tested for its end before the ring.
ReadTryClosedFirst ==
  /\ At(Fetcher, "pop") /\ ~expired
  /\ IF closed
     THEN eof' = TRUE /\ Goto(Fetcher, "zero") /\ UNCHANGED rxLock
     ELSE /\ UNCHANGED eof
          /\ IF rxLock = Nobody
             THEN rxLock' = Fetcher /\ Goto(Fetcher, "take")
             ELSE UNCHANGED rxLock /\ Goto(Fetcher, "testFailed")
  /\ UNCHANGED <<flags, numbers, ring, expired, fetch, segment, server,
                 acked, early, reopened>>

\* Mutant of ReadTry: the poll does not look at the time.
ReadTryUntimed ==
  /\ At(Fetcher, "pop")
  /\ IF rxLock = Nobody
     THEN rxLock' = Fetcher /\ Goto(Fetcher, "take")
     ELSE UNCHANGED rxLock /\ Goto(Fetcher, "testFailed")
  /\ UNCHANGED <<flags, numbers, ring, expired, fetch, segment, server,
                 ghosts>>

\* PopRx: the lock is tried once, and given up if the Worker has it.
ReadTry ==
  /\ At(Fetcher, "pop") /\ ~expired
  /\ IF rxLock = Nobody
     THEN rxLock' = Fetcher /\ Goto(Fetcher, "take")
     ELSE UNCHANGED rxLock /\ Goto(Fetcher, "testFailed")
  /\ UNCHANGED <<flags, numbers, ring, expired, fetch, segment, server,
                 ghosts>>

ReadExpires ==
  /\ At(Fetcher, "pop") /\ expired
  /\ Goto(Fetcher, "abort")
  /\ UNCHANGED <<flags, numbers, buffer, expired, fetch, segment, server,
                 ghosts>>

\* The copy out of the ring, as much as is there and is asked for, and the
\* lock: nobody else looks at the ring while it is held.
ReadTake ==
  /\ At(Fetcher, "take")
  /\ LET n == IF ring.count < ReadMax THEN ring.count ELSE ReadMax
     IN /\ read' = read \o SubSeq(R!Content(ring), 1, n)
        /\ ring' = [ring EXCEPT !.head = (@ + n) % Capacity,
                                !.count = @ - n]
        /\ Goto(Fetcher, IF n = 0 THEN "testFailed" ELSE "engine")
  /\ rxLock' = Nobody
  /\ UNCHANGED <<flags, numbers, expired, asked, result, segment, server,
                 ghosts>>

ReadTestFailed ==
  /\ At(Fetcher, "testFailed")
  /\ Goto(Fetcher, IF failed THEN "abort" ELSE "testClosed")
  /\ UNCHANGED <<flags, numbers, buffer, expired, fetch, segment, server,
                 ghosts>>

ReadTestClosed ==
  /\ At(Fetcher, "testClosed")
  /\ Goto(Fetcher, IF closed THEN "zero" ELSE "pop")
  /\ eof' = (eof \/ closed)
  /\ UNCHANGED <<flags, numbers, buffer, expired, fetch, segment, server,
                 acked, early, reopened>>

\* What the library makes of a Read that returned 0.
EngineAtZero ==
  /\ At(Fetcher, "zero")
  /\ Goto(Fetcher, "pop") \/ Goto(Fetcher, "abort")
  /\ UNCHANGED <<flags, numbers, buffer, expired, fetch, segment, server,
                 ghosts>>

-----------------------------------------------------------------------------
(* Close, and what FetchFixedLicenceFile makes of what it has read.        *)

\* Close sends a FIN if the stream is connected; it is not looked at again.
Shuts == /\ connected' = FALSE /\ closed' = TRUE
         /\ IF connected THEN Acknowledges ELSE UNCHANGED acked

Abort ==
  /\ At(Fetcher, "abort")
  /\ Shuts
  /\ Returns("tls")
  /\ UNCHANGED <<configured, dnsDone, resolved, remote, failed, numbers,
                 buffer, expired, asked, read, segment, server, eof,
                 early, reopened>>

Close ==
  /\ At(Fetcher, "close")
  /\ Shuts
  /\ Goto(Fetcher, "judge")
  /\ UNCHANGED <<configured, dnsDone, resolved, remote, failed, numbers,
                 buffer, expired, fetch, segment, server, eof, early,
                 reopened>>

\* A body of the length the header gives; without a length, the whole.
Complete == /\ BodyRead > 0
            /\ declared # NoLength => declared <= BodyRead

\* The header, its status and the size of the body may always be wrong.
Judge ==
  /\ At(Fetcher, "judge")
  /\ \/ Complete /\ Returns("ok")
     \/ Returns("http")
     \/ Returns("tooLarge")
  /\ UNCHANGED <<flags, numbers, buffer, expired, asked, read, segment,
                 server, ghosts>>

CheckThread ==
  \/ Query \/ Resolved \/ ResolveFails
  \/ ConnectReset \/ SendSyn \/ SynNumbered \/ Connected \/ ConnectFails
  \/ EngineWrites \/ EngineReads \/ EngineFails \/ ReadingEnds
  \/ WriteUnconnected \/ WriteSent \/ WriteRefused \/ WriteNumbered
  \/ WriteDone \/ WriteExpires
  \/ ReadTry \/ ReadExpires \/ ReadTake \/ ReadTestFailed
  \/ ReadTestClosed \/ EngineAtZero
  \/ Abort \/ Close \/ Judge

-----------------------------------------------------------------------------
(* B9cTcpStream::OnEthernetFrame on the Worker's thread, while a check     *)
(* runs.  A frame that is not the stream's is left out.                    *)

CheckRuns == pc[Fetcher] \notin {"idle", "done"}

\* An answer with an address ends the wait, and so does one without.
DnsReply ==
  /\ At(Worker, "none") /\ CheckRuns /\ configured /\ queried
  /\ dnsDone' = TRUE
  /\ resolved' \in {resolved, TRUE}
  /\ UNCHANGED <<configured, remote, connected, closed, failed, numbers,
                 buffer, expired, pc, fetch, segment, server, ghosts>>

Receive(s) ==
  /\ At(Worker, "none") /\ CheckRuns /\ configured /\ remote
  /\ segment' = s
  /\ peerAck' = IF s.ack > peerAck THEN s.ack ELSE peerAck
  /\ Goto(Worker, "segment")
  /\ UNCHANGED <<flags, sendSeq, recvSeq, buffer, expired, fetch, server,
                 ghosts>>

\* The Worker is done with the segment.
Ends == segment' = NoSegment /\ Goto(Worker, "none")

\* While the stream is not connected only the answer to its SYN and a reset
\* count; it is not asked whether the stream was connected before.
Handshake ==
  /\ At(Worker, "segment") /\ ~connected
  /\ \/ /\ segment.syn /\ segment.ack = sendSeq
        /\ recvSeq' = segment.seq + 1
        /\ connected' = TRUE
        /\ reopened' = (reopened \/ closed \/ failed)
        /\ Goto(Worker, "reply")
        /\ UNCHANGED <<failed, segment>>
     \/ /\ ~(segment.syn /\ segment.ack = sendSeq)
        /\ failed' = (failed \/ segment.rst)
        /\ Ends
        /\ UNCHANGED <<connected, recvSeq, reopened>>
  /\ UNCHANGED <<configured, dnsDone, resolved, remote, closed, sendSeq,
                 peerAck, buffer, expired, fetch, server, acked, eof, early>>

InOrder == segment.seq = recvSeq

Sort ==
  /\ At(Worker, "segment") /\ connected
  /\ Goto(Worker, IF ~segment.data THEN "flags"
                  ELSE IF InOrder THEN "lock" ELSE "reply")
  /\ UNCHANGED <<flags, numbers, buffer, expired, fetch, segment, server,
                 ghosts>>

\* PushRx: one try at the lock, and room for the unit.
PushTry ==
  /\ At(Worker, "lock")
  /\ IF rxLock = Nobody
     THEN rxLock' = Worker /\ Goto(Worker, "push")
     ELSE UNCHANGED rxLock /\ Goto(Worker, "fail")
  /\ UNCHANGED <<flags, numbers, ring, expired, fetch, segment, server,
                 ghosts>>

\* Mutant of PushUnit: a unit without room is dropped, not refused.
PushUnitDrops ==
  /\ At(Worker, "push")
  /\ rxLock' = Nobody
  /\ ring' = IF ring.count = Capacity THEN ring
             ELSE R!Appended(R!Filled(ring, segment.seq))
  /\ early' = (early \/ pc[Fetcher] \in {"testFailed", "testClosed"})
  /\ Goto(Worker, "accept")
  /\ UNCHANGED <<flags, numbers, expired, fetch, segment, server, acked, eof,
                 reopened>>

PushUnit ==
  /\ At(Worker, "push")
  /\ rxLock' = Nobody
  /\ IF ring.count = Capacity
     THEN Goto(Worker, "fail") /\ UNCHANGED <<ring, early>>
     ELSE /\ ring' = R!Appended(R!Filled(ring, segment.seq))
          /\ early' = (early \/ pc[Fetcher] \in {"testFailed", "testClosed"})
          /\ Goto(Worker, "accept")
  /\ UNCHANGED <<flags, numbers, expired, fetch, segment, server, acked, eof,
                 reopened>>

Accept ==
  /\ At(Worker, "accept")
  /\ recvSeq' = recvSeq + 1
  /\ Goto(Worker, "reply")
  /\ UNCHANGED <<flags, sendSeq, peerAck, buffer, expired, fetch, segment,
                 server, ghosts>>

Reply ==
  /\ At(Worker, "reply")
  /\ Acknowledges
  /\ IF segment.syn THEN Ends ELSE Goto(Worker, "flags") /\ UNCHANGED segment
  /\ UNCHANGED <<flags, numbers, buffer, expired, fetch, server, eof, early,
                 reopened>>

\* A FIN closes the stream whether or not all before it has come; so does a
\* reset.
SegmentEnd == segment.seq + IF segment.data THEN 1 ELSE 0

Flags ==
  /\ At(Worker, "flags")
  /\ closed' = (closed \/ segment.fin \/ segment.rst)
  /\ connected' = (connected /\ ~segment.fin /\ ~segment.rst)
  /\ recvSeq' = IF segment.fin /\ SegmentEnd = recvSeq THEN recvSeq + 1
                ELSE recvSeq
  /\ acked' = IF segment.fin /\ recvSeq' > acked THEN recvSeq' ELSE acked
  /\ early' = (early \/ segment.rst \/ (segment.fin /\ SegmentEnd # recvSeq))
  /\ Ends
  /\ UNCHANGED <<configured, dnsDone, resolved, remote, failed, sendSeq,
                 peerAck, buffer, expired, fetch, server, eof, reopened>>

\* PushRx has refused a unit.
PushFails ==
  /\ At(Worker, "fail")
  /\ failed' = TRUE /\ connected' = FALSE
  /\ Ends
  /\ UNCHANGED <<configured, dnsDone, resolved, remote, closed, numbers,
                 buffer, expired, fetch, server, ghosts>>

WorkerStep ==
  \/ Handshake \/ Sort \/ PushTry \/ PushUnit \/ Accept
  \/ Reply \/ Flags \/ PushFails

-----------------------------------------------------------------------------
(* The server, the network and time, as long as a check runs.              *)

Acks == 1..(got + 1)

\* What may arrive: anything the server has sent, or a reset.  What data
\* acknowledges arrives as a segment of its own.
Arriving ==
  IF ~synSent THEN {}
  ELSE {[Plain EXCEPT !.syn = TRUE, !.ack = 1], [Plain EXCEPT !.rst = TRUE]}
       \cup {[Plain EXCEPT !.ack = a] : a \in Acks}
       \cup {[Plain EXCEPT !.seq = i, !.data = TRUE] :
               i \in {u \in Units : u <= served}}
       \cup (IF served <= Sent THEN {}
             ELSE {[Plain EXCEPT !.seq = Sent, !.data = TRUE, !.fin = TRUE],
                   [Plain EXCEPT !.seq = Sent + 1, !.fin = TRUE]})

Arrives == \E s \in Arriving : Receive(s)

ServerGets ==
  /\ CheckRuns /\ got < asked
  /\ got' = got + 1
  /\ UNCHANGED <<flags, numbers, buffer, expired, pc, fetch, segment, queried,
                 synSent, served, declared, ghosts>>

\* The first unit answers the first of the request, and its end the rest.
ServerSends ==
  /\ CheckRuns
  /\ served < (IF got = 0 THEN 0 ELSE IF got < Asked THEN 1 ELSE Sent + 1)
  /\ served' = served + 1
  /\ UNCHANGED <<flags, numbers, buffer, expired, pc, fetch, segment, queried,
                 synSent, got, declared, ghosts>>

Expire ==
  /\ CheckRuns /\ ~expired
  /\ expired' = TRUE
  /\ UNCHANGED <<flags, numbers, buffer, pc, fetch, segment, server, ghosts>>

StreamNext ==
  \/ Configure
  \/ CheckThread
  \/ DnsReply \/ Arrives \/ WorkerStep
  \/ ServerGets \/ ServerSends
  \/ Expire

\* Both threads are scheduled and time passes; the network and the server
\* owe nothing.
StreamSpec ==
  /\ StreamInit /\ [][StreamNext]_streamVars
  /\ WF_streamVars(CheckThread) /\ WF_streamVars(WorkerStep)
  /\ WF_streamVars(Expire)

-----------------------------------------------------------------------------
(* Properties.                                                             *)

\* However segments are lost, repeated or reordered, the library has been
\* given, and will be given from the ring, the units as the server sent them;
\* and nothing is acknowledged, and so given up by the server, that is not among
\* them: SendTcp acknowledges from one thread while PushRx works in the other.
\* A stream that a repeated SYN-ACK has opened again counts from the start.
StreamIsKept ==
  LET units == read \o R!Content(ring)
  IN reopened \/ /\ \A i \in DOMAIN units : units[i] = i
                 /\ \A u \in Units : u < acked => u <= Len(units)

\* Read reports an end only when the library has everything, unless the
\* stream was closed early: by a reset, by a FIN that overtook data, or while
\* Read stood between the ring and its tests.
EofIsTrue == eof => Len(read) = Sent \/ early

\* The one deadline ends the fetch wherever it stands, except where Write
\* returns 0 to a library that calls it again.
FetchEnds == At(Fetcher, "query") ~> (At(Fetcher, "done") \/ Spins)
=============================================================================
