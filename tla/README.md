# Verification of the iPhone Tether 360 core

TLA+ models of `Core.xex`, the resident part of iPhoneTether360: model-checked
with TLC on small instances, and proved with TLAPS where a property should hold
for every number of phones and threads. The source paths below are relative to
the repository root; the code is under `src/`.

Contents: [system](#the-system), [hard behaviours](#what-is-hard-here),
[modules](#modules), [runs](#runs), [findings](#what-the-code-does-not-keep),
[fairness](#fairness), [proofs](#proofs), [limits](#what-is-not-modelled),
[plan](#plan).

## The system

An iPhone exposes two USB interfaces that matter. The *usbmux* driver speaks
lockdown over the first one and pairs with the phone. The *tether* driver sets up
the second one as an Ethernet device, runs a small network stack on it, asks the
licence runtime for a verdict, and then bridges frames between the phone and the
native network stack of the console.

| component | state it keeps | operations | correct when |
|---|---|---|---|
| usbmux pairing driver, `usbmux_probe.cpp`, `pair_session.cpp`, `pair_link.cpp` | `gCtx` (state, transmit queue, transfers), session state, `gDeviceGeneration`, `gTrustRetryActive`, the ready flag | AddDevice, RemoveDevice, EP0/Bulk completions, `TrustRetryThread` | ready only for the phone that accepted; one retry thread; no phone touched by a thread of another; a live pairing can hear the phone |
| tether driver, `tether_driver.cpp` | `gCtx` (state, MAC, control block, carrier, frame queues, transfers), `gGeneration`, `gWorkerActive`, connection serial, probe flag | AddDevice, RemoveDevice, completions, `Worker`, `SendEthernet` | one Worker at a time, every phone gets one, bridge follows carrier and gate; one Bulk OUT and always one Bulk IN; frames in order, and sent in the end |
| licence runtime, `license/license_runtime.cpp` | state, gate, current and last attempted connection, check thread flag, TCP stream | Begin/EndPhoneConnection, MaybeStartCheck, `CheckWorker` | one attempt per connection, verdict and gate agree, a definitive verdict persists |
| native XNet bridge, `native_net/xnet_bridge.cpp` | callbacks, active flag, frame queue, two try-locks | UpdateTransportState, PhoneDetached, transmit callback, drain | frames in order, once; locks given back; addresses whole; no frame meets the next phone except in named races |
| network stack, `net_stack.cpp` | DHCP lease, gateway MAC, DNS and TCP clients, timers | Start, Reset, OnEthernetFrame, TickOneSecond | configured no longer than a lease named for it, renewed once; the address is the one last offered; asks until answered |
| pair store, `pair_store.cpp` | one file per phone on up to five roots | Save, Load, Delete | a session uses the phone's own record; a saved record is found again; a refused one, and any older, does not come back |
| diagnostics, `diag.cpp`, `shared/notify.cpp` | log ring, notification queue, seen mask, current phone | Log, Notify, Begin/EndPhoneConnection, its Worker | no notification of a phone that has left; each once |
| TLS stream, `tls/b9c_stream.cpp`, `tls/bearssl_https.cpp` | ring buffer, TCP client state, deadline | Configure, OnEthernetFrame, Read, Write, Close, FetchFixedLicenceFile | bytes delivered in order, once; nothing acknowledged that is lost; an end only where the server ended; every fetch ends |
| parsers: `mux_proto.cpp`, `lockdown_probe.cpp`, `ipheth_ncm.cpp`, `pair_protocol.cpp`, `license/license_document.cpp`, `native_net/frame_translate.cpp` | none | pure | lengths never exceed the buffer; reference meaning |
| crypto and identity: `pair_crypto_provider.cpp`, `pair_identity.cpp`, `der_x509.cpp`, `sha256.cpp`, `base64.cpp`, `license/license_id.cpp`, `license/cpu_key.cpp` | the embedded identity, and how much of it was handed out | pure otherwise | test vectors |
| early trace, `early_trace.cpp` | two file handles, the checkpoints in memory, ready flags, a lock | checkpoints, ConfigureApplicationPaths | what was reported is on the disk; Boot.log takes over whole |
| start-up: `entry.cpp`, `plugin.cpp`, `hook17559.cpp`, `loader/`, `shared/boot_log.cpp` | one-shot flags | DLL entry, hook installation | each started once |
| platform, `platform/xbox_platform.cpp` | none | threads, atomics, files | trusted |

How they interact:

- The USB stack calls both drivers from one callback thread: AddDevice,
  RemoveDevice and transfer completions do not overlap each other.
- `usbmux_probe` raises `it360_link`'s ready flag; the tether `Worker` polls it
  before it starts the set-up.
- Tether AddDevice/RemoveDevice call the licence runtime's and the diagnostics'
  Begin/EndPhoneConnection and the bridge's PhoneDetached, on the USB thread. The
  Worker calls MaybeStartCheck, the network stack and UpdateTransportState.
- Licence `CheckWorker` runs on its own thread, writes the gate, and uses a TCP
  stream whose frames the tether Worker delivers and sends.
- XAM calls the bridge's transmit callback on a thread of its own.

## What is hard here

Contexts are shared between the USB thread and detached threads with no lock:
fields are plain or single atomic words, and every decision that reads two of
them can be overtaken. Detached threads outlive the phone they were started for;
a generation number tells them, if they look at the right moment. `PROJECT.json`
lists the hazards, each at its line with the properties that cover it. In short:

- check-then-act on two words (state and active flag, connection and gate,
  generation and attached, `controlBusy`, `txBusy`);
- a claim flag (`gWorkerActive`, `gTrustRetryActive`, `check_active`) that must be
  neither lost nor doubled when a thread ends, cannot be created, or hands over;
- arguments evaluated before a detach and used after it;
- failures reported inside a helper and overwritten by its caller;
- retries that start again; requests that refuse and are ignored;
- bounded queues, and a receive that must be re-armed on every path;
- locks that are tried and not waited for, with a different way out in each caller;
- a stream shared by the thread that polls it and the one that feeds it, over a
  network that loses, repeats and reorders;
- a copy of one file on each of several drives, any of which may be absent;
- replies that are late, repeated, or left from an earlier run with the same ids;
- files that fail, or lose what was not flushed, at any point of a handoff.

## Modules

| module | models | notes |
|---|---|---|
| `LicenceRuntime` | `license/license_runtime.cpp` with its three calling threads | one record with a program counter per thread; each access of a word another thread uses is one step |
| `LicenceAttempts` | the promise of `license_runtime.h`: attempts of phones, without threads | abstract specification of `LicenceRuntime` |
| `TetherDriver` | `tether_driver.cpp`: contexts, Worker threads, control requests, bridge activation | pairing and gate are inputs |
| `UsbmuxPairing` | `usbmux_probe.cpp`, `pair_session.cpp`, `pair_link.cpp` | message contents and the pair store are inputs |
| `XnetBridge` | `native_net/xnet_bridge.cpp` with the threads that call it | try-locks, each access behind them a step |
| `TetherQueues` | `tether_driver.cpp`: the two frame queues, the Bulk transfers, and the three threads that use them | the set-up is one step; whoever calls `SendEthernet` is a thread |
| `TlsStream` | `tls/b9c_stream.cpp`, `tls/bearssl_https.cpp`, `tls/deadline.h` | the check thread, the Worker, the network and the server |
| `FrameRing`, `FrameQueue` | the ring of frame slots; the bounded FIFO it stands for | the ring is used by the bridge, both queues of the driver and the stream; `FrameQueue` is the abstract specification of the bridge's queue |
| `NetStack` | `net_stack.cpp` and the rounds of the Worker that drive it | replies lost, late, overtaken or left over |
| `Notices` | the notifications of `diag.cpp` | the queue, its mask and the active phone, behind a lock that is tried |
| `BootTrace` | `early_trace.cpp` | file failures and power cuts around the handoff |
| `PairStore` | `pair_store.cpp`, the file functions of `platform/xbox_platform.cpp`, and the calls in `usbmux_probe.cpp` | drives that fail, move and lose power |
| `FrameTranslate`, `NcmBlocks`, `LicenceDocument` | `native_net/frame_translate.cpp`, `ipheth_ncm.cpp`, `license/license_document.cpp` | pure algorithms, as operators |
| `Formats` | | feeds the three with inputs and compares them with what they are for |
| `MC...` | the instances that TLC checks | |
| `Licence_proofs` (`LicenceRuntime`, `TlsStream`), `TetherDriver_proofs`, `UsbmuxPairing_proofs`, `FrameRing_proofs`, `DataPath_proofs` (`TetherQueues`, `NetStack`, `Formats`), `Diagnostics_proofs` (`BootTrace`, `Notices`), `XnetBridge_proofs`, `PairStore_proofs` | | theorems |

### LicenceRuntime

The variables are the atomic words of `Runtime`, the probe flag and the connection
serial of the tether driver, and `usb`, `tether` and `checker`, which say where
each thread is and what it has read. `BeginPhoneConnection` is three steps
(publish the connection, read the state, write the gate), `MaybeStartCheck` is
one step per test, `CheckWorker` one per test and write. `SetStateAndGate` is two
steps because it writes two words. Folded together are accesses no other thread
can tell apart: `last_attempt_connection` is used by the tether Worker only,
`current_connection` is written by the USB thread only. What the document, the
HTTPS client and the ID derivation give is a choice (`Outcome`, `CheckDerive`).
`attempted`, `decided` and `overlapped` are history variables.

### TetherDriver

An actor is a Worker slot or the USB thread; `pc` says where it is, `gen` is the
generation a Worker was started with. `AddDevice` is split where a Worker of the
phone before can observe the difference: context zeroed and attached, bulk
endpoints found, EP0 opened, generation raised, `StartWorker`. `QueueControl` is
split between its tests and its writes when a Worker calls it. A completion is one
step: it writes words that a Worker reads one at a time, and its reads are of its
own words. The Worker's round goes through its reads in program order;
the arguments of `UpdateTransportState` are evaluated in two steps (link, gate).
`DeviceHeld` and `inFlight` stand for the USB stack: it accepts transfers only
between AddDevice and the end of RemoveDevice, and returns what it holds.

### UsbmuxPairing

`ctx` is `gCtx` reduced to its control: whether a Bulk IN is armed, a Bulk OUT
busy, how many packets are queued, how many requests the phone still has to
answer, and whether a Pair frame exists. It also holds the session state of
`pair_session.cpp` and the ready flag, because one handler writes them together. A
handler is an expression for the set of contexts it may leave; `Enqueue`, `PumpTx`
and `Fail` compose as in the code, so a transfer that cannot be started fails the
pairing inside `Enqueue` and the caller then overwrites `ProbeFailed`, which is
what the code does. Callbacks are one step each. `PairPending` is not: it starts a
thread, so `StartTrustRetry` and the acknowledgement after it are further steps.
`TrustRetryThread` is one step per read. `interfered` records that a retry thread
wrote after what it had tested changed: `SessionAgrees` and `PairingHears` speak
of pairings without that race.

### XnetBridge

XAM's transmitting threads (`Xam`), the Worker and the USB thread are actors with
a program counter each. `TryLock` spins for a bounded time: it takes a lock that is
free and may give up on one that is held; there is no waiting, so an operation
that does not get its lock goes on in its own way (drop the frame, keep the frames,
skip the switch), which is in its action. The words behind the locks are written in
the steps a reader could tell apart: the copy into a slot and the change of the
indexes, an address while it is being written (`"half"`) and after. A Worker round
calls the four operations in the order of `tether_driver.cpp`; how many frames it
injects and pops is free. A frame carries the phone it was sent for, and `late`
when its callback had passed the test of `active` before `PhoneDetached` cleared
it. `leaky` records the two other ways to the next phone: a flush that did not get
the lock, and a Worker of the phone before that activates the bridge. A bridge whose
XAM exports are missing is left out: every operation of it returns at once.

### NetStack

`stack` is the object's state and is used by the Worker only, so each call is one
step; the concurrency is with the network. A handler is an expression for its
possible results: the stack it leaves, the reply its frames may bring about and the
value it returns. `SendFrame` may refuse any frame, as the driver's transmit queue
does, and what a refusal changes and returns is per call. A reply in flight says
which request it answers and to which address it goes; its options are chosen when
it is received (each may be absent), and a Request may be answered by an ACK, a NAK or
not at all. `replies` survives a restart, because the seed is the same and the
stack cannot tell: an answer to a run that has ended binds an address or validates
the connection like one to this run (`reused` says where that can happen to an
address). `renewals` counts the Requests that `SendDhcpRenew` hands to the driver, by
the change of the transaction id, which nothing else makes; when server or gateway
is not known it returns without sending, and `Renewable` says so. `longest` is the
longest lease named for the address in use: an Offer that comes while a lease is
bound replaces the lease time unconfirmed, by a shorter, a longer or an endless one
(`net_stack.cpp:261`, `154`), and `LeaseIsLive` promises what is then left, that the
address is given up when the longest of them is over. The restart after 600 rounds without validation may come at any
time. The subnet is left out, and the DNS server, which defaults to the gateway.

### Notices

`call` is the call that holds `gQueueLock`; what it does after reading the active
phone is a step of its own, because the two calls of the USB thread write that
word without the lock when they do not get it (`BeginGivesUp`, `EndGivesUp`). Any
call may find the lock taken, by a log line if by nothing else; where giving up
changes nothing it is not a step. Calls of the USB thread are not overtaken by any
other writer and are one step. Three kinds of notice stand for eight: one that a
reset leaves alone and the two that replace each other. `owed` and `told` are
histories of what NotifyPhone was asked for and of what was shown or evicted;
`leaky` marks a phone whose Begin gave up or found notices of a phone before, the
exception of `NoticeReachesUser`. Left out: the log ring, its file, and Shutdown.

### BootTrace

A thread that has `gLock` runs a `job`: chunks, each written and then flushed, to
one of two files. A line is a job of one chunk; ConfigureApplicationPaths has the
whole replay as one job and its farewell in the emergency file as another. Any
write or flush may fail, a write after some of its chunk; opening may fail; a
caller may not get the lock. `PowerCut` keeps what was flushed and any part of the
rest, and starts the Core again on the same files. Until ConfigureApplicationPaths
returns there is one thread (`booted`), afterwards any.

### TetherQueues

`txLock` and `rxLock` say who holds a lock; `pc` where each thread is. The locks
are what `FramesInOrder` is about, so the accesses behind the transmit lock are
steps: the test of the count with the copy into the slot, the change of the
indexes, the copy out. The receive lock has one writer and one reader, each one
step behind it. `SendEthernet` tries its lock up to 512 times and may give up on one that
is held; `PopEthernet`, `ConsumeEthernet` and `PumpTx` try once. Frames are numbered
when they are accepted, so that content and order of a queue are a pair of counters.
`opened` stands for the USB stack: only open endpoints take a transfer, and it may
refuse one at any time. `AddDevice` zeroes the context wherever the threads are;
`stale` records that one of them was in the middle of something, and the properties
then say nothing of that phone. Left out: frames that the driver refuses for their
length and the counters of losses.

### TlsStream

One step per access of a word that the other thread uses: Connect clears, sends
and numbers in three steps, Write in three, Read tests the ring, `failed_` and
`closed_` one after the other, and OnEthernetFrame works through a segment in five.
`served` and `got` are the server: it answers the first unit of the request with one
unit, the whole request with the rest and a FIN, and sends any of it again at any
time; a segment that is lost is one that is not received. Nothing that the stream
sends is repeated, and a lost one is a send that the server does not see. The TLS
library is outside: after a Read that returned 0 it may ask again or give up.
`reopened` and `early` mark the two cases under
[What the code does not keep](#what-the-code-does-not-keep).

### PairStore

`disk` has the file of each drive, and how much of its record is in it:
whole, cut in its last value, or broken before it; the first two parse. `at` says which drive each
of the roots names; `Pull` and `Insert` change it. Save, Load and Delete go
over the roots one at a time; a step of Save is an open, a write (short, refused or
whole) or a close. `PowerCut` may tear what was written since the last one, because
nothing is flushed. The console has one identity: HostID, SystemBUID, keys and
certificates are embedded (`pair_crypto_provider.cpp:91-107`, `141-170`), so
`PublicKeyReply` draws nothing and a phone trusts the console or does not
(`trusts`). A phone that does not, or is given a record that it finds wrong, refuses;
the driver then deletes its record and offers the same identity in a Pair request.
What is of one pairing is the device certificate and the escrow bag: a record has the
number of its pairing for them, so that one which comes back can be told from
one that was written since.

### Formats

Every state is one input of one algorithm, and the properties compare the result
with an independent definition. A frame is a record of the fields that can hold a
hardware address; a document a sequence of tokens (a line is read by index, as in
the code, and judged by sets of lines in the property); a transfer block a header
and a table of pointers, in arithmetic modulo `Word`. The two loops are recursive
functions over their rounds, with one operator for a round (`LoopStep`, `LineStep`),
and an index that a `while` moves on is a `CHOOSE` of where it stops (`SkipWhile`,
`TrimEnd`). `HeaderFloor`, `MaxDpe`, `MinFrame` and `Word` are the code's 108, 22, 14
and 2^32; the run gives them 1, 3, 1 and 16.

## Runs

| run | bounds | question | result |
|---|---|---|---|
| `licence` | 3 connections, fair | are attempts, stream, gate and verdict consistent, do the threads implement `LicenceAttempts`, does every check decide and end, but for the loop around Write? | holds |
| `licence_service_strands` | 1 connection, fair | does a licensing service that answers badly leave the user without networking? | violated |
| `tether` | 2 phones, 2 Worker slots, fair | one Worker, no lost claim, set-up requests in order; does every phone get its Worker, and does the bridge follow gate and carrier? | holds |
| `usbmux` | 2 phones, 2 retry slots, 1 round, queue of 1, fair | one retry thread, ready flag earned, machines agree, receive armed; is a waiting dialog handed a thread of its own? | holds |
| `xnet_bridge` | 2 XAM threads, 2 phones, 3 frames, queue of 2, 2 addresses | is the queue a bounded FIFO, which frames can meet the next phone? | holds |
| `notices` | 2 phones, queue of 2, fair | is a notice shown once unless it was replaced, and none of a phone that has gone? does the queue drain? | holds |
| `boot_trace` | 4 checkpoints, 2 starts, memory for 2 | does a checkpoint reported as persistent survive, is Boot.log whole? | holds |
| `net_stack` | 2 addresses, leases of 1 and 3 s or absent, retry after 2 s, 1 SYN, 2 replies in flight, fair | are lease, address and validation consistent whatever the network does, and is a lease obtained from a phone that answers in the end? | holds |
| `tether_queues` | 2 phones, a transmit ring of 2 and 2 frames, a receive ring of 1, 2 frames a block, 1 error borne, fair | are the transfers known to the driver, are both queues FIFOs, is what was accepted sent? | holds |
| `tls_stream` | request of 2 units, answer of 3, ring of 1, fair | does the library get what the server sent, is an end an end, does a fetch end? | holds |
| `pair_store` | 2 phones of one file name, 2 drives, 2 roots, 2 pairings, 2 moves, 1 power cut | does each phone get its own record, is a saved one found, does a refused one stay away? | holds |
| `formats` | 4 addresses, 2 options, 5 tokens, 4 pointers of which 3 are looked at, a callback that takes 1 frame or all | do the algorithms do what they are for? | holds |

Why the bounds are enough. Every hazard is between one phone and the next one,
so two phones are the least that shows it; three connections for the licence let
the attempt of the first still run while the third arrives. Two thread
slots are a thread that ends and the one that replaces it; a slot that is busy
only means that a creation is refused, and what is said of more of them is proved
below. One round of the retry loop reaches every line of it, and the end of the
loop. A transmit queue
of one is full with the request and overflows with its acknowledgement. Two slots
and three frames let the bridge's ring wrap and overflow; two XAM threads are a pair
that capture and enqueue at once. A lease of one second is the one whose half is
rounded, one of three has a second after its renewal in which it might be asked for
again; two replies in
flight overtake each other, and `MaxReplies` and `MaxSyn` lose what exceeds them,
as the network may. `MaxPhones`, `MaxConnection` and `MaxFrames` bound the session;
`generation` and `inFlight` are bounded by them. A queue of two notices is full with
two of the three kinds, so the third evicts one. Four checkpoints overflow a memory of
two and leave some for after the handoff; a second start finds the files of the
first. A transmit ring of two with two senders is full when the second of them
comes; a block of two frames finds a receive ring of one full; what a ring does when
its indexes run around is proved. A stream's ring of one is full with every unit, and a
request of two units has an answer between them, as the TLS handshake does. Two
roots are one that fails and one that does not, two pairings a record and the one
that replaces it. Three pointers are two frames and the end mark,
of which a callback takes one or both (two frames have an order); a fourth makes a
table that is longer than what is looked at; the values of a pointer and the lengths of
a block lie on both sides of every limit, and one wraps; five tokens make two lines with a comment
mark, or one line of a word between blanks. The usbmux, bridge, boot trace and
queue runs do not check for deadlock: after the last phone, frame or checkpoint
nothing needs to happen.

For each property of a passing run `PROJECT.json` names a mutant: a plausible slip
in one definition (a dropped test, a claim that is kept, a swapped argument) with
which TLC finds the property violated.

## What the code does not keep

One run, `licence_service_strands`, ends in a counterexample to a sentence of
`src/README.md`, which `findings` in `PROJECT.json` quotes: *a licensing service that
is slow can leave the gate Pending* (`tls/b9c_stream.cpp:29`). Once its deadline has
passed Write returns 0 as long as the stream is connected, and the TLS library, for
which only a negative value is a failure, calls it again (`Spins` in `TlsStream`,
`CheckSpins` in `LicenceRuntime`). The check thread is then in that loop until a FIN
or RST of the server comes, which a server or a phone that has gone never sends;
`check_active` stays up, so the phones after it get no check either.

The models reach five windows between two accesses of different threads. The
properties of the runs speak of what is left, and say so with a history variable or
a condition:

- the gate of a licensed phone can stay Pending (`license_runtime.cpp:187-193`): the
  verdict of a check that outlived its phone lands between the read and the write of
  the next phone's BeginPhoneConnection, and no further check is made because the
  state is known;
- a definitive verdict can be overwritten (`license_runtime.cpp:211-213`): the state
  is read before `check_active`, and a check may finish in between;
- a stale attempt can open a newer phone's gate (`license_runtime.cpp:62-67`);
- the bridge can be active with no phone (`tether_driver.cpp:604`);
- a stale Worker can write into the next phone's context (`tether_driver.cpp:533`),
  and the trust retry thread has the same window (`usbmux_probe.cpp:424`;
  `interfered`). In the data path a Worker between the copy out of the queue and the
  submission (`tether_driver.cpp:240-250`) sends a frame of the phone before to the
  new one, with `txBusy` clear (`stale`).

All of them need an unlucky preemption; the fixes are to write under a
compare-exchange or to re-read after writing. The rest is about the network and
the drives:

- A SYN-ACK that comes late opens a stream that has failed or closed
  (`tls/b9c_stream.cpp:30`; `reopened`): only `connected_` is tested.
- A reset or a FIN that overtakes data is taken for the end, and so is a FIN that
  arrives between Read's look at the ring and its test of `closed_` (`early`).
- A unit that the ring does not take, because it is full or its lock is held, fails the
  connection; the window that SYN and ACKs advertise is larger than the ring.
- The SYN leaves before `send_seq_` is set; a SYN-ACK that is faster is not taken, and
  as the stream repeats nothing the server must send it again.
- A pair record that is cut in its last value parses (`Cut` in `PairStore`).
  Copies of a record on drives that were absent when it was replaced or deleted come back
  with them, and are refused by the phone.
- The answer to the last Pair request of the trust retry loop starts another loop
  (`usbmux_probe.cpp:427`, `569`), so a dialog that is left unanswered is asked again
  without end.

## Fairness

Only threads and the USB stack are fair. `WF` on the USB thread's call in progress:
a callback that has begun returns. `WF` on completions: the stack returns a
transfer it has accepted, with or without an error. `WF` on each thread's next
step: the console schedules its threads, and no step of them blocks (all waits are
timed sleeps, all locks are tried). No fairness is assumed of phones, users,
licences, the gate, the network or the pairing: a phone may stay plugged in for
ever, answer nothing, or come and go. `CheckDecides` uses that every wait of the
check has a deadline, so that its end is an ordinary step: `FetchEnds` shows it of
the fetch, and the code of `FinishUnavailable`. The loop around Write is no wait:
`CheckSpinEnds` is not among the steps that are fair.

In `Notices` the call that has the lock goes on, and the logger shows what it has
popped. It pops again and again: `SF`, not `WF`, because the lock is only tried and
is free again and again, not for ever; the logger comes to it after the log ring is
empty, which assumes that lines do not come faster than its file takes them.

In `TlsStream` the check thread and the Worker go on and the deadline passes; the
network and the server owe nothing. In `TetherQueues` the threads go on and the USB
stack returns a transfer: `SF`, because the USB thread has other work in between.
`FramesLeave` is said of a licence check that comes to an end, as its deadline makes
all but those that spin (and these send nothing any more): while it sends it may hold
the lock whenever the Worker tries it.

`LeaseIsObtained` is the only property that assumes something of the phone, and it
says so: strong fairness that one which is asked for a lease again and again answers
a Discover with an Offer that can be requested, and a Request with an ACK. Single
requests and answers may be lost, refused or late without limit.

## Proofs

Checked by TLAPS, for any number of connections, phones and thread slots; the
assumptions are the named `ASSUME`s of the modules (bounds are positive naturals,
the USB thread is not a thread slot, `Nobody` is no thread and no frame, `None`
no phone, drive, file or record).

`Licence_proofs`, the licence runtime. `Invariance` proves the inductive invariant `IInv`, a
conjunction of named parts. The properties alone are not inductive: that the gate
is earned depends on what a thread has already read and is about to write, so
`GateInv` says which outcome stands behind every pending write; `ThreadInv` says
that no check runs while `MaybeStartCheck` is past its test; `AttemptInv` orders
the connection ids, the last attempt and the attempts made; `UsbInv` and
`SerialInv` describe a session in which no phone event met a check. From it follow
`TypeCorrect`, `StreamIsExclusive`, `AttemptOnce`, `GateEarned`,
`SerialGate`, the action property `SerialVerdict`, and `AttemptsRefinement`: the
initial states map to an initial state of `LicenceAttempts`, and every step is a
step of it or a stutter.

`TetherDriver_proofs`. `gWorkerActive` behaves as a lock that changes hands:
`ClaimIsHeld` says that it is up exactly while one actor is in the claim's region
of the code, and that there is only one. Four kinds of step touch the region
(winning the compare-exchange, passing the claim to a created thread, and the two
places that clear it); lemma `QuietSteps` shows that all others leave it alone.
`TetherTypeCorrect`, `SingleWorker` and `ClaimNeverLeaks` follow.
`SetupOrdered` needs more than the property: a request outlives the state that queued
it, and a Worker acts on a state it read some steps before, maybe of the phone before.
`SetupInv` says what still holds then: a request in flight belongs to a phone that is
held (`FlightInv`); beside a set-up request nobody polls or starts another (`OpInv`);
until the phone is ready a request in flight keeps `controlBusy` up (`StateInv`); and
what a Worker read bounds what it may find when it queues (`WorkerInv`). That no
second Worker queues in between is `SingleWorker`.

`UsbmuxPairing_proofs`. The same argument for `gTrustRetryActive` (`RetryClaimIsHeld`):
`RetryClaim`, `SingleRetryThread` and `RetryClaimNeverLeaks`. Type correctness
is a result of its own here, because a handler is composed of operators on
contexts: a chain of lemmas (`FailType`, `PumpTxType`, `EnqueueType`, `SendType`,
`RequestType`, `RearmType`, `AnswerType`) shows that each stays within `Context`,
so that no handler takes an entry from an empty queue, and `CompletionType`
combines them for the completions.
`ReadyEarned`, `SessionsAgree` and `PairingListens` follow the same operators: `Leads` and
`After` say what each does to the state, the session, the ready flag and the armed
receive, so that a handler is one application of `HandlerKeeps`. The three properties are
inductive together with the types; what a retry thread writes for a state that has changed
sets `interfered`, and the properties speak of the rest.

`Diagnostics_proofs`, the boot trace. `FilesStep` shows that no step takes from a file what was
flushed to it (`FlushedKept`). That a reported checkpoint is there to begin with
needs to know what the thread that holds the lock is about: `JobInv` says that a
line, when it comes to be flushed, is in its file, and `KeptInv` that what was
reported lies before the flushed end of one of the files. `RouteInv` says which
files are open at each stage of the handoff, and with it which one a line goes to.
`TypeCorrect`, `ReadyTrue` and `ReportedKept` follow.
`SelfContainedLog` follows the memory copy through the replay: `HandoffInv` says
that it is the second chunk to be written, then the first, then in the file, then
flushed, and that nothing takes it from there; that the copy is all that came
before is its first conjunct.

`Diagnostics_proofs`, the notifications. Their three invariants hold for any depth of
the queue and any number of phones. A call reads the active phone before it has the
lock, so it may act for one that has gone: `CallerInv` and `SawInv` say that then the
phone plugged in since has neither notices nor anything shown, and that a pop never
takes for one that had gone before it began. `QueueInv` says that the queue has each
kind of each phone once, and no failure behind its recovery; `MaskInv` that the mask
is what was shown and what is queued, whoever resets, evicts or replaces; `ShownInv` and
`PhoneInv` bound which phones these are. What the three removals leave of a
queue is an operator of the model (`Without`), as the increasing list of the places
that stay: that there is such a list, for any length, is the least-number principle
(`LeastNumber`, `ListsExist`).

`FrameRing_proofs`. What the accesses to a ring do, for any number of slots: an
empty ring has no content; filling the slot at the tail leaves the content as it is
while there is room, and moving the indexes then appends the frame; a removal takes
the head of the content off. `Tight`, that the tail lies `count` slots behind the
head, is what each of them needs and keeps.

`DataPath_proofs`, the queues. Both queues are FIFOs (`QueuesInOrder`) for any depth and any
number of frames, from the lemmas on rings and four on consecutive numbers.
`FramesInOrder` is not inductive for the transmit queue: a sender fills the slot in
one step and moves the indexes in a later one. `LockInv` says that whoever is
between its try-lock and the release has the lock, so nobody else comes to the
queue meanwhile, and `FilledInv` that the slot at the tail then holds the next
number and that there is still room. `TransfersKnown` needs besides the property
itself only `ClosedInv`: with no phone, and RemoveDevice done, no endpoint is open
and nothing is in flight, so a phone that is added starts without a transfer.

`DataPath_proofs`, the network stack. `LeaseHolds`, `AddressHolds` and
`EveryLeaseIsRenewed` hold for any addresses, options, lease times and retry
intervals. Neither the lease nor the address would be safe by itself: what makes
them so is what is in flight. `AnswersInv` says that while a renewal is under way
every answer that carries its transaction id has the address in use, so the
Ack that ends it changes nothing but the age; `CountedInv` that a lease not past its
half has not been renewed and one past it was once, unless server or gateway was
missing; `LongestInv` that the lease in use is not longer than the longest that was
named, and its age the time since the ACK, so that a restarted age would show;
`RenewingInv` ties the flag to the lease. Of a step that leaves the lease
alone, `LeaseFrame` says that none of it can change; the handlers that touch it have a
lemma each, about what they make of any stack.

`DataPath_proofs`, the algorithms. The three properties of `Formats` hold for any
addresses, number of options, block, buffer and length of a document; what an input can
look like is `InputInv`, an invariant of the actions that make them. The theorems of the
library that prove by induction cannot be used (they take an operator), and a
recursive function is a `CHOOSE` until a function with its equation is known to exist. Both
are got from the least-number principle (`LeastNumber`): `EveryRound` passes a set of rounds on
from one to the next, `LoopExists` makes the function. `DpeLoopUnfolds` and
`ScanUnfolds` then give the loops their equations, and each has an invariant over its rounds.
`AfterPointers` says that the frames delivered are those of the first
pointers, all good, and why the next one ended the loop; that a pointer is good is by
`PointsInside` the same in the arithmetic of the code, as long as the block is no longer than the
buffer and the buffer than a word. `AfterLines` says that what the loop has seen is what
the lines behind it say. It stands on two lemmas about one round: there is no line between
two rounds but the round's own (`LineIsNext`), and the loop takes it for what it is
(`LineIsOfKind`). Of the translation, the options are what is not obvious: how far
the loop over them comes depends on their codes only, which it does not change, so the way back
undoes the way out (`OptionsReturn`). `FormatsAssumption` asks that console and
phone have different addresses, that a header is not empty, and that the buffer is
shorter than a word; the code's numbers are 108 and 2^32.

`Licence_proofs`, the stream. `StreamIsKept` and `EofIsTrue` hold for requests,
answers and rings of any size. Neither is inductive: both speak of the units, and
what protects the units are the numbers. `CountInv` says that `recv_seq_` is one
ahead of what was read and waits in the ring, but for the step between the ring and
the number; `SegmentInv` that what the Worker has in hand was sent, and that the unit it
pushes is still the next one when it has waited for the lock; from both follows
that the ring gets unit `Got + 1`. That an end is one needs more of the order in which things
happen: `ServerInv` bounds what can have been sent by what the server has got, so that
no FIN can meet a stream that still awaits its SYN-ACK, and `EndInv` says how the stream can
have ended for each place of the fetch. A Read that has found the ring empty and
then finds the stream closed stands on its sixth part: between the two tests the Worker
may be at work on a unit only if that unit is then called early. The ring is used through
`SkippedSkips`, about PopRx, and the two lemmas of the queues.

The theorem assumes `Asked >= 2` (`SizesAssumption`): a request follows a handshake
that the server has answered. It is needed. With a request of one unit a
SYN-ACK that comes again after the FIN, while Write stands between `SendTcp`
and the assignment of `send_seq_`, would still carry the awaited number and open the stream
again; TLC finds `EofIsTrue` violated there. TLS sends at least its hello and
its key before the request, so the code never runs that instance.

`XnetBridge_proofs`. `QueueRefinement` maps every step of the bridge to a step of
`FrameQueue` or a stutter. A frame is put with the change of the indexes and taken
with theirs, so between these and the copy the slots must stay what they are:
`LockInv`, `FillInv` and `TakeInv` say it of a transmitting thread (room, and a frame
in the slot at the tail) and of the Worker (the frame it copied is still the head).
`XamInv` and `PhoneInv` say that what a thread puts there is a frame of some phone. Each
step that touches the queue has a lemma; `QuietStep` is about all others.
`LateFramesCross` needs more than the queue: a frame may be on its way into it
(`CarriedInv`: it is of the phone that is connected, or late) and a callback may pass
the test of `active` (`ActiveInv`: only while the phone is there or RemoveDevice has not
yet cleared the flag). `KeptInv` says what is in the queue before, during and after
the flush; the history variable `leaky` excludes the two races in which it fails.

`PairStore_proofs`. All three properties, for any number of phones, drives, roots and
failures. `StoredInv` is about every file there is, on a drive that is mounted or not: one
that parses is of a pairing that succeeded, and every one is of a pairing after
the last deletion that met every copy; `HandleInv` ties the file that is being written to the session, so that a
write that is cut short leaves nothing else. `SweepInv` says what a deletion has left behind it
so far, and `KeptInv` what is on the drives up to the one of the record last saved; both
need that no two roots name one drive (`DrivesInv`). That LoadPairRecord's loop finds a
first file is the least-number principle (`Least`).

Only model-checked: the liveness properties, all of which need fairness (TLAPS cannot
prove them). Every invariant and every action property of the passing runs is proved.

## What is not modelled

See `components` in `PROJECT.json`. Contents of packets and plists, cryptography,
formatting and logs are left out; whether they parse is an input. So are the
derivation of the licence ID, the trust anchors, the decoding of a chunked body, the
framing of usbmux and lockdown messages, and the flags that keep a progress notice
from being given twice. Where the fields of a frame lie, and the tests of lengths on
the way to them, are in the `kind` of a frame. Start-up and loader are short
sequential programs around module loading: nothing in them is interleaved or retried.
The platform layer, the USB stack, XAM and the TLS engine are external: trusted to
do what the code expects of them, and free to refuse. Data races on multi-byte
buffers (a frame copied while it is overwritten) are not modelled; races on the
control state are. In `UsbmuxPairing` a lockdown message is one packet.

## Plan

Done: the licence runtime, both planes of the tether driver, the pairing driver, the
native bridge, the network stack, the TLS stream, the pair store, the
notifications, the boot trace, and the pure algorithms that judge what a phone or a
server sends. What is left, in this order:

1. `ThreadClaim` - an abstract lock that changes hands; `TetherDriver` and
   `UsbmuxPairing` shown to implement it.
2. `TetherLicence` - composition of `TetherDriver` and `LicenceRuntime`, with the
   gate no longer an input.
3. The framing of usbmux and lockdown messages over a stream of transfers, and the
   decoding of a chunked body, against reference definitions.
