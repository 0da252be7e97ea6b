------------------------ MODULE UsbmuxPairing_proofs ------------------------
(***************************************************************************)
(* Safety of UsbmuxPairing for any set of thread slots, any number of      *)
(* phones, rounds and queue entries.  First the handlers are shown to stay *)
(* within Context, operator by operator as they are composed; then         *)
(* gTrustRetryActive is shown to be a lock that changes hands, held by     *)
(* exactly one actor while it is up; and last, what the state, the session *)
(* and the ready flag say of each other is shown to survive every handler. *)
(***************************************************************************)
EXTENDS UsbmuxPairing, TLAPS

-----------------------------------------------------------------------------
(* The operators a handler is composed of.  Within VersionReply and        *)
(* SynReply the state passes through values that no handler leaves behind, *)
(* so the lemmas are about contexts with a state in any set S.             *)

ContextOf(S) ==
  [attached : BOOLEAN, state : S, control : BOOLEAN, rx : BOOLEAN,
   txBusy : BOOLEAN, out : BOOLEAN, qCount : Nat, frame : BOOLEAN,
   asked : Nat, session : SessionState, ready : BOOLEAN]

\* A lasting context is one whose state lasts.
LEMMA ContextIsLasting == Context = ContextOf(LastingState)
BY DEF Context, ContextOf

\* Fail ends in a state that lasts.
LEMMA FailType ==
  ASSUME NEW S, NEW c \in ContextOf(S)
  PROVE  /\ Fail(c) \in Context
         /\ "Failed" \in S => Fail(c) \in ContextOf(S)
BY DEF Fail, Context, ContextOf, LastingState

\* PumpTx takes an entry only from a queue that has one.
LEMMA PumpTxType ==
  ASSUME NEW S, "Failed" \in S, NEW c \in ContextOf(S)
  PROVE  PumpTx(c) \subseteq ContextOf(S)
<1>1. CASE ~c.attached \/ c.txBusy \/ c.qCount = 0 \/ c.state = "Failed"
  BY <1>1 DEF PumpTx
<1>2. CASE ~(~c.attached \/ c.txBusy \/ c.qCount = 0 \/ c.state = "Failed")
  <2> DEFINE d == [c EXCEPT !.qCount = @ - 1]
             e == [c EXCEPT !.qCount = @ - 1, !.txBusy = TRUE, !.out = TRUE]
  <2>1. c.qCount - 1 \in Nat
    BY <1>2 DEF ContextOf
  <2>2. d \in ContextOf(S)
    BY <2>1 DEF ContextOf
  <2>3. e \in ContextOf(S)
    BY <2>1 DEF ContextOf
  <2>4. Fail(d) \in ContextOf(S)
    BY <2>2, FailType
  <2>5. PumpTx(c) = {e, Fail(d)}
    BY <1>2 DEF PumpTx
  <2> HIDE DEF d, e
  <2> QED
    BY <2>3, <2>4, <2>5
<1> QED
  BY <1>1, <1>2

\* Enqueue adds one entry and may take one.
LEMMA EnqueueType ==
  ASSUME NEW S, "Failed" \in S, NEW c \in ContextOf(S)
  PROVE  Enqueue(c) \subseteq ContextOf(S)
<1>1. Fail(c) \in ContextOf(S)
  BY FailType
<1> DEFINE d == [c EXCEPT !.qCount = @ + 1]
<1>2. d \in ContextOf(S)
  BY DEF ContextOf
<1>3. PumpTx(d) \subseteq ContextOf(S)
  BY <1>2, PumpTxType
<1> QED
  BY <1>1, <1>3 DEF Enqueue

\* A packet that starts a step of the set-up leaves the state it asks for.
LEMMA SendType ==
  ASSUME NEW S, "Failed" \in S, NEW next \in S, NEW c \in ContextOf(S)
  PROVE  Send(c, next) \subseteq ContextOf(S)
<1>1. Fail(c) \in ContextOf(S)
  BY FailType
<1>2. \A d \in Enqueue(c) : [d EXCEPT !.state = next] \in ContextOf(S)
  BY EnqueueType DEF ContextOf
<1> QED
  BY <1>1, <1>2 DEF Send

\* A request leaves a lasting state, whatever state it was sent in.
LEMMA RequestType ==
  ASSUME NEW S, "Failed" \in S, NEW next \in LastingState,
         NEW c \in ContextOf(S)
  PROVE  Request(c, next) \subseteq Context
<1>1. Fail(c) \in Context
  BY FailType
<1>2. ASSUME NEW d \in Enqueue(c)
      PROVE  [d EXCEPT !.state = next,
                       !.asked = IF d.state = "Failed" THEN @ ELSE @ + 1]
               \in Context
  <2> DEFINE asked == IF d.state = "Failed" THEN d.asked ELSE d.asked + 1
  <2>1. d \in ContextOf(S)
    BY <1>2, EnqueueType
  <2>2. asked \in Nat
    BY <2>1 DEF ContextOf
  <2> HIDE DEF asked
  <2>3. [d EXCEPT !.state = next, !.asked = asked] \in Context
    BY <2>1, <2>2 DEF ContextOf, Context
  <2> QED
    BY <2>3 DEF asked
<1> QED
  BY <1>1, <1>2 DEF Request

\* ... and so does the rest of a handler that goes on after a packet.
LEMMA RequestFromType ==
  ASSUME NEW S, "Failed" \in S, NEW next \in LastingState,
         NEW C \in SUBSET ContextOf(S)
  PROVE  RequestFrom(C, next) \subseteq Context
<1>1. ASSUME NEW c \in C
      PROVE  (IF c.state = "Failed" THEN {c} ELSE Request(c, next))
               \subseteq Context
  <2>1. CASE c.state = "Failed"
    BY <2>1 DEF ContextOf, Context, LastingState
  <2>2. CASE c.state # "Failed"
    BY <2>2, RequestType
  <2> QED
    BY <2>1, <2>2
<1> QED
  BY <1>1 DEF RequestFrom

\* QueueRx arms a receive or fails.
LEMMA RearmType ==
  ASSUME NEW C \in SUBSET Context
  PROVE  Rearm(C) \subseteq Context
<1>1. ASSUME NEW c \in C
      PROVE  (IF c.attached /\ c.state # "Failed"
              THEN {[c EXCEPT !.rx = TRUE], Fail(c)} ELSE {c})
               \subseteq Context
  <2>1. Fail(c) \in Context
    BY FailType, ContextIsLasting
  <2>2. [c EXCEPT !.rx = TRUE] \in Context
    BY DEF Context
  <2> QED
    BY <2>1, <2>2
<1> QED
  BY <1>1 DEF Rearm

\* An acknowledgement and the next receive end a handler.
LEMMA AnswerType ==
  ASSUME NEW C \in SUBSET Context
  PROVE  Answer(C) \subseteq Context
<1>1. "Failed" \in LastingState
  BY DEF LastingState
<1>2. ASSUME NEW c \in C
      PROVE  (IF c.state = "Failed" THEN {c} ELSE Enqueue(c)) \subseteq Context
  BY <1>1, EnqueueType, ContextIsLasting
<1>3. Acknowledge(C) \subseteq Context
  BY <1>2 DEF Acknowledge
<1> QED
  BY <1>3, RearmType DEF Answer

\* The same facts for a context between two callbacks, as the handlers use them.
LEMMA FailLasting == ASSUME NEW c \in Context PROVE Fail(c) \in Context
BY FailType, ContextIsLasting

LEMMA RequestLasting ==
  ASSUME NEW next \in LastingState, NEW c \in Context
  PROVE  Request(c, next) \subseteq Context
<1>1. "Failed" \in LastingState
  BY DEF LastingState
<1> QED
  BY <1>1, RequestType, ContextIsLasting

\* Two packets in one handler: the state between them does not last.
LEMMA SendThenRequest ==
  ASSUME NEW mid, NEW next \in LastingState, NEW c \in Context
  PROVE  RequestFrom(Send(c, mid), next) \subseteq Context
<1> DEFINE S == LastingState \cup {mid}
<1>1. "Failed" \in S /\ mid \in S
  BY DEF LastingState
<1>2. c \in ContextOf(S)
  BY DEF Context, ContextOf
<1> HIDE DEF S
<1>3. Send(c, mid) \in SUBSET ContextOf(S)
  BY <1>1, <1>2, SendType
<1> QED
  BY <1>1, <1>3, RequestFromType

\* A reply is taken off the phone only when the phone owes one.
LEMMA TakenType ==
  ASSUME TypeOK, ctx.asked > 0
  PROVE  Taken \in Context
<1>1. ctx.asked - 1 \in Nat
  BY DEF TypeOK, Context
<1> QED
  BY <1>1 DEF Taken, TypeOK, Context

\* A context after AddDevice, and after RemoveDevice.
LEMMA ClearedType == Cleared \in Context
BY DEF Cleared, Context, LastingState, SessionState

-----------------------------------------------------------------------------
(* Type correctness.                                                       *)

\* Completions leave the context in its type.
LEMMA CompletionType ==
  ASSUME TypeOK, Completion
  PROVE  ctx' \in Context
<1>0. ctx \in Context
  BY DEF TypeOK
<1>1. CASE ControlComplete
  <2> DEFINE c == [ctx EXCEPT !.control = FALSE]
             C == Rearm({c})
  <2>1. c \in Context
    BY <1>0 DEF Context
  <2>2. Fail(c) \in Context
    BY <2>1, FailLasting
  <2>3. C \in SUBSET Context
    BY <2>1, RearmType
  <2>4. ctx' = Fail(c) \/ ctx' \in RequestFrom(C, "VersionSent")
    BY <1>1 DEF ControlComplete, Leaves
  <2>5. "Failed" \in LastingState /\ "VersionSent" \in LastingState
    BY DEF LastingState
  <2> HIDE DEF c, C
  <2>6. RequestFrom(C, "VersionSent") \subseteq Context
    BY <2>3, <2>5, RequestFromType, ContextIsLasting
  <2> QED
    BY <2>2, <2>4, <2>6
<1>2. CASE TxComplete
  <2> DEFINE c == [ctx EXCEPT !.txBusy = FALSE, !.out = FALSE]
  <2>1. c \in Context
    BY <1>0 DEF Context
  <2>2. "Failed" \in LastingState
    BY DEF LastingState
  <2>3. ctx' = Fail(c) \/ ctx' \in PumpTx(c)
    BY <1>2 DEF TxComplete, Leaves
  <2> HIDE DEF c
  <2> QED
    BY <2>1, <2>2, <2>3, FailLasting, PumpTxType, ContextIsLasting
<1>3. CASE RxFails
  <2> DEFINE c == [ctx EXCEPT !.rx = FALSE]
  <2>1. c \in Context
    BY <1>0 DEF Context
  <2> QED
    BY <1>3, <2>1, FailLasting DEF RxFails, Leaves
<1>4. CASE RxOther
  <2> DEFINE c == [ctx EXCEPT !.rx = FALSE]
  <2>1. c \in Context
    BY <1>0 DEF Context
  <2>2. Rearm({c}) \subseteq Context /\ Answer({c}) \subseteq Context
    BY <2>1, RearmType, AnswerType
  <2>3. ctx' \in Rearm({c}) \/ ctx' \in Answer({c})
    BY <1>4 DEF RxOther, Leaves
  <2> QED
    BY <2>2, <2>3
<1>5. CASE VersionReply
  <2> DEFINE C == RequestFrom(Send(Taken, "MuxV2"), "SynSent")
  <2>1. Taken \in Context
    BY <1>5, TakenType DEF VersionReply, Answered
  <2>2. C \in SUBSET Context
    BY <2>1, SendThenRequest DEF LastingState
  <2>3. ctx' = Fail(Taken) \/ ctx' \in Rearm(C)
    BY <1>5 DEF VersionReply, Leaves
  <2> HIDE DEF C
  <2> QED
    BY <2>1, <2>2, <2>3, FailLasting, RearmType
<1>6. CASE SynReply
  <2> DEFINE C == RequestFrom(Send(Taken, "Connected"), "QuerySent")
  <2>1. Taken \in Context
    BY <1>6, TakenType DEF SynReply, Answered
  <2>2. C \in SUBSET Context
    BY <2>1, SendThenRequest DEF LastingState
  <2>3. ctx' = Fail(Taken) \/ ctx' \in Rearm(C)
    BY <1>6 DEF SynReply, Leaves
  <2> HIDE DEF C
  <2> QED
    BY <2>1, <2>2, <2>3, FailLasting, RearmType
<1>7. CASE QueryReply
  <2> DEFINE C == {Fail(Taken)} \cup Request(Taken, "GetUdidSent")
  <2>1. Taken \in Context
    BY <1>7, TakenType DEF QueryReply, Answered
  <2>2. C \in SUBSET Context
    BY <2>1, FailLasting, RequestLasting DEF LastingState
  <2>3. ctx' \in Answer(C)
    BY <1>7 DEF QueryReply, Leaves
  <2> HIDE DEF C
  <2> QED
    BY <2>2, <2>3, AnswerType
<1>8. CASE UdidReply
  <2> DEFINE C == {Fail(Taken)} \cup Request(Taken, "ValidatePairSent")
                    \cup Request(Taken, "GetWifiSent")
  <2>1. Taken \in Context
    BY <1>8, TakenType DEF UdidReply, Answered
  <2>2. C \in SUBSET Context
    BY <2>1, FailLasting, RequestLasting DEF LastingState
  <2>3. ctx' \in Answer(C)
    BY <1>8 DEF UdidReply, Leaves
  <2> HIDE DEF C
  <2> QED
    BY <2>2, <2>3, AnswerType
<1>9. CASE ValidateAccepted
  <2> DEFINE c == [Taken EXCEPT !.state = "Validated", !.ready = TRUE]
  <2>1. Taken \in Context
    BY <1>9, TakenType DEF ValidateAccepted, Answered
  <2>2. c \in Context
    BY <2>1 DEF Context, LastingState
  <2>3. ctx' \in Answer({c})
    BY <1>9 DEF ValidateAccepted
  <2> HIDE DEF c
  <2> QED
    BY <2>2, <2>3, AnswerType
<1>10. CASE ValidateRejected
  <2>1. Taken \in Context
    BY <1>10, TakenType DEF ValidateRejected, Answered
  <2>2. Request(Taken, "GetWifiSent") \in SUBSET Context
    BY <2>1, RequestLasting DEF LastingState
  <2>3. ctx' \in Answer(Request(Taken, "GetWifiSent"))
    BY <1>10 DEF ValidateRejected, Leaves
  <2> QED
    BY <2>2, <2>3, AnswerType
<1>11. CASE WifiReply
  <2> DEFINE c == [Taken EXCEPT !.session = "GetValueSent"]
             C == IF Taken.session = "Idle"
                  THEN Request(c, "GetPublicKeySent") ELSE {Fail(Taken)}
  <2>1. Taken \in Context
    BY <1>11, TakenType DEF WifiReply, Answered
  <2>2. c \in Context
    BY <2>1 DEF Context, SessionState
  <2>3. Request(c, "GetPublicKeySent") \subseteq Context
    BY <2>2, RequestLasting DEF LastingState
  <2>4. C \in SUBSET Context
    BY <2>1, <2>3, FailLasting
  <2>5. ctx' \in Answer(C)
    BY <1>11 DEF WifiReply, Leaves
  <2> HIDE DEF C
  <2> QED
    BY <2>4, <2>5, AnswerType
<1>12. CASE KeyReply
  <2> DEFINE made == [Taken EXCEPT !.session = "PairSent", !.frame = TRUE]
             lost == [Taken EXCEPT !.session = "Failed"]
             none == [Taken EXCEPT !.state = "CryptoBlocked"]
             C == {Fail(Taken), none}
                    \cup IF Taken.session = "GetValueSent"
                         THEN {Fail(lost)} \cup Request(made, "PairSent")
                         ELSE {}
  <2>1. Taken \in Context
    BY <1>12, TakenType DEF KeyReply, Answered
  <2>2. made \in Context /\ lost \in Context /\ none \in Context
    BY <2>1 DEF Context, SessionState, LastingState
  <2>3. Request(made, "PairSent") \subseteq Context
    BY <2>2, RequestLasting DEF LastingState
  <2>4. Fail(lost) \in Context /\ Fail(Taken) \in Context
    BY <2>1, <2>2, FailLasting
  <2>5. ctx' \in Answer(C)
    BY <1>12 DEF KeyReply, Leaves
  <2>6. C \in SUBSET Context
    <3> HIDE DEF made, lost, none
    <3> QED
      BY <2>2, <2>3, <2>4
  <2> HIDE DEF C
  <2> QED
    BY <2>5, <2>6, AnswerType
<1>13. CASE PairAccepted
  <2> DEFINE c == [Taken EXCEPT !.session = "Paired", !.state = "Paired",
                               !.ready = TRUE]
  <2>1. Taken \in Context
    BY <1>13, TakenType DEF PairAccepted, PairAnswered, Answered
  <2>2. c \in Context
    BY <2>1 DEF Context, SessionState, LastingState
  <2>3. ctx' \in Answer({c})
    BY <1>13 DEF PairAccepted
  <2> HIDE DEF c
  <2> QED
    BY <2>2, <2>3, AnswerType
<1>14. CASE PairPending
  <2>1. Taken \in Context
    BY <1>14, TakenType DEF PairPending, PairAnswered, Answered
  <2> QED
    BY <1>14, <2>1 DEF PairPending, Context, SessionState, LastingState
<1>15. CASE PairRefused
  <2>1. Taken \in Context
    BY <1>15, TakenType DEF PairRefused, PairAnswered, Answered
  <2>2. \A s \in {"Denied", "Failed"} :
          (IF SessionOpen THEN [Taken EXCEPT !.session = s] ELSE Taken)
            \in Context
    BY <2>1 DEF Context, SessionState
  <2>3. PICK s \in {"Denied", "Failed"} :
          ctx' = Fail(IF SessionOpen THEN [Taken EXCEPT !.session = s]
                                     ELSE Taken)
    BY <1>15 DEF PairRefused, Leaves
  <2> QED
    BY <2>2, <2>3, FailLasting
<1> QED
  BY <1>1, <1>2, <1>3, <1>4, <1>5, <1>6, <1>7, <1>8, <1>9, <1>10, <1>11,
    <1>12, <1>13, <1>14, <1>15
  DEF Completion

\* A step that moves one actor and keeps everything else but the context.
LEMMA StepType ==
  ASSUME TypeOK, ctx' \in Context,
         NEW a \in Actors, NEW p \in UsbPc \cup StartPc \cup RetryPc,
         Goto(a, p),
         UNCHANGED <<generation, retryVars, phones, history>>
  PROVE  TypeOK'
BY DEF TypeOK, Goto, retryVars, history

\* A step of a retry thread that only moves on.
LEMMA MovesType ==
  ASSUME TypeOK, NEW t \in Threads, NEW from,
         NEW p \in UsbPc \cup StartPc \cup RetryPc, Moves(t, from, p)
  PROVE  TypeOK'
<1>1. ctx' \in Context /\ t \in Actors
  BY DEF Moves, TypeOK, Actors
<1> QED
  BY <1>1, StepType DEF Moves

\* Every step keeps the shared words and each thread's locals in their types.
LEMMA TypeOKStep == TypeOK /\ [Next]_vars => TypeOK'
<1> SUFFICES ASSUME TypeOK, [Next]_vars PROVE TypeOK'
  OBVIOUS
<1>0. /\ ctx \in Context /\ Usb \in Actors /\ Threads \subseteq Actors
      /\ Fail(ctx) \in Context
  BY FailLasting DEF TypeOK, Actors
<1>1. CASE AddDevice
  <2> DEFINE c == [Cleared EXCEPT !.attached = TRUE]
             d == [c EXCEPT !.state = "Configuring", !.control = TRUE]
  <2>1. c \in Context /\ d \in Context
    BY DEF Cleared, Context, LastingState, SessionState
  <2>2. ctx' \in {Fail(Cleared), Fail(c), d}
    BY <1>1 DEF AddDevice, Added
  <2> HIDE DEF c, d
  <2>3. ctx' \in Context
    BY <2>1, <2>2, ClearedType, FailLasting
  <2>4. phones' \in 0..MaxPhones
    BY <1>1, BoundsAssumption DEF AddDevice, TypeOK
  <2>5. generation' \in Nat
    BY <1>1 DEF AddDevice, TypeOK
  <2>6. interfered' \in BOOLEAN
    BY <1>1 DEF AddDevice
  <2> QED
    BY <1>1, <2>3, <2>4, <2>5, <2>6 DEF AddDevice, TypeOK, retryVars
<1>2. CASE RemoveDevice
  <2>1. ctx' \in Context
    BY <1>0, <1>2 DEF RemoveDevice, Context
  <2> QED
    BY <1>0, <1>2, <2>1, StepType DEF RemoveDevice, UsbPc
<1>3. CASE RemoveGeneration
  <2>1. generation' \in Nat
    BY <1>3 DEF RemoveGeneration, TypeOK
  <2>2. pc' \in [Actors -> UsbPc \cup StartPc \cup RetryPc]
    BY <1>3 DEF RemoveGeneration, TypeOK, Goto, UsbPc
  <2> QED
    BY <1>3, <2>1, <2>2 DEF RemoveGeneration, TypeOK, retryVars, history
<1>4. CASE RemoveClose
  <2>1. ctx' \in Context
    BY <1>0, <1>4 DEF RemoveClose, Context, Cleared, LastingState
  <2> QED
    BY <1>0, <1>4, <2>1, StepType DEF RemoveClose, UsbPc
<1>5. CASE PendingAck
  <2>1. ctx' \in Context
    BY <1>0, <1>5, AnswerType DEF PendingAck
  <2> QED
    BY <1>0, <1>5, <2>1, StepType DEF PendingAck, UsbPc
<1>6. CASE Completion
  <2>1. ctx' \in Context
    BY <1>6, CompletionType
  <2>2. CASE PairPending
    BY <1>0, <2>1, <2>2, StepType DEF PairPending, StartPc
  <2>3. CASE ValidateAccepted \/ PairAccepted
    BY <2>1, <2>3
    DEF ValidateAccepted, PairAccepted, TypeOK, retryVars
  <2>4. CASE ~(PairPending \/ ValidateAccepted \/ PairAccepted)
    BY <1>6, <2>1, <2>4
    DEF Completion, ControlComplete, TxComplete, RxFails, RxOther,
        VersionReply, SynReply, QueryReply, UdidReply, ValidateRejected,
        WifiReply, KeyReply, PairRefused, Leaves, TypeOK, retryVars, history
  <2> QED
    BY <2>2, <2>3, <2>4
<1>7. ASSUME NEW a \in Actors, StartClaim(a) PROVE TypeOK'
  BY <1>7 DEF StartClaim, TypeOK, Goto, Returned, UsbPc, StartPc, RetryPc,
              history
<1>8. ASSUME NEW a \in Actors, StartReadGeneration(a) PROVE TypeOK'
  BY <1>8 DEF StartReadGeneration, TypeOK, Goto, StartPc, history
<1>9. ASSUME NEW a \in Actors, NEW t \in Threads, StartCreated(a, t)
      PROVE  TypeOK'
  <2>1. pc' \in [Actors -> UsbPc \cup StartPc \cup RetryPc]
    BY <1>9 DEF StartCreated, TypeOK, Returned, UsbPc, RetryPc, LoopPc
  <2>2. gen' \in [Actors -> Nat]
    BY <1>9 DEF StartCreated, TypeOK
  <2>3. attempts' \in [Threads -> 0..MaxAttempts]
    BY <1>9, BoundsAssumption DEF StartCreated, TypeOK
  <2> QED
    BY <1>9, <2>1, <2>2, <2>3 DEF StartCreated, TypeOK, history
<1>10. ASSUME NEW a \in Actors, StartRefused(a) PROVE TypeOK'
  BY <1>10 DEF StartRefused, TypeOK, Goto, StartPc, history
<1>11. ASSUME NEW a \in Actors, StartUnclaim(a) PROVE TypeOK'
  <2>1. retryActive' \in BOOLEAN
    BY <1>11 DEF StartUnclaim
  <2> QED
    BY <1>11, <2>1 DEF StartUnclaim, TypeOK, Goto, StartPc, history
<1>12. ASSUME NEW a \in Actors, StartFailed(a) PROVE TypeOK'
  <2>1. ctx' \in Context /\ Returned(a) \in UsbPc \cup StartPc \cup RetryPc
    BY <1>0, <1>12 DEF StartFailed, Returned, UsbPc, RetryPc
  <2> QED
    BY <1>12, <2>1, StepType DEF StartFailed
<1>13. ASSUME NEW t \in Threads, RetryWake(t) PROVE TypeOK'
  <2>1. attempts' \in [Threads -> 0..MaxAttempts]
    BY <1>13, BoundsAssumption DEF RetryWake, TypeOK
  <2>2. pc' \in [Actors -> UsbPc \cup StartPc \cup RetryPc]
    BY <1>13 DEF RetryWake, TypeOK, Goto, RetryPc, LoopPc
  <2> QED
    BY <1>13, <2>1, <2>2 DEF RetryWake, TypeOK, history
<1>14. ASSUME NEW t \in Threads, RetryCheckGeneration(t) PROVE TypeOK'
  BY <1>14, MovesType DEF RetryCheckGeneration, RetryPc, LoopPc
<1>15. ASSUME NEW t \in Threads, RetryCheckAttached(t) PROVE TypeOK'
  BY <1>15, MovesType DEF RetryCheckAttached, RetryPc, LoopPc
<1>16. ASSUME NEW t \in Threads, RetryCheckEnded(t) PROVE TypeOK'
  BY <1>16, MovesType DEF RetryCheckEnded, RetryPc, LoopPc
<1>17. ASSUME NEW t \in Threads, RetryCheckPending(t) PROVE TypeOK'
  BY <1>17, MovesType DEF RetryCheckPending, RetryPc, LoopPc
<1>18. ASSUME NEW t \in Threads, RetryCheckTx(t) PROVE TypeOK'
  BY <1>18, MovesType DEF RetryCheckTx, RetryPc, LoopPc
<1>19. ASSUME NEW t \in Threads, RetryRestate(t) PROVE TypeOK'
  <2>1. ctx' \in Context
    BY <1>0, <1>19 DEF RetryRestate, Context, LastingState
  <2>2. interfered' \in BOOLEAN
    BY <1>19 DEF RetryRestate, Stale, TypeOK
  <2> QED
    BY <1>19, <2>1, <2>2
    DEF RetryRestate, TypeOK, Goto, RetryPc, LoopPc, retryVars
<1>20. ASSUME NEW t \in Threads, RetrySend(t) PROVE TypeOK'
  <2> DEFINE c == [ctx EXCEPT !.qCount = @ + 1]
             d == [c EXCEPT !.asked = @ + 1]
  <2>1. c \in Context
    BY <1>0 DEF Context
  <2>2. d \in Context
    <3> HIDE DEF c
    <3> QED
      BY <2>1 DEF Context
  <2>3. /\ ctx' \in {ctx, Fail(ctx), c, d}
        /\ Goto(t, "exit") \/ Goto(t, "sleep") \/ Goto(t, "submit")
    BY <1>20 DEF RetrySend
  <2>4. ctx' \in Context
    <3> HIDE DEF c, d
    <3> QED
      BY <1>0, <2>1, <2>2, <2>3
  <2>5. pc' \in [Actors -> UsbPc \cup StartPc \cup RetryPc]
    BY <2>3 DEF TypeOK, Goto, RetryPc, LoopPc
  <2>6. interfered' \in BOOLEAN
    BY <1>20 DEF RetrySend, Stale, TypeOK
  <2> QED
    BY <1>20, <2>4, <2>5, <2>6 DEF RetrySend, TypeOK, retryVars
<1>21. ASSUME NEW t \in Threads, RetrySubmit(t) PROVE TypeOK'
  <2> DEFINE c == [ctx EXCEPT !.qCount = @ - 1]
             d == [c EXCEPT !.txBusy = TRUE, !.out = TRUE, !.asked = @ + 1]
             e == [c EXCEPT !.txBusy = FALSE]
  <2>1. ctx' \in Context
    <3>1. CASE ctx.qCount = 0
      BY <1>0, <1>21, <3>1 DEF RetrySubmit
    <3>2. CASE ctx.qCount # 0
      <4>1. ctx.qCount - 1 \in Nat
        BY <1>0, <3>2 DEF Context
      <4>2. c \in Context
        BY <1>0, <4>1 DEF Context
      <4>3. d \in Context
        <5> HIDE DEF c
        <5>1. c.asked + 1 \in Nat
          BY <4>2 DEF Context
        <5>2. \A n \in Nat : [c EXCEPT !.txBusy = TRUE, !.out = TRUE,
                                       !.asked = n] \in Context
          BY <4>2 DEF Context
        <5> QED
          BY <5>1, <5>2
      <4>4. e \in Context
        <5> HIDE DEF c
        <5> QED
          BY <4>2 DEF Context
      <4>5. ctx' \in {d, Fail(e)}
        BY <1>21, <3>2 DEF RetrySubmit
      <4> HIDE DEF c, d, e
      <4> QED
        BY <4>3, <4>4, <4>5, FailLasting
    <3> QED
      BY <3>1, <3>2
  <2>2. interfered' \in BOOLEAN
    BY <1>21 DEF RetrySubmit, Stale, TypeOK
  <2> QED
    BY <1>21, <2>1, <2>2
    DEF RetrySubmit, TypeOK, Goto, RetryPc, LoopPc, retryVars
<1>22. ASSUME NEW t \in Threads, RetryExit(t) PROVE TypeOK'
  <2>1. retryActive' \in BOOLEAN
    BY <1>22 DEF RetryExit
  <2>2. pc' \in [Actors -> UsbPc \cup StartPc \cup RetryPc]
    BY <1>22 DEF RetryExit, TypeOK, Goto, RetryPc
  <2> QED
    BY <1>22, <2>1, <2>2 DEF RetryExit, TypeOK, history
<1>23. ASSUME NEW t \in Threads, RetryTail(t) PROVE TypeOK'
  BY <1>23, MovesType DEF RetryTail, RetryPc
<1>24. ASSUME NEW t \in Threads, RetryTailState(t) PROVE TypeOK'
  BY <1>24, MovesType DEF RetryTailState, RetryPc
<1>25. ASSUME NEW t \in Threads, RetryTailGeneration(t) PROVE TypeOK'
  BY <1>25, MovesType DEF RetryTailGeneration, RetryPc, StartPc
<1>26. CASE UNCHANGED vars
  BY <1>26 DEF vars, retryVars, history, TypeOK
<1> QED
  BY <1>0, <1>1, <1>2, <1>3, <1>4, <1>5, <1>6, <1>7, <1>8, <1>9, <1>10,
    <1>11, <1>12, <1>13, <1>14, <1>15, <1>16, <1>17, <1>18, <1>19, <1>20,
    <1>21, <1>22, <1>23, <1>24, <1>25, <1>26
  DEF Next, UsbCall, StartTrustRetry, Retry

-----------------------------------------------------------------------------
(* The claim on gTrustRetryActive.                                         *)

\* A step that moves nobody into or out of the claim.
Quiet ==
  /\ retryActive' = retryActive
  /\ \A a \in Actors : Claimed(a)' <=> Claimed(a)

\* A step of one actor that stays on its side of the claim is quiet.
LEMMA QuietMove ==
  ASSUME TypeOK, retryActive' = retryActive,
         NEW a \in Actors, NEW p, Goto(a, p),
         Claimed(a) <=> p \in {"readGeneration", "create", "unclaim", "exit"}
                                \cup LoopPc
  PROVE  Quiet
BY DEF Quiet, TypeOK, Goto, Claimed

\* All steps but the compare-exchange, the creation of a thread and the two
\* places that clear gTrustRetryActive are quiet.
LEMMA QuietSteps ==
  ASSUME TypeOK, [Next]_vars
  PROVE  \/ Quiet
         \/ \E a \in Actors : StartClaim(a) \/ StartUnclaim(a)
         \/ \E a \in Actors, t \in Threads : StartCreated(a, t)
         \/ \E t \in Threads : RetryExit(t)
<1> USE DEF Claimed, LoopPc, At
<1>1. CASE UNCHANGED vars
  BY <1>1 DEF vars, Quiet, retryVars
<1>2. CASE AddDevice
  BY <1>2 DEF Quiet, AddDevice, retryVars
<1>3. CASE RemoveDevice
  BY <1>3, QuietMove DEF Actors, RemoveDevice, retryVars
<1>4. CASE RemoveGeneration
  BY <1>4, QuietMove DEF Actors, RemoveGeneration, retryVars
<1>5. CASE RemoveClose
  BY <1>5, QuietMove DEF Actors, RemoveClose, retryVars
<1>6. CASE PendingAck
  BY <1>6, QuietMove DEF Actors, PendingAck, retryVars
<1>7. CASE PairPending
  BY <1>7, QuietMove DEF Actors, PairPending, PairAnswered, Answered,
                         Callback, retryVars
<1>8. CASE Completion /\ ~PairPending
  BY <1>8
  DEF Quiet, Completion, ControlComplete, TxComplete, RxFails, RxOther,
      VersionReply, SynReply, QueryReply, UdidReply, ValidateAccepted,
      ValidateRejected, WifiReply, KeyReply, PairAccepted, PairRefused,
      Leaves, retryVars
<1>9. ASSUME NEW a \in Actors, StartReadGeneration(a) PROVE Quiet
  BY <1>9, QuietMove DEF StartReadGeneration
<1>10. ASSUME NEW a \in Actors, StartRefused(a) PROVE Quiet
  BY <1>10, QuietMove DEF StartRefused
<1>11. ASSUME NEW a \in Actors, StartFailed(a) PROVE Quiet
  BY <1>11, QuietMove DEF StartFailed, Returned, retryVars
<1>12. ASSUME NEW t \in Threads, RetryWake(t) PROVE Quiet
  BY <1>12, QuietMove DEF Actors, RetryWake
<1>13. ASSUME NEW t \in Threads, RetryCheckGeneration(t) PROVE Quiet
  BY <1>13, QuietMove DEF Actors, RetryCheckGeneration, Moves, retryVars
<1>14. ASSUME NEW t \in Threads, RetryCheckAttached(t) PROVE Quiet
  BY <1>14, QuietMove DEF Actors, RetryCheckAttached, Moves, retryVars
<1>15. ASSUME NEW t \in Threads, RetryCheckEnded(t) PROVE Quiet
  BY <1>15, QuietMove DEF Actors, RetryCheckEnded, Moves, retryVars
<1>16. ASSUME NEW t \in Threads, RetryCheckPending(t) PROVE Quiet
  BY <1>16, QuietMove DEF Actors, RetryCheckPending, Moves, retryVars
<1>17. ASSUME NEW t \in Threads, RetryCheckTx(t) PROVE Quiet
  BY <1>17, QuietMove DEF Actors, RetryCheckTx, Moves, retryVars
<1>18. ASSUME NEW t \in Threads, RetryTail(t) PROVE Quiet
  BY <1>18, QuietMove DEF Actors, RetryTail, Moves, retryVars
<1>19. ASSUME NEW t \in Threads, RetryTailState(t) PROVE Quiet
  BY <1>19, QuietMove DEF Actors, RetryTailState, Moves, retryVars
<1>20. ASSUME NEW t \in Threads, RetryTailGeneration(t) PROVE Quiet
  BY <1>20, QuietMove DEF Actors, RetryTailGeneration, Moves, retryVars
<1>21. ASSUME NEW t \in Threads, RetryRestate(t) PROVE Quiet
  BY <1>21, QuietMove DEF Actors, RetryRestate, retryVars
<1>22. ASSUME NEW t \in Threads, RetrySend(t) PROVE Quiet
  BY <1>22, QuietMove DEF Actors, RetrySend, retryVars
<1>23. ASSUME NEW t \in Threads, RetrySubmit(t) PROVE Quiet
  BY <1>23, QuietMove DEF Actors, RetrySubmit, retryVars
<1> QED
  BY <1>1, <1>2, <1>3, <1>4, <1>5, <1>6, <1>7, <1>8, <1>9, <1>10, <1>11,
    <1>12, <1>13, <1>14, <1>15, <1>16, <1>17, <1>18, <1>19, <1>20, <1>21,
    <1>22, <1>23
  DEF Next, UsbCall, Retry, StartTrustRetry, Actors

\* The claim is taken only while it is free, passed on whole, and given back.
LEMMA ClaimStep == TypeOK /\ RetryClaimIsHeld /\ [Next]_vars => RetryClaimIsHeld'
<1> SUFFICES ASSUME TypeOK, RetryClaimIsHeld, [Next]_vars PROVE RetryClaimIsHeld'
  OBVIOUS
<1> USE DEF RetryClaimIsHeld
<1>1. CASE Quiet
  BY <1>1 DEF Quiet
<1>2. ASSUME NEW a \in Actors, StartClaim(a) PROVE RetryClaimIsHeld'
  BY <1>2 DEF StartClaim, Goto, At, Returned, Claimed, LoopPc, TypeOK
<1>3. ASSUME NEW a \in Actors, StartUnclaim(a) PROVE RetryClaimIsHeld'
  BY <1>3 DEF StartUnclaim, Goto, At, Claimed, LoopPc, TypeOK
<1>4. ASSUME NEW a \in Actors, NEW t \in Threads, StartCreated(a, t)
      PROVE  RetryClaimIsHeld'
  BY <1>4 DEF StartCreated, At, Returned, Claimed, LoopPc, TypeOK, Actors
<1>5. ASSUME NEW t \in Threads, RetryExit(t) PROVE RetryClaimIsHeld'
  BY <1>5 DEF RetryExit, Goto, At, Claimed, LoopPc, TypeOK, Actors
<1> QED
  BY <1>1, <1>2, <1>3, <1>4, <1>5, QuietSteps

\* Before the first phone no thread holds the claim.
LEMMA InitInv == Init => TypeOK /\ RetryClaimIsHeld
<1> SUFFICES ASSUME Init PROVE TypeOK /\ RetryClaimIsHeld
  OBVIOUS
<1>1. pc \in [Actors -> UsbPc \cup StartPc \cup RetryPc]
  BY DEF Init, UsbPc, RetryPc
<1>2. /\ gen \in [Actors -> Nat]
      /\ attempts \in [Threads -> 0..MaxAttempts]
      /\ phones \in 0..MaxPhones /\ accepted \in 0..MaxPhones
  BY BoundsAssumption DEF Init
<1>3. TypeOK
  BY <1>1, <1>2, ClearedType DEF Init, TypeOK
<1>4. RetryClaimIsHeld
  BY DEF Init, RetryClaimIsHeld, Claimed, LoopPc
<1> QED
  BY <1>3, <1>4

-----------------------------------------------------------------------------
(* What follows for every behaviour.                                       *)

\* gTrustRetryActive is up exactly while one actor holds the claim, throughout
\* the session and across every handoff from one retry thread to the next.
THEOREM RetryClaim == Spec => [](TypeOK /\ RetryClaimIsHeld)
<1>1. TypeOK /\ RetryClaimIsHeld /\ [Next]_vars => (TypeOK /\ RetryClaimIsHeld)'
  BY TypeOKStep, ClaimStep
<1> QED
  BY InitInv, <1>1, PTL DEF Spec

\* Type correctness of the pairing driver: no handler takes an entry from an
\* empty queue or a reply the phone does not owe; no loop exceeds its rounds.
THEOREM PairingTypeCorrect == Spec => []TypeOK
BY RetryClaim, PTL

\* Never two retry threads in the loop, over any number of phones and threads.
THEOREM SingleRetryThread == Spec => []OneRetryThread
<1>1. RetryClaimIsHeld => OneRetryThread
  BY DEF RetryClaimIsHeld, OneRetryThread, InLoop, Claimed, Actors
<1> QED
  BY <1>1, RetryClaim, PTL

\* gTrustRetryActive is never left up with nobody to clear it.
THEOREM RetryClaimNeverLeaks == Spec => []RetryClaimIsHeld
BY RetryClaim, PTL

-----------------------------------------------------------------------------
(* The pairing session.  ReadyIsEarned, SessionAgrees and PairingHears are  *)
(* kept together; what the handlers do to the fields they are about is      *)
(* followed through the same operators as the types.                        *)

PairInv == ReadyIsEarned /\ SessionAgrees /\ PairingHears

\* The session that belongs to a state.
Agree(s, session) ==
  CASE s = "GetPublicKeySent" -> session = "GetValueSent"
    [] s = "PairSent"         -> session \in {"PairSent", "PendingTrust"}
    [] s = "TrustPending"     -> session = "PendingTrust"
    [] s = "Paired"           -> session = "Paired"
    [] s \in {"Failed", "CryptoBlocked"} -> TRUE
    [] OTHER                  -> session = "Idle"

\* From c the operators lead to d, in state s or failed, and arm nothing.
Leads(c, s, d) ==
  /\ d.attached = c.attached /\ d.session = c.session /\ d.rx = c.rx
  /\ d.ready => c.ready
  /\ d.state = s \/ (d.state = "Failed" /\ ~d.ready)

\* The same at the end of a handler, where a receive is armed.
After(c, s, d) ==
  /\ d.attached = c.attached /\ d.session = c.session
  /\ d.ready => c.ready
  /\ d.state = s \/ (d.state = "Failed" /\ ~d.ready)
  /\ d.attached /\ d.state # "Failed" => d.rx

LEMMA FailLeads ==
  ASSUME NEW S, NEW c \in ContextOf(S), NEW s
  PROVE  Leads(c, s, Fail(c)) /\ After(c, s, Fail(c))
BY DEF Leads, After, Fail, ContextOf

LEMMA PumpTxLeads ==
  ASSUME NEW S, NEW c \in ContextOf(S), NEW d \in PumpTx(c)
  PROVE  Leads(c, c.state, d)
BY DEF PumpTx, Leads, Fail, ContextOf

LEMMA EnqueueLeads ==
  ASSUME NEW S, NEW c \in ContextOf(S), NEW d \in Enqueue(c)
  PROVE  Leads(c, c.state, d)
<1> DEFINE e == [c EXCEPT !.qCount = @ + 1]
<1>1. e \in ContextOf(S) /\ \A f : Leads(e, e.state, f) => Leads(c, c.state, f)
  BY DEF ContextOf, Leads
<1>2. d = Fail(c) \/ d \in PumpTx(e)
  BY DEF Enqueue
<1> HIDE DEF e
<1> QED
  BY <1>1, <1>2, FailLeads, PumpTxLeads

LEMMA SendLeads ==
  ASSUME NEW S, "Failed" \in S, NEW next, NEW c \in ContextOf(S),
         NEW d \in Send(c, next)
  PROVE  Leads(c, next, d)
<1>1. ASSUME NEW e \in Enqueue(c), d = [e EXCEPT !.state = next]
      PROVE  Leads(c, next, d)
  <2>1. e \in ContextOf(S) /\ Leads(c, c.state, e)
    BY EnqueueType, EnqueueLeads
  <2> QED
    BY <1>1, <2>1 DEF Leads, ContextOf
<1> QED
  BY <1>1, FailLeads DEF Send

LEMMA RequestLeads ==
  ASSUME NEW S, "Failed" \in S, NEW next, NEW c \in ContextOf(S),
         NEW d \in Request(c, next)
  PROVE  Leads(c, next, d)
<1>1. ASSUME NEW e \in Enqueue(c),
             d = [e EXCEPT !.state = next,
                           !.asked = IF e.state = "Failed" THEN @ ELSE @ + 1]
      PROVE  Leads(c, next, d)
  <2>1. e \in ContextOf(S) /\ Leads(c, c.state, e)
    BY EnqueueType, EnqueueLeads
  <2>2. d.attached = e.attached /\ d.session = e.session /\ d.rx = e.rx
        /\ d.ready = e.ready /\ d.state = next
    BY <1>1, <2>1 DEF ContextOf
  <2> QED
    BY <2>1, <2>2 DEF Leads
<1> QED
  BY <1>1, FailLeads DEF Request

\* A handler that goes on after a packet.
LEMMA RequestFromLeads ==
  ASSUME NEW S, "Failed" \in S, NEW next, NEW C \in SUBSET ContextOf(S),
         NEW d \in RequestFrom(C, next)
  PROVE  \E c \in C : (c.state = "Failed" /\ d = c)
                      \/ (c.state # "Failed" /\ Leads(c, next, d))
<1>1. PICK c \in C : d \in IF c.state = "Failed" THEN {c} ELSE Request(c, next)
  BY DEF RequestFrom
<1> QED
  BY <1>1, RequestLeads

LEMMA RearmAfter ==
  ASSUME NEW C \in SUBSET Context, NEW c, NEW s, \A e \in C : Leads(c, s, e),
         NEW d \in Rearm(C)
  PROVE  After(c, s, d)
<1>1. PICK e \in C : d \in IF e.attached /\ e.state # "Failed"
                           THEN {[e EXCEPT !.rx = TRUE], Fail(e)} ELSE {e}
  BY DEF Rearm
<1>2. e \in Context /\ Leads(c, s, e)
  BY <1>1
<1> QED
  BY <1>1, <1>2 DEF After, Leads, Fail, Context

LEMMA AnswerAfter ==
  ASSUME NEW C \in SUBSET Context, NEW c, NEW s, \A e \in C : Leads(c, s, e),
         NEW d \in Answer(C)
  PROVE  After(c, s, d)
<1>1. "Failed" \in LastingState
  BY DEF LastingState
<1>2. ASSUME NEW f \in Acknowledge(C)
      PROVE  f \in Context /\ Leads(c, s, f)
  <2>1. PICK e \in C : f \in IF e.state = "Failed" THEN {e} ELSE Enqueue(e)
    BY <1>2 DEF Acknowledge
  <2>2. e \in ContextOf(LastingState) /\ Leads(c, s, e)
    BY <2>1, ContextIsLasting
  <2>3. CASE e.state = "Failed"
    BY <2>1, <2>2, <2>3, ContextIsLasting
  <2>4. CASE e.state # "Failed"
    <3>1. f \in ContextOf(LastingState) /\ Leads(e, e.state, f)
      BY <1>1, <2>1, <2>2, <2>4, EnqueueType, EnqueueLeads
    <3> QED
      BY <2>2, <2>4, <3>1, ContextIsLasting DEF Leads
  <2> QED
    BY <2>3, <2>4
<1>3. Acknowledge(C) \in SUBSET Context
  BY <1>2
<1> QED
  BY <1>2, <1>3, RearmAfter DEF Answer

\* The same for a context between two callbacks.
LEMMA LastingLeads ==
  ASSUME NEW c \in Context, NEW s
  PROVE  /\ Leads(c, s, Fail(c)) /\ After(c, s, Fail(c))
         /\ \A d \in Request(c, s) : Leads(c, s, d)
         /\ \A d \in PumpTx(c) : Leads(c, c.state, d)
         /\ Leads(c, c.state, c)
<1>1. "Failed" \in LastingState /\ c \in ContextOf(LastingState)
  BY ContextIsLasting DEF LastingState
<1> QED
  BY <1>1, FailLeads, RequestLeads, PumpTxLeads DEF Leads

\* Two packets, and the next receive.
LEMMA TwoPacketsAfter ==
  ASSUME NEW mid, mid # "Failed", NEW next \in LastingState, NEW c \in Context,
         NEW d \in Rearm(RequestFrom(Send(c, mid), next))
  PROVE  After(c, next, d)
<1> DEFINE S == LastingState \cup {mid}
           C == Send(c, mid)
<1>1. "Failed" \in S /\ mid \in S /\ c \in ContextOf(S)
  BY DEF LastingState, Context, ContextOf
<1> HIDE DEF S
<1>2. C \in SUBSET ContextOf(S) /\ \A e \in C : Leads(c, mid, e)
  BY <1>1, SendType, SendLeads
<1>3. RequestFrom(C, next) \in SUBSET Context
  BY SendThenRequest
<1> HIDE DEF C
<1>4. ASSUME NEW f \in RequestFrom(C, next) PROVE Leads(c, next, f)
  <2>1. PICK e \in C : (e.state = "Failed" /\ f = e)
                       \/ (e.state # "Failed" /\ Leads(e, next, f))
    BY <1>1, <1>2, RequestFromLeads
  <2>2. Leads(c, mid, e)
    BY <1>2
  <2> QED
    BY <2>1, <2>2 DEF Leads
<1> QED
  BY <1>3, <1>4, RearmAfter DEF C

-----------------------------------------------------------------------------
(* Handlers and threads keep the session.                                  *)

\* A handler that set c and went on to s.
LEMMA HandlerKeeps ==
  ASSUME TypeOK, UNCHANGED <<phones, interfered>>, ctx' \in Context,
         NEW c \in Context, NEW s, c.attached, After(c, s, ctx'),
         c.ready => /\ accepted' = phones
                    /\ interfered \/ s \in {"Paired", "Validated"},
         interfered \/ Agree(s, c.session)
  PROVE  PairInv'
<1>1. ReadyIsEarned'
  BY DEF ReadyIsEarned, After
<1>2. SessionAgrees'
  <2>1. ~interfered => Agree(ctx'.state, ctx'.session)
    BY DEF After, Agree
  <2> QED
    BY <2>1 DEF SessionAgrees, Agree, SessionOpen
<1>3. PairingHears'
  BY DEF PairingHears, After
<1> QED
  BY <1>1, <1>2, <1>3 DEF PairInv

\* A step that may fail the pairing and changes no other state.
LEMMA LeadsKeeps ==
  ASSUME TypeOK, PairInv, ctx' \in Context, Leads(ctx, ctx.state, ctx'),
         UNCHANGED <<phones, accepted>>, interfered => interfered',
         At(Usb, "idle")' => At(Usb, "idle")
  PROVE  PairInv'
<1> USE DEF PairInv
<1>1. ReadyIsEarned'
  BY DEF ReadyIsEarned, Leads
<1>2. SessionAgrees'
  BY DEF SessionAgrees, SessionOpen, Leads
<1>3. PairingHears'
  BY DEF PairingHears, Leads
<1> QED
  BY <1>1, <1>2, <1>3

\* A step that leaves the context alone.
LEMMA SameContextKeeps ==
  ASSUME TypeOK, PairInv, UNCHANGED <<ctx, phones, accepted, interfered>>,
         At(Usb, "idle")' => At(Usb, "idle")
  PROVE  PairInv'
BY DEF PairInv, ReadyIsEarned, SessionAgrees, SessionOpen, PairingHears, At

\* The session of the phone that is attached.
LEMMA SessionNow ==
  ASSUME PairInv, ctx.attached
  PROVE  interfered \/ Agree(ctx.state, ctx.session)
BY DEF PairInv, SessionAgrees, SessionOpen, Agree

\* What a handler knows that finds the request the state waits for.
LEMMA AnsweredFacts ==
  ASSUME TypeOK, PairInv, NEW s, Answered(s)
  PROVE  /\ Taken \in Context /\ Taken.attached
         /\ Taken.session = ctx.session /\ Taken.ready = ctx.ready
         /\ Taken.state = s /\ ctx.state = s
         /\ interfered \/ Agree(s, Taken.session)
         /\ Taken.ready => /\ accepted = phones
                           /\ interfered \/ s \in {"Paired", "Validated"}
<1>1. Taken \in Context
  BY TakenType DEF Answered
<1>2. Taken.attached = ctx.attached /\ Taken.session = ctx.session
      /\ Taken.ready = ctx.ready /\ Taken.state = ctx.state
  BY DEF Taken, TypeOK, Context
<1>3. ctx.attached /\ ctx.state = s
  BY DEF Answered, Callback
<1>4. interfered \/ Agree(s, ctx.session)
  BY <1>3 DEF PairInv, SessionAgrees, SessionOpen, Agree
<1>5. ctx.ready => /\ accepted = phones
                   /\ interfered \/ s \in {"Paired", "Validated"}
  BY <1>3 DEF PairInv, ReadyIsEarned
<1> QED
  BY <1>1, <1>2, <1>3, <1>4, <1>5

\* A pairing that has failed keeps it.
LEMMA FailedKeeps ==
  ASSUME NEW c \in Context, ctx' = Fail(c)
  PROVE  PairInv'
<1>1. ctx'.state = "Failed" /\ ctx'.ready = FALSE
  BY DEF Fail, Context
<1> QED
  BY <1>1 DEF PairInv, ReadyIsEarned, SessionAgrees, PairingHears

LEMMA FailedAnswer ==
  ASSUME NEW c \in Context, ctx' \in Answer({Fail(c)})
  PROVE  PairInv'
<1> DEFINE f == Fail(c)
<1>1. f \in Context /\ f.state = "Failed" /\ f.ready = FALSE
  BY FailLasting DEF Fail, Context
<1> HIDE DEF f
<1>2. After(f, f.state, ctx')
  BY <1>1, LastingLeads, AnswerAfter DEF f
<1>3. ctx'.state = "Failed" /\ ~ctx'.ready
  BY <1>1, <1>2 DEF After
<1> QED
  BY <1>3 DEF PairInv, ReadyIsEarned, SessionAgrees, PairingHears

\* A reply to a request that leads from the state s to the state next.
LEMMA ReplyKeeps ==
  ASSUME TypeOK, PairInv, UNCHANGED <<phones, history>>, ctx' \in Context,
         NEW s, s \notin {"Paired", "Validated"}, Answered(s), NEW next,
         interfered \/ (Agree(s, Taken.session) => Agree(next, Taken.session)),
         ctx' = Fail(Taken) \/ After(Taken, next, ctx')
  PROVE  PairInv'
<1>1. /\ Taken \in Context /\ Taken.attached
      /\ interfered \/ Agree(s, Taken.session)
      /\ Taken.ready => accepted = phones /\ interfered
  BY AnsweredFacts
<1>2. CASE ctx' = Fail(Taken)
  BY <1>1, <1>2, FailedKeeps
<1>3. CASE After(Taken, next, ctx')
  BY <1>1, <1>3, HandlerKeeps DEF history
<1> QED
  BY <1>2, <1>3

\* Completions that answer no request.
LEMMA OtherCompletions ==
  ASSUME TypeOK, PairInv, ControlComplete \/ TxComplete \/ RxFails \/ RxOther
  PROVE  PairInv'
<1>0. ctx \in Context /\ ctx' \in Context
  BY CompletionType DEF Completion, TypeOK
<1>1. CASE ControlComplete
  <2> DEFINE c == [ctx EXCEPT !.control = FALSE]
             C == Rearm({c})
  <2>1. /\ c \in Context /\ c.attached /\ ctx.attached /\ c.state = ctx.state
        /\ c.session = ctx.session /\ c.ready = ctx.ready
    BY <1>0, <1>1 DEF Context, ControlComplete, Callback
  <2>2. \/ ctx' = Fail(c)
        \/ c.state = "Configuring" /\ ctx' \in RequestFrom(C, "VersionSent")
    BY <1>1 DEF ControlComplete, Leaves
  <2>3. UNCHANGED <<phones, accepted, interfered>>
    BY <1>1 DEF ControlComplete, Leaves, history
  <2> HIDE DEF c
  <2>4. C \in SUBSET Context /\ \A e \in C : After(c, c.state, e)
    BY <2>1, RearmType, RearmAfter, LastingLeads
  <2> HIDE DEF C
  <2>5. CASE c.state = "Configuring" /\ ctx' \in RequestFrom(C, "VersionSent")
    <3>1. PICK e \in C :
            \/ e.state = "Failed" /\ ctx' = e
            \/ e.state # "Failed" /\ Leads(e, "VersionSent", ctx')
      <4>1. "Failed" \in LastingState
        BY DEF LastingState
      <4> QED
        BY <2>4, <2>5, <4>1, RequestFromLeads, ContextIsLasting
    <3>2. After(c, "VersionSent", ctx')
      BY <2>4, <2>5, <3>1 DEF After, Leads
    <3>3. interfered \/ (Agree("VersionSent", c.session) /\ ~c.ready)
      BY <2>1, <2>5, SessionNow DEF PairInv, ReadyIsEarned, Agree
    <3>4. c.ready => accepted = phones
      BY <2>1 DEF PairInv, ReadyIsEarned
    <3> QED
      BY <1>0, <2>1, <2>3, <3>2, <3>3, <3>4, HandlerKeeps
  <2> QED
    BY <2>1, <2>2, <2>5, FailedKeeps
<1>2. CASE TxComplete
  <2> DEFINE c == [ctx EXCEPT !.txBusy = FALSE, !.out = FALSE]
  <2>1. c \in Context /\ \A d : Leads(c, c.state, d) => Leads(ctx, ctx.state, d)
    BY <1>0 DEF Context, Leads
  <2>2. ctx' = Fail(c) \/ ctx' \in PumpTx(c)
    BY <1>2 DEF TxComplete, Leaves
  <2>3. UNCHANGED <<phones, accepted, interfered, pc>>
    BY <1>2 DEF TxComplete, Leaves, history
  <2> HIDE DEF c
  <2>4. Leads(ctx, ctx.state, ctx')
    BY <2>1, <2>2, LastingLeads
  <2> QED
    BY <1>0, <2>3, <2>4, LeadsKeeps DEF At
<1>3. CASE RxFails
  <2>1. [ctx EXCEPT !.rx = FALSE] \in Context
    BY <1>0 DEF Context
  <2> QED
    BY <1>3, <2>1, FailedKeeps DEF RxFails, Leaves
<1>4. CASE RxOther
  <2> DEFINE c == [ctx EXCEPT !.rx = FALSE]
  <2>1. /\ c \in Context /\ c.attached /\ ctx.attached /\ c.state = ctx.state
        /\ c.session = ctx.session /\ c.ready = ctx.ready
    BY <1>0, <1>4 DEF Context, RxOther, Callback
  <2>2. ctx' \in Rearm({c}) \/ ctx' \in Answer({c})
    BY <1>4 DEF RxOther, Leaves
  <2>3. UNCHANGED <<phones, accepted, interfered>>
    BY <1>4 DEF RxOther, Leaves, history
  <2> HIDE DEF c
  <2>4. After(c, c.state, ctx')
    BY <2>1, <2>2, RearmAfter, AnswerAfter, LastingLeads
  <2>5. interfered \/ Agree(c.state, c.session)
    BY <2>1, SessionNow
  <2>6. c.ready => /\ accepted = phones
                   /\ interfered \/ c.state \in {"Paired", "Validated"}
    BY <2>1 DEF PairInv, ReadyIsEarned
  <2> QED
    BY <1>0, <2>1, <2>3, <2>4, <2>5, <2>6, HandlerKeeps
<1> QED
  BY <1>1, <1>2, <1>3, <1>4

\* Replies before the Pair request.
LEMMA EarlyReplies ==
  ASSUME TypeOK, PairInv,
         \/ VersionReply \/ SynReply \/ QueryReply \/ UdidReply
         \/ ValidateRejected
  PROVE  PairInv'
<1>0. ctx' \in Context
  BY CompletionType DEF Completion
<1>1. CASE VersionReply
  <2>1. Answered("VersionSent") /\ UNCHANGED <<phones, history>> /\ Taken \in Context
    BY <1>1, AnsweredFacts DEF VersionReply, Leaves
  <2>2. \/ ctx' = Fail(Taken)
        \/ ctx' \in Rearm(RequestFrom(Send(Taken, "MuxV2"), "SynSent"))
    BY <1>1 DEF VersionReply, Leaves
  <2>3. ctx' = Fail(Taken) \/ After(Taken, "SynSent", ctx')
    BY <2>1, <2>2, TwoPacketsAfter DEF LastingState
  <2> QED
    BY <1>0, <2>1, <2>3, ReplyKeeps DEF Agree
<1>2. CASE SynReply
  <2>1. Answered("SynSent") /\ UNCHANGED <<phones, history>> /\ Taken \in Context
    BY <1>2, AnsweredFacts DEF SynReply, Leaves
  <2>2. \/ ctx' = Fail(Taken)
        \/ ctx' \in Rearm(RequestFrom(Send(Taken, "Connected"), "QuerySent"))
    BY <1>2 DEF SynReply, Leaves
  <2>3. ctx' = Fail(Taken) \/ After(Taken, "QuerySent", ctx')
    BY <2>1, <2>2, TwoPacketsAfter DEF LastingState
  <2> QED
    BY <1>0, <2>1, <2>3, ReplyKeeps DEF Agree
<1>3. CASE QueryReply
  <2> DEFINE C == {Fail(Taken)} \cup Request(Taken, "GetUdidSent")
  <2>1. Answered("QuerySent") /\ UNCHANGED <<phones, history>> /\ Taken \in Context
    BY <1>3, AnsweredFacts DEF QueryReply, Leaves
  <2>2. ctx' \in Answer(C)
    BY <1>3 DEF QueryReply, Leaves
  <2>3. C \in SUBSET Context /\ \A e \in C : Leads(Taken, "GetUdidSent", e)
    BY <2>1, FailLasting, RequestLasting, LastingLeads DEF LastingState
  <2> HIDE DEF C
  <2>4. After(Taken, "GetUdidSent", ctx')
    BY <2>2, <2>3, AnswerAfter
  <2> QED
    BY <1>0, <2>1, <2>4, ReplyKeeps DEF Agree
<1>4. CASE UdidReply
  <2>1. Answered("GetUdidSent") /\ UNCHANGED <<phones, history>> /\ Taken \in Context
    BY <1>4, AnsweredFacts DEF UdidReply, Leaves
  <2>2. PICK s \in {"ValidatePairSent", "GetWifiSent"} :
          ctx' \in Answer({Fail(Taken)} \cup Request(Taken, s))
    <3> DEFINE a == Request(Taken, "ValidatePairSent")
               b == Request(Taken, "GetWifiSent")
               f == {Fail(Taken)}
    <3>1. ctx' \in Answer(f \cup a \cup b)
      BY <1>4 DEF UdidReply, Leaves
    <3> HIDE DEF a, b, f
    <3>2. Answer(f \cup a \cup b) = Answer(f \cup a) \cup Answer(f \cup b)
      BY DEF Answer, Acknowledge, Rearm
    <3> QED
      BY <3>1, <3>2 DEF a, b, f
  <2> DEFINE C == {Fail(Taken)} \cup Request(Taken, s)
  <2>3. C \in SUBSET Context /\ \A e \in C : Leads(Taken, s, e)
    BY <2>1, FailLasting, RequestLasting, LastingLeads DEF LastingState
  <2>4. ctx' \in Answer(C)
    BY <2>2
  <2> HIDE DEF C
  <2>5. After(Taken, s, ctx')
    BY <2>3, <2>4, AnswerAfter
  <2>6. Agree("GetUdidSent", Taken.session) => Agree(s, Taken.session)
    BY <2>2 DEF Agree
  <2> QED
    BY <1>0, <2>1, <2>5, <2>6, ReplyKeeps
<1>5. CASE ValidateRejected
  <2> DEFINE C == Request(Taken, "GetWifiSent")
  <2>1. Answered("ValidatePairSent") /\ UNCHANGED <<phones, history>>
        /\ Taken \in Context
    BY <1>5, AnsweredFacts DEF ValidateRejected, Leaves
  <2>2. ctx' \in Answer(C)
    BY <1>5 DEF ValidateRejected, Leaves
  <2>3. C \in SUBSET Context /\ \A e \in C : Leads(Taken, "GetWifiSent", e)
    BY <2>1, RequestLasting, LastingLeads DEF LastingState
  <2> HIDE DEF C
  <2>4. After(Taken, "GetWifiSent", ctx')
    BY <2>2, <2>3, AnswerAfter
  <2> QED
    BY <1>0, <2>1, <2>4, ReplyKeeps DEF Agree
<1> QED
  BY <1>1, <1>2, <1>3, <1>4, <1>5

\* The phone accepts: what is set next to ready is what the property is about.
LEMMA Acceptance ==
  ASSUME TypeOK, PairInv, ValidateAccepted \/ PairAccepted
  PROVE  PairInv'
<1>0. ctx' \in Context
  BY CompletionType DEF Completion
<1>1. CASE ValidateAccepted
  <2> DEFINE c == [Taken EXCEPT !.state = "Validated", !.ready = TRUE]
  <2>1. Answered("ValidatePairSent")
    BY <1>1 DEF ValidateAccepted
  <2>2. /\ Taken \in Context /\ Taken.attached
        /\ interfered \/ Agree("ValidatePairSent", Taken.session)
    BY <2>1, AnsweredFacts
  <2>3. /\ c \in Context /\ c.attached /\ c.state = "Validated"
        /\ c.session = Taken.session
    BY <2>2 DEF Context, LastingState
  <2>4. ctx' \in Answer({c})
    BY <1>1 DEF ValidateAccepted
  <2>5. accepted' = phones /\ UNCHANGED <<phones, interfered>>
    BY <1>1 DEF ValidateAccepted
  <2> HIDE DEF c
  <2>6. After(c, "Validated", ctx')
    BY <2>3, <2>4, AnswerAfter, LastingLeads
  <2>7. interfered \/ Agree("Validated", c.session)
    BY <2>2, <2>3 DEF Agree
  <2> QED
    BY <1>0, <2>3, <2>5, <2>6, <2>7, HandlerKeeps
<1>2. CASE PairAccepted
  <2> DEFINE c == [Taken EXCEPT !.session = "Paired", !.state = "Paired",
                                !.ready = TRUE]
  <2>1. PairAnswered
    BY <1>2 DEF PairAccepted
  <2>2. Taken \in Context /\ Taken.attached
    BY <2>1, AnsweredFacts DEF PairAnswered
  <2>3. /\ c \in Context /\ c.attached /\ c.state = "Paired"
        /\ c.session = "Paired"
    BY <2>2 DEF Context, LastingState, SessionState
  <2>4. ctx' \in Answer({c})
    BY <1>2 DEF PairAccepted
  <2>5. accepted' = phones /\ UNCHANGED <<phones, interfered>>
    BY <1>2 DEF PairAccepted
  <2> HIDE DEF c
  <2>6. After(c, "Paired", ctx')
    BY <2>3, <2>4, AnswerAfter, LastingLeads
  <2>7. Agree("Paired", c.session)
    BY <2>3 DEF Agree
  <2> QED
    BY <1>0, <2>3, <2>5, <2>6, <2>7, HandlerKeeps
<1> QED
  BY <1>1, <1>2

\* The replies that move the session with the state.
LEMMA SessionReplies ==
  ASSUME TypeOK, PairInv, WifiReply \/ KeyReply \/ PairPending \/ PairRefused
  PROVE  PairInv'
<1>0. ctx' \in Context
  BY CompletionType DEF Completion
<1>1. CASE WifiReply
  <2> DEFINE c == [Taken EXCEPT !.session = "GetValueSent"]
             C == Request(c, "GetPublicKeySent")
  <2>1. Answered("GetWifiSent") /\ UNCHANGED <<phones, accepted, interfered>>
    BY <1>1 DEF WifiReply, Leaves, history
  <2>2. /\ Taken \in Context /\ Taken.attached
        /\ Taken.ready => accepted = phones /\ interfered
    BY <2>1, AnsweredFacts
  <2>3. /\ c \in Context /\ c.attached /\ c.session = "GetValueSent"
        /\ c.ready = Taken.ready
    BY <2>2 DEF Context, SessionState
  <2>4. ctx' \in Answer(C) \/ ctx' \in Answer({Fail(Taken)})
    BY <1>1 DEF WifiReply, Leaves
  <2> HIDE DEF c
  <2>5. CASE ctx' \in Answer(C)
    <3>1. C \in SUBSET Context /\ \A e \in C : Leads(c, "GetPublicKeySent", e)
      BY <2>3, RequestLasting, LastingLeads DEF LastingState
    <3> HIDE DEF C
    <3>2. After(c, "GetPublicKeySent", ctx')
      BY <2>5, <3>1, AnswerAfter
    <3>3. Agree("GetPublicKeySent", c.session)
      BY <2>3 DEF Agree
    <3> QED
      BY <1>0, <2>1, <2>2, <2>3, <3>2, <3>3, HandlerKeeps
  <2>6. CASE ctx' \in Answer({Fail(Taken)})
    BY <2>2, <2>6, FailedAnswer
  <2> QED
    BY <2>4, <2>5, <2>6
<1>2. CASE KeyReply
  <2> DEFINE m == [Taken EXCEPT !.session = "PairSent", !.frame = TRUE]
             b == [Taken EXCEPT !.state = "CryptoBlocked"]
             f == [Taken EXCEPT !.session = "Failed"]
             C == Request(m, "PairSent")
  <2>1. Answered("GetPublicKeySent") /\ UNCHANGED <<phones, accepted, interfered>>
    BY <1>2 DEF KeyReply, Leaves, history
  <2>2. /\ Taken \in Context /\ Taken.attached
        /\ Taken.ready => accepted = phones /\ interfered
    BY <2>1, AnsweredFacts
  <2>3. /\ m \in Context /\ m.attached /\ m.session = "PairSent"
        /\ m.ready = Taken.ready
    BY <2>2 DEF Context, SessionState
  <2>4. /\ b \in Context /\ b.attached /\ b.state = "CryptoBlocked"
        /\ b.ready = Taken.ready
    BY <2>2 DEF Context, LastingState
  <2>5. f \in Context
    BY <2>2 DEF Context, SessionState
  <2>6. ctx' \in Answer({Fail(Taken), b}
                   \cup IF Taken.session = "GetValueSent"
                        THEN {Fail(f)} \cup C ELSE {})
    BY <1>2 DEF KeyReply, Leaves
  <2> HIDE DEF m, b, f, C
  <2>7. \/ ctx' \in Answer({Fail(Taken)}) \/ ctx' \in Answer({b})
        \/ ctx' \in Answer({Fail(f)}) \/ ctx' \in Answer(C)
    BY <2>6 DEF Answer, Acknowledge, Rearm
  <2>8. CASE ctx' \in Answer({Fail(Taken)})
    BY <2>2, <2>8, FailedAnswer
  <2>9. CASE ctx' \in Answer({Fail(f)})
    BY <2>5, <2>9, FailedAnswer
  <2>10. CASE ctx' \in Answer({b})
    <3>1. After(b, "CryptoBlocked", ctx')
      BY <2>4, <2>10, LastingLeads, AnswerAfter
    <3>2. Agree("CryptoBlocked", b.session)
      BY DEF Agree
    <3> QED
      BY <1>0, <2>1, <2>2, <2>4, <3>1, <3>2, HandlerKeeps
  <2>11. CASE ctx' \in Answer(C)
    <3>1. C \in SUBSET Context /\ \A e \in C : Leads(m, "PairSent", e)
      BY <2>3, RequestLasting, LastingLeads DEF LastingState, C
    <3>2. After(m, "PairSent", ctx')
      BY <2>11, <3>1, AnswerAfter
    <3>3. Agree("PairSent", m.session)
      BY <2>3 DEF Agree
    <3> QED
      BY <1>0, <2>1, <2>2, <2>3, <3>2, <3>3, HandlerKeeps
  <2> QED
    BY <2>7, <2>8, <2>9, <2>10, <2>11
<1>3. CASE PairPending
  <2>1. /\ ctx' = [Taken EXCEPT !.session = "PendingTrust", !.state = "TrustPending"]
        /\ PairAnswered /\ Goto(Usb, "claim")
        /\ UNCHANGED <<phones, accepted, interfered>>
    BY <1>3 DEF PairPending, history
  <2>2. /\ Taken \in Context /\ Taken.attached
        /\ Taken.ready => accepted = phones /\ interfered
    BY <2>1, AnsweredFacts DEF PairAnswered
  <2>3. /\ ctx'.state = "TrustPending" /\ ctx'.session = "PendingTrust"
        /\ ctx'.ready = Taken.ready /\ ctx'.attached
    BY <2>1, <2>2 DEF Context
  <2>4. pc'[Usb] = "claim"
    BY <2>1 DEF Goto, TypeOK, Actors
  <2>5. ReadyIsEarned'
    BY <2>1, <2>2, <2>3 DEF ReadyIsEarned
  <2>6. SessionAgrees'
    BY <2>3 DEF SessionAgrees
  <2>7. PairingHears'
    BY <2>4 DEF PairingHears, At
  <2> QED
    BY <2>5, <2>6, <2>7 DEF PairInv
<1>4. CASE PairRefused
  <2>1. PICK s \in {"Denied", "Failed"} :
          ctx' = Fail(IF SessionOpen THEN [Taken EXCEPT !.session = s] ELSE Taken)
    BY <1>4 DEF PairRefused, Leaves
  <2>2. Taken \in Context
    BY <1>4, AnsweredFacts DEF PairRefused, PairAnswered
  <2>3. [Taken EXCEPT !.session = s] \in Context
    BY <2>1, <2>2 DEF Context, SessionState
  <2> QED
    BY <2>1, <2>2, <2>3, FailedKeeps
<1> QED
  BY <1>1, <1>2, <1>3, <1>4

\* TrustRetryThread: what it writes for a state that has changed is interference.
LEMMA RetryKeeps ==
  ASSUME TypeOK, PairInv, NEW t \in Threads,
         RetryRestate(t) \/ RetrySend(t) \/ RetrySubmit(t), ctx' \in Context
  PROVE  PairInv'
<1>0. ctx \in Context /\ t # Usb
  BY ActorsAssumption DEF TypeOK
<1>1. CASE RetryRestate(t)
  <2>1. /\ ctx' = [ctx EXCEPT !.state = "PairSent"]
        /\ interfered' = (interfered \/ Stale(t, "TrustPending"))
        /\ UNCHANGED <<phones, accepted>> /\ pc' = [pc EXCEPT ![t] = "send"]
    BY <1>1 DEF RetryRestate, Goto
  <2>2. /\ ctx'.state = "PairSent" /\ ctx'.attached = ctx.attached
        /\ ctx'.session = ctx.session /\ ctx'.rx = ctx.rx
        /\ ctx'.ready = ctx.ready /\ pc'[Usb] = pc[Usb]
    BY <1>0, <2>1 DEF Context, TypeOK, Actors
  <2>3. interfered' \/ (~interfered /\ ctx.state = "TrustPending")
    BY <2>1 DEF Stale, TypeOK
  <2>4. ReadyIsEarned'
    BY <2>1, <2>2, <2>3 DEF PairInv, ReadyIsEarned
  <2>5. SessionAgrees'
    BY <2>2, <2>3 DEF PairInv, SessionAgrees, SessionOpen
  <2>6. PairingHears'
    BY <2>2, <2>3 DEF PairInv, PairingHears, At
  <2> QED
    BY <2>4, <2>5, <2>6 DEF PairInv
<1>2. CASE RetrySend(t)
  <2> DEFINE c == [ctx EXCEPT !.qCount = @ + 1]
             d == [c EXCEPT !.asked = @ + 1]
  <2>1. \/ ctx' = ctx \/ ctx' = Fail(ctx) \/ ctx' = d \/ ctx' = c
    BY <1>2 DEF RetrySend
  <2>2. Leads(ctx, ctx.state, c) /\ Leads(ctx, ctx.state, d)
    BY <1>0 DEF Leads, Context
  <2> HIDE DEF c, d
  <2>3. Leads(ctx, ctx.state, ctx')
    BY <1>0, <2>1, <2>2, LastingLeads
  <2>4. /\ UNCHANGED <<phones, accepted>>
        /\ interfered => interfered'
        /\ pc'[Usb] = pc[Usb]
    BY <1>0, <1>2 DEF RetrySend, Goto, TypeOK, Actors
  <2>5. At(Usb, "idle")' => At(Usb, "idle")
    BY <2>4 DEF At
  <2> QED
    BY <2>3, <2>4, <2>5, LeadsKeeps
<1>3. CASE RetrySubmit(t)
  <2> DEFINE c == [ctx EXCEPT !.qCount = @ - 1]
             d == [c EXCEPT !.txBusy = TRUE, !.out = TRUE, !.asked = @ + 1]
             e == [c EXCEPT !.txBusy = FALSE]
  <2>1. \/ ctx' = Fail(ctx) \/ ctx' = d \/ ctx' = Fail(e)
    BY <1>3 DEF RetrySubmit
  <2>2. Leads(ctx, ctx.state, d) /\ Leads(ctx, ctx.state, Fail(e))
    BY <1>0 DEF Leads, Fail, Context
  <2> HIDE DEF d, e
  <2>3. Leads(ctx, ctx.state, ctx')
    BY <1>0, <2>1, <2>2, LastingLeads
  <2>4. /\ UNCHANGED <<phones, accepted>>
        /\ interfered => interfered'
        /\ pc'[Usb] = pc[Usb]
    BY <1>0, <1>3 DEF RetrySubmit, Goto, TypeOK, Actors
  <2>5. At(Usb, "idle")' => At(Usb, "idle")
    BY <2>4 DEF At
  <2> QED
    BY <2>3, <2>4, <2>5, LeadsKeeps
<1> QED
  BY <1>1, <1>2, <1>3

\* Completions keep the session.
LEMMA CompletionKeeps ==
  ASSUME TypeOK, PairInv, Completion
  PROVE  PairInv'
BY OtherCompletions, EarlyReplies, Acceptance, SessionReplies DEF Completion

\* StartTrustRetry moves on, or fails the pairing.
LEMMA StartKeeps ==
  ASSUME TypeOK, PairInv, NEW a \in Actors, StartTrustRetry(a), ctx' \in Context
  PROVE  PairInv'
<1>0. ctx \in Context
  BY DEF TypeOK
<1>1. CASE StartFailed(a)
  BY <1>0, <1>1, FailedKeeps DEF StartFailed
<1>2. ASSUME NEW t \in Threads, StartCreated(a, t) PROVE PairInv'
  <2>1. UNCHANGED <<ctx, phones, accepted, interfered>>
    BY <1>2 DEF StartCreated, history
  <2>2. At(Usb, "idle")' => At(Usb, "idle")
    BY <1>2, ActorsAssumption DEF StartCreated, Returned, At, TypeOK, Actors
  <2> QED
    BY <2>1, <2>2, SameContextKeeps
<1>3. CASE \/ StartClaim(a) \/ StartReadGeneration(a)
           \/ StartRefused(a) \/ StartUnclaim(a)
  <2>1. UNCHANGED <<ctx, phones, accepted, interfered>>
    BY <1>3 DEF StartClaim, StartReadGeneration, StartRefused, StartUnclaim,
                history
  <2>2. \E p \in {"ack", "none", "readGeneration", "create", "unclaim", "failed"} :
          Goto(a, p)
    BY <1>3 DEF StartClaim, StartReadGeneration, StartRefused, StartUnclaim,
                Returned
  <2>3. At(Usb, "idle")' => At(Usb, "idle")
    BY <2>2 DEF Goto, At, TypeOK, Actors
  <2> QED
    BY <2>1, <2>3, SameContextKeeps
<1> QED
  BY <1>1, <1>2, <1>3 DEF StartTrustRetry

\* The rest of a retry thread only moves on.
LEMMA RetryMoves ==
  ASSUME TypeOK, PairInv, NEW t \in Threads,
         \/ RetryWake(t) \/ RetryCheckGeneration(t) \/ RetryCheckAttached(t)
         \/ RetryCheckEnded(t) \/ RetryCheckPending(t) \/ RetryCheckTx(t)
         \/ RetryExit(t) \/ RetryTail(t) \/ RetryTailState(t)
         \/ RetryTailGeneration(t)
  PROVE  PairInv'
<1>1. UNCHANGED <<ctx, phones, accepted, interfered>> /\ \E p : Goto(t, p)
  BY DEF RetryWake, RetryCheckGeneration, RetryCheckAttached, RetryCheckEnded,
         RetryCheckPending, RetryCheckTx, RetryExit, RetryTail, RetryTailState,
         RetryTailGeneration, Moves, history
<1>2. pc'[Usb] = pc[Usb]
  BY <1>1, ActorsAssumption DEF Goto, TypeOK, Actors
<1>3. At(Usb, "idle")' => At(Usb, "idle")
  BY <1>2 DEF At
<1> QED
  BY <1>1, <1>3, SameContextKeeps

\* AddDevice, RemoveDevice and the end of a pending reply.
LEMMA UsbKeeps ==
  ASSUME TypeOK, PairInv, ctx' \in Context,
         \/ AddDevice \/ RemoveDevice \/ RemoveGeneration \/ RemoveClose
         \/ PendingAck
  PROVE  PairInv'
<1>0. ctx \in Context /\ Cleared \in Context
  BY ClearedType DEF TypeOK
<1>1. CASE AddDevice
  <2> DEFINE c == [Cleared EXCEPT !.attached = TRUE]
             d == [c EXCEPT !.state = "Configuring", !.control = TRUE]
  <2>1. ctx' = Fail(Cleared) \/ ctx' = Fail(c) \/ ctx' = d
    BY <1>1 DEF AddDevice, Added
  <2>2. c \in Context
    BY <1>0 DEF Context
  <2>3. d.state = "Configuring" /\ d.session = "Idle" /\ ~d.ready
    BY DEF Cleared
  <2> HIDE DEF c, d
  <2>4. CASE ctx' = d
    BY <2>3, <2>4 DEF PairInv, ReadyIsEarned, SessionAgrees, PairingHears
  <2> QED
    BY <1>0, <2>1, <2>2, <2>4, FailedKeeps
<1>2. CASE RemoveDevice \/ RemoveClose
  <2>1. ~ctx'.attached /\ ~ctx'.ready
    BY <1>0, <1>2 DEF RemoveDevice, RemoveClose, Cleared, Context
  <2> QED
    BY <2>1 DEF PairInv, ReadyIsEarned, SessionAgrees, PairingHears
<1>3. CASE RemoveGeneration
  <2>1. At(Usb, "idle")' => At(Usb, "idle")
    BY <1>3 DEF RemoveGeneration, Goto, At, TypeOK, Actors
  <2> QED
    BY <1>3, <2>1, SameContextKeeps DEF RemoveGeneration, history
<1>4. CASE PendingAck
  <2>1. ctx' \in Answer({ctx}) /\ UNCHANGED <<phones, accepted, interfered>>
    BY <1>4 DEF PendingAck, history
  <2>2. After(ctx, ctx.state, ctx')
    BY <1>0, <2>1, AnswerAfter, LastingLeads
  <2>3. CASE ctx.attached
    <3>1. interfered \/ Agree(ctx.state, ctx.session)
      BY <2>3, SessionNow
    <3>2. ctx.ready => /\ accepted = phones
                       /\ interfered \/ ctx.state \in {"Paired", "Validated"}
      BY DEF PairInv, ReadyIsEarned
    <3> QED
      BY <1>0, <2>1, <2>2, <2>3, <3>1, <3>2, HandlerKeeps
  <2>4. CASE ~ctx.attached
    <3>1. ~ctx'.attached /\ ~ctx'.ready
      BY <2>2, <2>4 DEF After, PairInv, ReadyIsEarned
    <3> QED
      BY <3>1 DEF PairInv, ReadyIsEarned, SessionAgrees, PairingHears
  <2> QED
    BY <2>3, <2>4
<1> QED
  BY <1>1, <1>2, <1>3, <1>4

LEMMA InitPair == Init => PairInv
BY DEF Init, PairInv, ReadyIsEarned, SessionAgrees, PairingHears, Cleared

LEMMA PairStep == TypeOK /\ PairInv /\ [Next]_vars => PairInv'
<1> SUFFICES ASSUME TypeOK, PairInv, [Next]_vars PROVE PairInv'
  OBVIOUS
<1>0. ctx' \in Context /\ Usb \in Actors /\ Threads \subseteq Actors
  BY TypeOKStep DEF TypeOK, Actors
<1>1. CASE UNCHANGED vars
  <2>1. UNCHANGED <<ctx, phones, accepted, interfered>>
        /\ (At(Usb, "idle")' => At(Usb, "idle"))
    BY <1>1 DEF vars, history, At
  <2> QED
    BY <2>1, SameContextKeeps
<1>2. CASE AddDevice \/ RemoveDevice \/ UsbCall
  BY <1>0, <1>2, UsbKeeps, StartKeeps DEF UsbCall
<1>3. CASE Completion
  BY <1>3, CompletionKeeps
<1>4. ASSUME NEW t \in Threads, Retry(t) PROVE PairInv'
  <2>1. t \in Actors
    BY <1>0
  <2> QED
    BY <1>0, <1>4, <2>1, RetryKeeps, RetryMoves, StartKeeps DEF Retry
<1> QED
  BY <1>1, <1>2, <1>3, <1>4 DEF Next

\* The three properties of the session, for every behaviour.
LEMMA Session == Spec => []PairInv
<1>1. TypeOK /\ PairInv /\ [Next]_vars => PairInv'
  BY PairStep
<1> QED
  BY InitPair, <1>1, PairingTypeCorrect, PTL DEF Spec

\* The tether driver never starts on a phone that has not accepted, or that is
\* no longer the one that did.
THEOREM ReadyEarned == Spec => []ReadyIsEarned
<1>1. PairInv => ReadyIsEarned
  BY DEF PairInv
<1> QED
  BY <1>1, Session, PTL

\* gCtx.state and the session of pair_session.cpp never drift apart, unless a
\* retry thread wrote for a state that had changed.
THEOREM SessionsAgree == Spec => []SessionAgrees
<1>1. PairInv => SessionAgrees
  BY DEF PairInv
<1> QED
  BY <1>1, Session, PTL

\* A pairing that goes on, and that no retry thread interfered with, has a
\* receive armed, whatever was refused before.
THEOREM PairingListens == Spec => []PairingHears
<1>1. PairInv => PairingHears
  BY DEF PairInv
<1> QED
  BY <1>1, Session, PTL
=============================================================================
