------------------------------ MODULE Notices ------------------------------
(***************************************************************************)
(* The notifications of the diagnostics (diag.cpp): a queue that every     *)
(* thread of the Core fills and the logger empties, one notice at a time.  *)
(*                                                                         *)
(* The queue and the mask of notices already given are guarded by          *)
(* gQueueLock.  It is only tried, 256 times, and as every thread's Log     *)
(* takes it too, any call may find it taken and go on without it: most     *)
(* then do nothing, which is no step here, but the two calls of the USB    *)
(* thread still write the word that names the active phone.  That is what  *)
(* a call that has the lock may meet between reading the word and the rest *)
(* of its work.  Calls of the USB thread meet nothing, and are one step.   *)
(***************************************************************************)
EXTENDS Naturals, Sequences

CONSTANTS
  Nothing,
  NotifyDepth,  \* slots of the queue, 16 in the code
  MaxPhones     \* bound: phones plugged in

NoticesConstants ==
  NotifyDepth \in Nat \ {0} /\ MaxPhones \in Nat /\ Nothing \notin 0..MaxPhones

ASSUME NoticesAssumption == NoticesConstants

\* Kinds of PhoneNoticeKind: one given when the phone is found, which a reset
\* leaves alone, and two that replace each other.  A kind has one text.  "other"
\* is what Notify queues, which names no phone.
Kinds    == {"Detected", "DataWorking", "DataNotWorking"}
Progress == {"DataWorking", "DataNotWorking"}
NoPhone  == 0
Phones   == 1..MaxPhones
Notice   == [phone : Phones, kind : Kinds] \cup
            [phone : {NoPhone}, kind : {"other"}]

Call == [op : {"notify", "reset", "pop"}, phone : 0..MaxPhones,
         kind : Kinds \cup {"other"}, saw : 0..MaxPhones \cup {Nothing}]

VARIABLES
  call,    \* the call that has gQueueLock
  active,  \* gActivePhoneConnection
  seen,    \* gPhoneNoticeSeenMask
  queue,   \* gNotifyQueue
  phone,   \* the phone last plugged in
  plugged, \* how far the USB thread is with it
  hand,    \* the notice the logger has popped and not shown yet
  owed,    \* history: notices of this phone asked for and still to be shown
  told,    \* history: those shown, or evicted, since the last reset
  gone,    \* history: phones whose EndPhoneNotifications has returned
  before,  \* history: `gone` when the logger began to pop
  leaky    \* history: Begin gave up, or left notices of a phone before

noticesVars == <<call, active, seen, queue, phone, plugged, hand, owed, told, gone,
          before, leaky>>

NoticesTypeOK ==
  /\ call \in Call \cup {Nothing}
  /\ active \in 0..MaxPhones /\ seen \subseteq Kinds
  /\ queue \in Seq(Notice) /\ Len(queue) <= NotifyDepth
  /\ phone \in 0..MaxPhones
  /\ plugged \in {"absent", "added", "begun", "present", "removed", "ended"}
  /\ hand \in Notice \cup {Nothing}
  /\ owed \subseteq Kinds /\ told \subseteq Kinds
  /\ gone \subseteq Phones /\ before \subseteq Phones /\ leaky \in BOOLEAN

NoticesInit ==
  /\ call = Nothing /\ active = 0 /\ seen = {} /\ queue = <<>>
  /\ phone = 0 /\ plugged = "absent" /\ hand = Nothing
  /\ owed = {} /\ told = {} /\ gone = {} /\ before = {} /\ leaky = FALSE

-----------------------------------------------------------------------------
(* The queue and the mask.                                                 *)

\* The loop of the three removals: what stays is copied down in its order.
Without(q, removed) ==
  LET kept == {i \in DOMAIN q : q[i] \notin removed}
      from == CHOOSE f \in UNION {[1..n -> kept] : n \in 0..Len(q)} :
                /\ \A a, b \in DOMAIN f : a < b => f[a] < f[b]
                /\ \A i \in kept : \E a \in DOMAIN f : f[a] = i
  IN [a \in DOMAIN from |-> q[from[a]]]

\* RemovePhoneNotificationsUnlocked and RemovePhoneProgressUnlocked.
WithoutPhone(q, p)    == Without(q, [phone : {p}, kind : Kinds])
WithoutProgress(q, p) == Without(q, [phone : {p}, kind : Progress])

\* Two notices of one kind have the same text, whatever their phones.
Duplicate(q, k) == \E i \in DOMAIN q : q[i].kind = k

\* The oldest notice makes room, where there is none.
Evicted(q) == IF Len(q) = NotifyDepth THEN {Head(q)} ELSE {}

Put(q, p, k) ==
  Append(IF Evicted(q) = {} THEN q ELSE Tail(q), [phone |-> p, kind |-> k])

\* Mutant of Recovered: what is no longer true stays queued.
RecoveredKeeps(q, p, k) == q

\* The data path works: a queued notice that says otherwise is removed.
Recovered(q, p, k) ==
  IF k = "DataWorking"
  THEN Without(q, [phone : {p}, kind : {"DataNotWorking"}])
  ELSE q

\* It may then be given again; but an empty queue is not looked through.
Renewed(k) ==
  IF k = "DataWorking" /\ queue # <<>> THEN {"DataNotWorking"} ELSE {}

Marked(s, k) == s \cup {k}

\* Mutant of ResetMask: what is removed from the queue still counts as given.
ResetMaskKeeps(s) == s

ResetMask(s) == s \ Progress

-----------------------------------------------------------------------------
(* What the phone plugged in is owed.                                      *)

Queued(p) == {queue[i].kind : i \in {j \in DOMAIN queue : queue[j].phone = p}}
Of(notices) == {n.kind : n \in {m \in notices : m.phone = phone}} \cap Kinds

Lose(notices) == owed' = owed \ Of(notices) /\ told' = told \cup Of(notices)

\* NotifyPhone was asked for a notice, and evicts others: it is owed, unless it
\* was given before.
Owes(p, k, evicted) ==
  LET given == (told \ Renewed(k)) \cup Of(evicted) IN
  IF p # phone \/ p \in gone THEN UNCHANGED <<owed, told>>
  ELSE /\ told' = given
       /\ owed' = ((owed \ Renewed(k)) \cup {k}) \ given

-----------------------------------------------------------------------------
(* NotifyPhone and ResetPhoneProgressNotifications on a thread other than  *)
(* the USB thread: the connection is the one it was started for, which may *)
(* be gone, or the one it reads.                                           *)

Calls(op, p, k) ==
  /\ call = Nothing
  /\ call' = [op |-> op, phone |-> p, kind |-> k, saw |-> Nothing]
  /\ UNCHANGED <<active, seen, queue, phone, plugged, hand, owed, told, gone,
                 leaky>>

CallNotify ==
  /\ \E p \in 1..phone, k \in Progress : Calls("notify", p, k)
  /\ UNCHANGED before

CallReset == (\E p \in 1..phone : Calls("reset", p, "other")) /\ UNCHANGED before

\* The word is read, with the lock held.
Looks ==
  /\ call # Nothing /\ call.saw = Nothing
  /\ call.op = "pop" => queue # <<>>
  /\ call' = [call EXCEPT !.saw = active]
  /\ UNCHANGED <<active, seen, queue, phone, plugged, hand, owed, told, gone,
                 before, leaky>>

Goes(op) == call # Nothing /\ call.op = op /\ call.saw # Nothing

\* Another phone is active.
Ignored ==
  /\ Goes("notify") \/ Goes("reset")
  /\ call.saw # call.phone
  /\ call' = Nothing
  /\ UNCHANGED <<active, seen, queue, phone, plugged, hand, owed, told, gone,
                 before, leaky>>

Reset ==
  /\ Goes("reset") /\ call.saw = call.phone
  /\ call' = Nothing
  /\ seen' = ResetMask(seen) /\ queue' = WithoutProgress(queue, call.phone)
  /\ IF call.phone = phone
     THEN owed' = owed \ Progress /\ told' = told \ Progress
     ELSE UNCHANGED <<owed, told>>
  /\ UNCHANGED <<active, phone, plugged, hand, gone, before, leaky>>

\* It has been given, or is queued.
Again(p, k) == k \in seen \ Renewed(k) \/ Duplicate(Recovered(queue, p, k), k)

Kept(p, k) ==
  /\ Again(p, k)
  /\ queue' = Recovered(queue, p, k) /\ seen' = seen \ Renewed(k)
  /\ Owes(p, k, {})

Added(p, k) ==
  LET q == Recovered(queue, p, k) IN
  /\ ~Again(p, k)
  /\ queue' = Put(q, p, k) /\ seen' = Marked(seen \ Renewed(k), k)
  /\ Owes(p, k, Evicted(q))

\* Mutant of Notify: the early return of a duplicate keeps the lock.
NotifyKeepsLock ==
  /\ Goes("notify") /\ call.saw = call.phone
  /\ \/ Kept(call.phone, call.kind) /\ UNCHANGED call
     \/ Added(call.phone, call.kind) /\ call' = Nothing
  /\ UNCHANGED <<active, phone, plugged, hand, gone, before, leaky>>

Notify ==
  /\ Goes("notify") /\ call.saw = call.phone
  /\ Kept(call.phone, call.kind) \/ Added(call.phone, call.kind)
  /\ call' = Nothing
  /\ UNCHANGED <<active, phone, plugged, hand, gone, before, leaky>>

\* QueueNotification, on any thread.
QueueNotification ==
  /\ call = Nothing
  /\ ~Duplicate(queue, "other")
  /\ queue' = Put(queue, NoPhone, "other")
  /\ Lose(Evicted(queue))
  /\ UNCHANGED <<call, active, seen, phone, plugged, hand, gone, before, leaky>>

-----------------------------------------------------------------------------
(* The USB thread: AddDevice and RemoveDevice.                             *)

Add ==
  /\ plugged = "absent" /\ phone < MaxPhones
  /\ phone' = phone + 1 /\ plugged' = "added"
  /\ UNCHANGED <<call, active, seen, queue, hand, owed, told, gone, before, leaky>>

\* What is left of a phone other than the one that was active stays queued.
Begin ==
  /\ plugged = "added" /\ plugged' = "begun"
  /\ call = Nothing
  /\ queue' = IF active \in {0, phone} THEN queue ELSE WithoutPhone(queue, active)
  /\ seen' = {} /\ active' = phone
  /\ owed' = {} /\ told' = {}
  /\ leaky' = \E i \in DOMAIN queue' : queue'[i].phone # NoPhone
  /\ UNCHANGED <<call, phone, hand, gone, before>>

BeginGivesUp ==
  /\ plugged = "added" /\ plugged' = "begun"
  /\ active' = phone
  /\ owed' = {} /\ told' = {} /\ leaky' = TRUE
  /\ UNCHANGED <<call, seen, queue, phone, hand, gone, before>>

Detected ==
  /\ plugged = "begun" /\ plugged' = "present"
  /\ call = Nothing
  /\ Kept(phone, "Detected") \/ Added(phone, "Detected")
  /\ UNCHANGED <<call, active, phone, hand, gone, before, leaky>>

DetectedGivesUp ==
  /\ plugged = "begun" /\ plugged' = "present"
  /\ UNCHANGED <<call, active, seen, queue, phone, hand, owed, told, gone,
                 before, leaky>>

Remove ==
  /\ plugged = "present" /\ plugged' = "removed"
  /\ UNCHANGED <<call, active, seen, queue, phone, hand, owed, told, gone,
                 before, leaky>>

End ==
  /\ plugged = "removed" /\ plugged' = "ended"
  /\ call = Nothing
  /\ queue' = WithoutPhone(queue, phone)
  /\ IF active = phone THEN seen' = {} /\ active' = 0
                       ELSE UNCHANGED <<seen, active>>
  /\ owed' = {} /\ told' = {} /\ gone' = gone \cup {phone}
  /\ UNCHANGED <<call, phone, hand, before, leaky>>

\* Mutant of EndGivesUp: without the lock the phone stays the active one.
EndGivesUpKeepsActive ==
  /\ plugged = "removed" /\ plugged' = "ended"
  /\ owed' = {} /\ told' = {} /\ gone' = gone \cup {phone}
  /\ UNCHANGED <<call, active, seen, queue, phone, hand, before, leaky>>

EndGivesUp ==
  /\ plugged = "removed" /\ plugged' = "ended"
  /\ active' = IF active = phone THEN 0 ELSE active
  /\ owed' = {} /\ told' = {} /\ gone' = gone \cup {phone}
  /\ UNCHANGED <<call, seen, queue, phone, hand, before, leaky>>

\* "iPhone Disconnected" is one of the notices that QueueNotification queues.
Removed ==
  /\ plugged = "ended" /\ plugged' = "absent"
  /\ UNCHANGED <<call, active, seen, queue, phone, hand, owed, told, gone,
                 before, leaky>>

-----------------------------------------------------------------------------
(* PopNotify on the logger.  A notice of a phone that is gone is dropped,  *)
(* and the word read again for the next one.                               *)

CallPop ==
  /\ hand = Nothing
  /\ Calls("pop", 0, "other") /\ before' = gone

PopEnds ==
  /\ call # Nothing /\ call.op = "pop" /\ queue = <<>>
  /\ call' = Nothing /\ before' = {}
  /\ UNCHANGED <<active, seen, queue, phone, plugged, hand, owed, told, gone,
                 leaky>>

Stale(n) == n.phone \notin {NoPhone, call.saw}

PopDrops ==
  /\ Goes("pop") /\ Stale(Head(queue))
  /\ queue' = Tail(queue) /\ call' = [call EXCEPT !.saw = Nothing]
  /\ UNCHANGED <<active, seen, phone, plugged, hand, owed, told, gone, before,
                 leaky>>

PopTakes ==
  /\ Goes("pop") /\ ~Stale(Head(queue))
  /\ hand' = Head(queue) /\ queue' = Tail(queue) /\ call' = Nothing
  /\ Lose({Head(queue)})
  /\ UNCHANGED <<active, seen, phone, plugged, gone, before, leaky>>

\* ShowSystem.
Show ==
  /\ hand # Nothing /\ hand' = Nothing /\ before' = {}
  /\ UNCHANGED <<call, active, seen, queue, phone, plugged, owed, told, gone,
                 leaky>>

-----------------------------------------------------------------------------
\* What the call that has the lock does.
Work == Looks \/ Ignored \/ Reset \/ Notify \/ PopEnds \/ PopDrops \/ PopTakes

NoticesNext ==
  \/ CallNotify \/ CallReset \/ CallPop \/ QueueNotification
  \/ Work \/ Show
  \/ Add \/ Begin \/ BeginGivesUp \/ Detected \/ DetectedGivesUp
  \/ Remove \/ End \/ EndGivesUp \/ Removed

NoticesSpec == NoticesInit /\ [][NoticesNext]_noticesVars

\* A call goes on, and the logger pops again and again: its file takes lines
\* faster than they come.  The lock is only tried, so getting it is no more than
\* strongly fair.
Fairness == WF_noticesVars(Work) /\ WF_noticesVars(Show) /\ SF_noticesVars(CallPop)

FairSpec == NoticesSpec /\ Fairness

-----------------------------------------------------------------------------
(* Properties.                                                             *)

\* A notice that NotifyPhone accepted, or took for given, reaches the user unless
\* it was given, replaced, reset or evicted: mask and queue agree, whichever
\* threads ask, reset and unplug between, and whoever does not get the lock.  A
\* Begin that gave up, or left notices of a phone before, is the exception.
NoticeReachesUser == leaky \/ owed \subseteq Queued(phone)

\* No notice is queued twice, nor again after it was shown; and the user is not
\* told that the data path fails before being told that it works.
GivenOnce ==
  /\ told \cap Queued(phone) = {}
  /\ \A i, j \in DOMAIN queue : queue[i] = queue[j] => i = j
  /\ \A i, j \in DOMAIN queue :
       i < j /\ queue[i].phone = queue[j].phone =>
         ~(queue[i].kind = "DataNotWorking" /\ queue[j].kind = "DataWorking")

\* A phone's notices are not shown after it has gone, although the call that
\* removes them may not get the lock.
NothingOfTheDeparted == hand # Nothing => hand.phone \notin before

\* Every queued notice leaves the queue: nobody keeps the lock.
QueueDrains ==
  \A k \in Kinds : (\E i \in DOMAIN queue : queue[i].kind = k)
                     ~> (\A i \in DOMAIN queue : queue[i].kind # k)
============================================================================
