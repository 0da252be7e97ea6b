----------------------------- MODULE PairStore ------------------------------
(***************************************************************************)
(* The pair records on the console's drives (pair_store.cpp, the file      *)
(* functions of platform/xbox_platform.cpp), and the part of the usbmux    *)
(* driver that saves, loads and deletes them (usbmux_probe.cpp).           *)
(*                                                                         *)
(* All of it runs on the USB callback thread.  What interferes is the      *)
(* world: a drive that refuses a file or a write, a stick that is moved,   *)
(* and a power cut, which may tear whatever was written and has not        *)
(* reached the drive; nothing in the code flushes a file.                  *)
(*                                                                         *)
(* A file is the text of one record up to some point.  Files of different  *)
(* names do not meet, so there is one name here, and Phones are devices    *)
(* whose UDID SanitizeId reduces to it: mostly one.                        *)
(*                                                                         *)
(* HostID, SystemBUID, keys and certificates of the console are embedded   *)
(* (pair_crypto_provider.cpp), the same in every record: a phone trusts    *)
(* the console or does not.  What is of one pairing is the rest, the       *)
(* device certificate and the escrow bag; a record has that pairing's      *)
(* number for it.                                                          *)
(***************************************************************************)
EXTENDS Naturals, FiniteSets

CONSTANTS
  Phones,       \* devices that share the name of the file
  Volumes,      \* drives
  NumRoots,     \* RootCount, 5 in the code
  None,         \* no drive, no file, no record, no phone
  MaxPairings,  \* bound: pairings that succeed
  MaxMoves,     \* bound: sticks plugged in or pulled
  MaxCuts       \* bound: power cuts

ASSUME BoundsAssumption ==
  NumRoots \in Nat \ {0} /\ MaxPairings \in Nat /\ MaxMoves \in Nat /\ MaxCuts \in Nat

VARIABLES
  at,        \* the drive that each root names, or None
  disk,      \* the file on each drive, or None
  pc,        \* where the USB thread is
  phone,     \* the phone that is connected (gCtx.udid)
  record,    \* gPairRecord while gPairRecordLoaded
  root,      \* the index of the loop over the roots
  handle,    \* the drive of the file that is open for writing, or None
  trusts,    \* whether each phone knows the console's identity
  pairings,  \* number of pairings that succeeded, and that of the last one
  moves,     \* number of sticks plugged in or pulled, for the bound
  cuts,      \* number of power cuts, for the bound
  paired,    \* history: the phone and the number of each of them
  kept,      \* history: the record that the last save promised, and its root
  sweep,     \* history: the deletion under way has met every copy so far
  gone       \* history: the last pairing before every copy was deleted

storage == <<at, disk>>
session == <<phone, record, trusts, pairings, paired>>
bounds  == <<moves, cuts>>
history == <<kept, sweep, gone>>
vars    == <<storage, pc, root, handle, session, bounds, history>>

Roots    == 1..NumRoots
Pairings == 1..MaxPairings

(***************************************************************************)
(* How much of the text is there.  Broken: it ends before the value of     *)
(* DeviceCertificate has begun, the last line without which a record does  *)
(* not parse.  Cut: it ends in that value or in the optional lines after   *)
(* it, and GetLine takes a value that ends with the file for whole.        *)
(***************************************************************************)
Broken == 0
Cut    == 1
Whole  == 2
Extent == Broken..Whole

\* ReadStoredFile and DeserializePairRecord.
Parses(e) == e >= Cut

File   == [phone : Phones, pairing : Pairings, extent : Extent, flushed : BOOLEAN]
Record == [phone : Phones, pairing : Pairings, extent : Extent]

ASSUME NoneAssumption == None \notin Phones \cup Volumes \cup File \cup Record

PcOf == {"away", "udid", "validate", "delete", "wifi", "pair", "open",
         "write", "close", "ready", "failed"}

TypeOK ==
  /\ at \in [Roots -> Volumes \cup {None}]
  /\ disk \in [Volumes -> File \cup {None}]
  /\ pc \in PcOf
  /\ phone \in Phones \cup {None}
  /\ record \in Record \cup {None}
  /\ root \in 1..(NumRoots + 1)
  /\ handle \in Volumes \cup {None}
  /\ trusts \in [Phones -> BOOLEAN]
  /\ pairings \in 0..MaxPairings /\ moves \in 0..MaxMoves /\ cuts \in 0..MaxCuts
  /\ paired \in SUBSET (Phones \X Pairings)
  /\ kept \in [phone : Phones, pairing : Pairings, root : Roots] \cup {None}
  /\ sweep \in BOOLEAN
  /\ gone \in 0..MaxPairings

Mounted(r) == at[r] # None
FileAt(r)  == IF Mounted(r) THEN disk[at[r]] ELSE None

\* No stick is plugged in twice, and every drive starts without a record.
Init ==
  /\ at \in [Roots -> Volumes \cup {None}]
  /\ \A r, s \in Roots : Mounted(r) /\ at[r] = at[s] => r = s
  /\ disk = [v \in Volumes |-> None]
  /\ pc = "away" /\ phone = None /\ record = None
  /\ root = 1 /\ handle = None
  /\ trusts = [p \in Phones |-> FALSE]
  /\ pairings = 0 /\ moves = 0 /\ cuts = 0
  /\ paired = {} /\ kept = None /\ sweep = FALSE /\ gone = 0

-----------------------------------------------------------------------------
(* LoadPairRecord.                                                         *)

\* Mutant of Mine: the UDID in the file is not compared.
MineWhosever(f, p) == f # None /\ Parses(f.extent)

Mine(f, p) == f # None /\ Parses(f.extent) /\ f.phone = p

\* The first root whose file reads, parses and has the phone's own UDID;
\* unread are the roots whose file cannot be read this time.
Takes(p, unread) == {r \in Roots \ unread : Mine(FileAt(r), p)}

LoadPairRecord(p, unread) ==
  IF Takes(p, unread) = {} THEN None
  ELSE LET r == CHOOSE r \in Takes(p, unread) :
                  \A s \in Takes(p, unread) : r <= s
           f == FileAt(r)
       IN [phone |-> f.phone, pairing |-> f.pairing, extent |-> f.extent]

\* AddDevice, and the requests up to the one for the UDID.  It clears the
\* record and the session of the phone before; nothing looks at them earlier,
\* and here RemoveDevice does.
AddDevice(p) ==
  /\ pc = "away"
  /\ phone' = p /\ pc' = "udid"
  /\ UNCHANGED <<storage, root, handle, record, trusts, pairings, paired,
                 bounds, history>>

\* HandleCompleteLockdownPlist in ProbeGetUdidSent.
UdidReply ==
  /\ pc = "udid"
  /\ \E unread \in SUBSET Roots :
       /\ record' = LoadPairRecord(phone, unread)
       /\ pc' = IF record' # None THEN "validate" ELSE "wifi"
  /\ UNCHANGED <<storage, root, handle, phone, trusts, pairings, paired,
                 bounds, history>>

-----------------------------------------------------------------------------
(* ProbeValidatePairSent: a phone that knows the console may accept; any   *)
(* phone may answer with an error.                                         *)

ValidateAccepted ==
  /\ pc = "validate" /\ trusts[phone]
  /\ pc' = "ready"
  /\ UNCHANGED <<storage, root, handle, session, bounds, history>>

\* FallBackFromStoredPair, and the first step of DeletePairRecord.
ValidateRejected ==
  /\ pc = "validate"
  /\ pc' = "delete" /\ root' = 1
  /\ sweep' = \A v \in Volumes : \E r \in Roots : at[r] = v
  /\ UNCHANGED <<storage, handle, session, bounds, kept, gone>>

\* RemoveFile on one root.
Deletes(r) ==
  \/ /\ FileAt(r) # None
     /\ disk' = [disk EXCEPT ![at[r]] = None]
     /\ kept' = None
     /\ UNCHANGED sweep
  \/ /\ UNCHANGED <<disk, kept>>
     /\ sweep' = (sweep /\ FileAt(r) = None)

\* Mutant of DeleteRoot: the loop ends with the first removal.
DeleteRootFirst ==
  /\ pc = "delete" /\ root \in Roots
  /\ Deletes(root)
  /\ root' = IF disk' # disk THEN NumRoots + 1 ELSE root + 1
  /\ UNCHANGED <<at, pc, handle, session, bounds, gone>>

DeleteRoot ==
  /\ pc = "delete" /\ root \in Roots
  /\ Deletes(root)
  /\ root' = root + 1
  /\ UNCHANGED <<at, pc, handle, session, bounds, gone>>

\* The end of the loop, and ClearStoredPairRecord.
DeleteEnds ==
  /\ pc = "delete" /\ root \notin Roots
  /\ gone' = IF sweep THEN pairings ELSE gone
  /\ record' = None
  /\ pc' = "wifi" /\ root' = 1 /\ sweep' = FALSE
  /\ UNCHANGED <<storage, handle, phone, trusts, pairings, paired,
                 bounds, kept>>

-----------------------------------------------------------------------------
(* The Pair flow.                                                          *)

\* The reply with the public key: GeneratePairIdentity hands out the embedded
\* identity, whoever asks and however often, and a certificate for the phone's
\* key.  It fails without the kernel's cryptography.
PublicKeyReply ==
  /\ pc = "wifi"
  /\ pc' \in {"pair", "failed"}
  /\ UNCHANGED <<storage, root, handle, session, bounds, history>>

\* The user trusts the console: the phone knows it from now on, whether or not
\* its reply arrives.
UserTrusts ==
  /\ pc = "pair"
  /\ trusts' = [trusts EXCEPT ![phone] = TRUE]
  /\ UNCHANGED <<storage, pc, root, handle, phone, record, pairings, paired,
                 bounds, history>>

\* The reply Success, and the first step of SavePairRecord.
PairSucceeded ==
  /\ pc = "pair" /\ trusts[phone] /\ pairings < MaxPairings
  /\ pairings' = pairings + 1
  /\ paired' = paired \cup {<<phone, pairings'>>}
  /\ pc' = "open" /\ root' = 1
  /\ UNCHANGED <<storage, handle, phone, record, trusts, bounds, history>>

PairRefused ==
  /\ pc = "pair"
  /\ pc' = "failed"
  /\ UNCHANGED <<storage, root, handle, session, bounds, history>>

-----------------------------------------------------------------------------
(* SavePairRecord: the first root that takes the whole text.               *)

\* OpenTruncate creates or empties the file.
SaveOpen ==
  /\ pc = "open" /\ root \in Roots /\ Mounted(root)
  /\ disk' = [disk EXCEPT ![at[root]] =
                [phone |-> phone, pairing |-> pairings, extent |-> Broken,
                 flushed |-> FALSE]]
  /\ handle' = at[root] /\ pc' = "write"
  /\ kept' = None
  /\ UNCHANGED <<at, root, session, bounds, sweep, gone>>

\* There is no drive, or it refuses: the file there is left as it is.
SaveOpenFails ==
  /\ pc = "open" /\ root \in Roots
  /\ root' = root + 1
  /\ kept' = IF Mounted(root) THEN None ELSE kept
  /\ UNCHANGED <<storage, pc, handle, session, bounds, sweep, gone>>

\* SavePairRecord returns false, and the pairing stands without a record.
SaveGivesUp ==
  /\ pc = "open" /\ root \notin Roots
  /\ pc' = "ready" /\ root' = 1
  /\ UNCHANGED <<storage, handle, session, bounds, history>>

Unwritten == handle # None => disk[handle].extent < Whole

\* WriteAll: one call of WriteFile, which may write less than it was given.
SaveWrite ==
  /\ pc = "write" /\ handle # None /\ Unwritten
  /\ \E e \in (disk[handle].extent + 1)..Whole :
       disk' = [disk EXCEPT ![handle].extent = e, ![handle].flushed = FALSE]
  /\ UNCHANGED <<at, pc, root, handle, session, bounds, history>>

\* A call of WriteFile fails: CloseFile, and the next root.
SaveWriteFails ==
  /\ pc = "write" /\ Unwritten
  /\ pc' = "open" /\ root' = root + 1 /\ handle' = None
  /\ UNCHANGED <<storage, session, bounds, history>>

\* The record that is kept is the one on the first drive there is.
Promised == IF \E r \in 1..(root - 1) : Mounted(r) THEN None
            ELSE [phone |-> phone, pairing |-> pairings, root |-> root]

\* Mutant of SaveDone: WriteAll takes a short write for a full one.
SaveDoneShort ==
  /\ pc = "write" /\ handle # None /\ disk[handle].extent >= Cut
  /\ pc' = "ready" /\ handle' = None /\ root' = 1
  /\ kept' = Promised
  /\ UNCHANGED <<storage, session, bounds, sweep, gone>>

\* CloseFile after the last byte; SavePairRecord returns true.
SaveDone ==
  /\ pc = "write" /\ handle # None /\ ~Unwritten
  /\ pc' = "ready" /\ handle' = None /\ root' = 1
  /\ kept' = Promised
  /\ UNCHANGED <<storage, session, bounds, sweep, gone>>

-----------------------------------------------------------------------------
(* The phone leaves; it runs on the same thread, between two handlers.     *)

RemoveDevice ==
  /\ pc \in {"udid", "validate", "wifi", "pair", "ready", "failed"}
  /\ pc' = "away" /\ phone' = None /\ record' = None
  /\ UNCHANGED <<storage, root, handle, trusts, pairings, paired, bounds, history>>

USBThread ==
  \/ \E p \in Phones : AddDevice(p)
  \/ UdidReply \/ ValidateAccepted \/ ValidateRejected
  \/ DeleteRoot \/ DeleteEnds
  \/ PublicKeyReply \/ PairSucceeded \/ PairRefused
  \/ SaveOpen \/ SaveOpenFails \/ SaveGivesUp
  \/ SaveWrite \/ SaveWriteFails \/ SaveDone
  \/ RemoveDevice

-----------------------------------------------------------------------------
(* The world.                                                              *)

\* "Reset Location & Privacy" on a phone.
PhoneForgets(p) ==
  /\ trusts[p]
  /\ trusts' = [trusts EXCEPT ![p] = FALSE]
  /\ UNCHANGED <<storage, pc, root, handle, phone, record, pairings, paired,
                 bounds, history>>

\* What is left of a file that was not flushed.
Torn(f) == IF f = None \/ f.flushed THEN {f}
           ELSE {[f EXCEPT !.extent = e, !.flushed = TRUE] : e \in Broken..f.extent}

\* The file system writes back what it holds.
Flushed(v) ==
  /\ disk[v] # None /\ ~disk[v].flushed
  /\ disk' = [disk EXCEPT ![v].flushed = TRUE]
  /\ UNCHANGED <<at, pc, root, handle, session, bounds, history>>

\* A stick is pulled; a file that is open on it cannot be written any more.
Pull(r) ==
  /\ Mounted(r) /\ moves < MaxMoves
  /\ moves' = moves + 1
  /\ at' = [at EXCEPT ![r] = None]
  /\ \E f \in Torn(FileAt(r)) : disk' = [disk EXCEPT ![at[r]] = f]
  /\ handle' = IF handle = at[r] THEN None ELSE handle
  /\ kept' = IF kept # None /\ r > kept.root THEN kept ELSE None
  /\ sweep' = FALSE
  /\ UNCHANGED <<pc, root, session, cuts, gone>>

Insert(v, r) ==
  /\ ~Mounted(r) /\ v \notin {at[s] : s \in Roots} /\ moves < MaxMoves
  /\ moves' = moves + 1
  /\ at' = [at EXCEPT ![r] = v]
  /\ kept' = IF kept # None /\ r > kept.root THEN kept ELSE None
  /\ sweep' = FALSE
  /\ UNCHANGED <<disk, pc, root, handle, session, cuts, gone>>

PowerCut ==
  /\ cuts < MaxCuts
  /\ cuts' = cuts + 1
  /\ \E d \in [Volumes -> File \cup {None}] :
       /\ \A v \in Volumes : d[v] \in Torn(disk[v])
       /\ disk' = d
  /\ kept' = IF kept # None /\ FileAt(kept.root).flushed THEN kept ELSE None
  /\ pc' = "away" /\ phone' = None /\ record' = None
  /\ root' = 1 /\ handle' = None /\ sweep' = FALSE
  /\ UNCHANGED <<at, trusts, pairings, paired, moves, gone>>

World ==
  \/ UserTrusts
  \/ \E p \in Phones : PhoneForgets(p)
  \/ \E v \in Volumes : Flushed(v)
  \/ \E r \in Roots : Pull(r)
  \/ \E v \in Volumes, r \in Roots : Insert(v, r)
  \/ PowerCut

Next == USBThread \/ World

Spec == Init /\ [][Next]_vars

-----------------------------------------------------------------------------
(***************************************************************************)
(* The record that the driver offers to a phone is one that this phone was *)
(* paired with: never another phone's whose file has the same name, never  *)
(* one that a torn write left without its keys (LoadPairRecord,            *)
(* DeserializePairRecord).  It is not said that the record is whole: a     *)
(* text that is cut in its device certificate or after it is accepted.     *)
(***************************************************************************)
OwnRecord ==
  pc = "validate" => /\ record # None /\ record.phone = phone
                     /\ <<phone, record.pairing>> \in paired
                     /\ Parses(record.extent)

(***************************************************************************)
(* A record that SavePairRecord reported as saved, on the first drive      *)
(* there is, is the one that LoadPairRecord finds, whole, through further  *)
(* sessions and power cuts: until another pairing or a deletion touches a  *)
(* file of that name, a drive before it is moved, or the power is cut      *)
(* while the file is not on the drive.  Saved behind a drive that refused  *)
(* it, the record may be shadowed by what that drive holds.                *)
(***************************************************************************)
SavedIsLoaded ==
  kept # None => LoadPairRecord(kept.phone, {}) =
                   [phone |-> kept.phone, pairing |-> kept.pairing, extent |-> Whole]

(***************************************************************************)
(* A record that its phone refused does not come back, from whichever      *)
(* roots can be read, and no older one in its place: after                 *)
(* DeletePairRecord met every copy, those that a failed write left behind  *)
(* too, what is loaded is of a pairing that succeeded after the refusal.   *)
(* A drive that was away or refused the removal may bring one back         *)
(* (sweep).  The console's identity is the same in the new record.         *)
(***************************************************************************)
RefusedStaysGone ==
  \A p \in Phones, unread \in SUBSET Roots :
    LoadPairRecord(p, unread) # None => LoadPairRecord(p, unread).pairing > gone
=============================================================================
