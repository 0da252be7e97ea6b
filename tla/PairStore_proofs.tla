-------------------------- MODULE PairStore_proofs --------------------------
(***************************************************************************)
(* Proofs about the pair records of PairStore, for any number of phones,   *)
(* drives, roots, pairings, moves and power cuts.                          *)
(***************************************************************************)
EXTENDS PairStore, WellFoundedInduction, TLAPS

-----------------------------------------------------------------------------
(* The inductive invariant.                                                *)

\* No two roots name the same drive.
DrivesInv == \A r, s \in Roots : at[r] # None /\ at[r] = at[s] => r = s

\* What the USB thread works on is of the phone that is connected, and the file
\* that it writes is on the root that the loop has reached.
SessionInv ==
  /\ pc # "away" => phone \in Phones
  /\ pc \in {"open", "write"} => /\ pairings \in Pairings /\ pairings > gone
                                 /\ <<phone, pairings>> \in paired
  /\ pc \in {"validate", "delete"} => /\ record # None /\ record.phone = phone
                                      /\ <<phone, record.pairing>> \in paired
                                      /\ Parses(record.extent)
  /\ pc = "write" => root \in Roots

HandleInv ==
  handle # None => /\ pc = "write" /\ at[root] = handle /\ disk[handle] # None
                   /\ disk[handle].phone = phone /\ disk[handle].pairing = pairings

\* A file that parses is of a pairing that succeeded, and every file is of one
\* after the last deletion that met every copy.
StoredInv ==
  /\ \A v \in Volumes : disk[v] # None =>
       /\ Parses(disk[v].extent) => <<disk[v].phone, disk[v].pairing>> \in paired
       /\ disk[v].pairing > gone
  /\ gone <= pairings

\* While a deletion has met every copy, there is none behind it.
SweepInv ==
  sweep => /\ pc = "delete"
           /\ \A v \in Volumes : \E r \in Roots : at[r] = v
           /\ \A r \in 1..(root - 1) : FileAt(r) = None

\* The record that was saved is whole on its drive, the first there is.
KeptInv ==
  kept # None =>
    /\ pc # "write"
    /\ at[kept.root] # None
    /\ LET f == disk[at[kept.root]]
       IN  f # None /\ f.phone = kept.phone /\ f.pairing = kept.pairing /\ f.extent = Whole
    /\ \A r \in 1..(kept.root - 1) : at[r] = None

IInv == TypeOK /\ DrivesInv /\ SessionInv /\ HandleInv /\ StoredInv /\ SweepInv /\ KeptInv

LEMMA InitInv == Init => IInv
<1> SUFFICES ASSUME Init PROVE IInv
  OBVIOUS
<1> USE BoundsAssumption DEF Init
<1>1. TypeOK
  <2>1. disk = [v \in Volumes |-> None] /\ trusts = [p \in Phones |-> FALSE]
    OBVIOUS
  <2>2. disk \in [Volumes -> File \cup {None}]
    BY <2>1
  <2>3. trusts \in [Phones -> BOOLEAN]
    BY <2>1
  <2>4. paired \in SUBSET (Phones \X Pairings) /\ gone \in 0..MaxPairings
    OBVIOUS
  <2>5. at \in [Roots -> Volumes \cup {None}]
    OBVIOUS
  <2>6. /\ pc \in PcOf /\ phone \in Phones \cup {None} /\ record \in Record \cup {None}
        /\ root \in 1..(NumRoots + 1)
        /\ handle \in Volumes \cup {None}
        /\ pairings \in 0..MaxPairings /\ moves \in 0..MaxMoves /\ cuts \in 0..MaxCuts
    BY DEF PcOf
  <2>7. kept \in [phone : Phones, pairing : Pairings, root : Roots] \cup {None} /\ sweep \in BOOLEAN
    OBVIOUS
  <2> HIDE DEF Init
  <2> QED
    BY <2>2, <2>3, <2>4, <2>5, <2>6, <2>7 DEF TypeOK
<1>2. DrivesInv
  BY DEF DrivesInv, Mounted
<1>3. SessionInv /\ HandleInv /\ SweepInv /\ KeptInv
  BY DEF SessionInv, HandleInv, SweepInv, KeptInv
<1>4. StoredInv
  BY DEF StoredInv
<1> QED
  BY <1>1, <1>2, <1>3, <1>4 DEF IInv

-----------------------------------------------------------------------------
(* LoadPairRecord.                                                         *)

LEMMA Least ==
  ASSUME NEW T \in SUBSET Nat, T # {}
  PROVE  \E r \in T : \A s \in T : r <= s
<1>1. PICK x \in T : \A y \in T : ~ (<<y, x>> \in OpToRel(<, Nat))
  <2>1. T \subseteq Nat
    OBVIOUS
  <2> QED
    BY <2>1, NatLessThanWellFounded, WFMin
<1>2. ASSUME NEW y \in T
      PROVE  x <= y
  <2>1. x \in Nat /\ y \in Nat
    OBVIOUS
  <2>2. CASE y < x
    <3>1. <<y, x>> \in Nat \X Nat /\ <<y, x>>[1] < <<y, x>>[2]
      BY <2>1, <2>2
    <3>2. <<y, x>> \in OpToRel(<, Nat)
      BY <3>1 DEF OpToRel
    <3> QED
      BY <1>1, <3>2
  <2> QED
    BY <2>1, <2>2
<1> QED
  BY <1>2

RecordOf(f) == [phone |-> f.phone, pairing |-> f.pairing, extent |-> f.extent]

\* The record that is loaded is the one on the first root that has one.
LEMMA LoadIsFirst ==
  ASSUME NEW p, NEW unread
  PROVE  \/ Takes(p, unread) = {} /\ LoadPairRecord(p, unread) = None
         \/ \E r \in Takes(p, unread) :
              /\ \A s \in Takes(p, unread) : r <= s
              /\ LoadPairRecord(p, unread) = RecordOf(FileAt(r))
<1>1. CASE Takes(p, unread) = {}
  BY <1>1 DEF LoadPairRecord
<1>2. CASE Takes(p, unread) # {}
  <2> DEFINE First(r) == r \in Takes(p, unread) /\ \A s \in Takes(p, unread) : r <= s
             r0 == CHOOSE r \in Takes(p, unread) : \A s \in Takes(p, unread) : r <= s
  <2>1. Takes(p, unread) \in SUBSET Nat
    BY BoundsAssumption DEF Takes, Roots
  <2>2. \E r \in Takes(p, unread) : \A s \in Takes(p, unread) : r <= s
    BY <1>2, <2>1, Least
  <2>3. r0 \in Takes(p, unread) /\ \A s \in Takes(p, unread) : r0 <= s
    BY <2>2
  <2>4. LoadPairRecord(p, unread) = RecordOf(FileAt(r0))
    BY <1>2 DEF LoadPairRecord, RecordOf
  <2> QED
    BY <2>3, <2>4
<1> QED
  BY <1>1, <1>2

LEMMA LoadIsStored ==
  ASSUME TypeOK, NEW p \in Phones, NEW unread, LoadPairRecord(p, unread) # None
  PROVE  /\ LoadPairRecord(p, unread) \in Record
         /\ \E v \in Volumes :
              /\ disk[v] # None /\ Parses(disk[v].extent) /\ disk[v].phone = p
              /\ LoadPairRecord(p, unread) = RecordOf(disk[v])
<1>1. PICK r \in Takes(p, unread) : LoadPairRecord(p, unread) = RecordOf(FileAt(r))
  BY LoadIsFirst
<1>2. r \in Roots /\ Mine(FileAt(r), p)
  BY DEF Takes
<1>3. FileAt(r) = disk[at[r]] /\ at[r] \in Volumes
  BY <1>2 DEF Mine, FileAt, Mounted, TypeOK
<1>4. disk[at[r]] \in File
  BY <1>2, <1>3 DEF TypeOK, Mine
<1>5. RecordOf(disk[at[r]]) \in Record
  BY <1>4 DEF RecordOf, File, Record
<1> QED
  BY <1>1, <1>2, <1>3, <1>5 DEF Mine

-----------------------------------------------------------------------------
(* Files.                                                                  *)

LEMMA ExtentChanged ==
  ASSUME NEW f \in File, NEW e \in Extent, NEW b \in BOOLEAN
  PROVE  LET g == [f EXCEPT !.extent = e, !.flushed = b]
         IN  /\ g \in File /\ g.extent = e /\ g.phone = f.phone /\ g.pairing = f.pairing
             /\ g.flushed = b
BY DEF File

\* What is torn is no longer than it was, and of the same pairing.
LEMMA TornIs ==
  ASSUME NEW f \in File \cup {None}, NEW g \in Torn(f)
  PROVE  /\ g \in File \cup {None} /\ (g = None <=> f = None)
         /\ f # None => /\ g.phone = f.phone /\ g.pairing = f.pairing
                        /\ Parses(g.extent) => Parses(f.extent)
                        /\ f.flushed => g = f
<1>1. CASE f = None \/ f.flushed
  BY <1>1 DEF Torn
<1>2. CASE f # None /\ ~f.flushed
  <2>1. f \in File /\ f.extent \in Extent
    BY <1>2 DEF File
  <2>2. PICK e \in Broken..f.extent : g = [f EXCEPT !.extent = e, !.flushed = TRUE]
    BY <1>2 DEF Torn
  <2>3. e \in Extent /\ e <= f.extent
    BY <2>1, <2>2 DEF Extent, Broken, Whole
  <2>4. g \in File /\ g.extent = e /\ g.phone = f.phone /\ g.pairing = f.pairing
    BY <2>1, <2>2, <2>3, ExtentChanged
  <2>5. Parses(e) => Parses(f.extent)
    BY <2>1, <2>3 DEF Parses, Extent, Broken, Cut, Whole
  <2> QED
    BY <1>2, <2>4, <2>5, NoneAssumption
<1> QED
  BY <1>1, <1>2, NoneAssumption

-----------------------------------------------------------------------------
(* The steps that change a file, by the file that they leave.              *)

LEMMA WriteLeaves ==
  ASSUME TypeOK, HandleInv, SaveWrite
  PROVE  /\ handle \in Volumes /\ disk[handle] \in File
         /\ \E g \in File : /\ disk' = [disk EXCEPT ![handle] = g]
                            /\ g.phone = disk[handle].phone /\ g.pairing = disk[handle].pairing
<1>1. PICK e \in (disk[handle].extent + 1)..Whole :
        disk' = [disk EXCEPT ![handle].extent = e, ![handle].flushed = FALSE]
  BY DEF SaveWrite
<1>2. handle \in Volumes /\ disk[handle] \in File /\ e \in Extent
  BY <1>1 DEF SaveWrite, HandleInv, TypeOK, File, Extent, Broken, Whole
<1>3. disk' = [disk EXCEPT ![handle] = [disk[handle] EXCEPT !.extent = e, !.flushed = FALSE]]
  BY <1>1, <1>2 DEF TypeOK
<1> DEFINE g == [disk[handle] EXCEPT !.extent = e, !.flushed = FALSE]
<1>4. g \in File /\ g.phone = disk[handle].phone /\ g.pairing = disk[handle].pairing
  BY <1>2, ExtentChanged
<1> HIDE DEF g
<1>5. disk' = [disk EXCEPT ![handle] = g]
  BY <1>3 DEF g
<1> QED
  BY <1>2, <1>4, <1>5

LEMMA FlushLeaves ==
  ASSUME TypeOK, NEW v \in Volumes, Flushed(v)
  PROVE  /\ disk[v] \in File
         /\ \E g \in File : /\ disk' = [disk EXCEPT ![v] = g]
                            /\ g.phone = disk[v].phone /\ g.pairing = disk[v].pairing
                            /\ g.extent = disk[v].extent
<1> DEFINE g == [disk[v] EXCEPT !.flushed = TRUE]
<1>1. disk[v] \in File
  BY DEF Flushed, TypeOK
<1>2. /\ g \in File /\ g.phone = disk[v].phone /\ g.pairing = disk[v].pairing
      /\ g.extent = disk[v].extent
  BY <1>1 DEF File
<1> HIDE DEF g
<1>3. disk' = [disk EXCEPT ![v] = g]
  BY DEF Flushed, TypeOK, g
<1> QED
  BY <1>1, <1>2, <1>3

LEMMA PullLeaves ==
  ASSUME TypeOK, NEW r \in Roots, Pull(r)
  PROVE  /\ at[r] \in Volumes
         /\ \E g \in Torn(disk[at[r]]) : disk' = [disk EXCEPT ![at[r]] = g]
BY DEF Pull, Mounted, FileAt, TypeOK

LEMMA OpenLeaves ==
  ASSUME TypeOK, SessionInv, SaveOpen
  PROVE  /\ root \in Roots /\ at[root] \in Volumes /\ handle' = at[root]
         /\ \E g \in File : /\ disk' = [disk EXCEPT ![at[root]] = g]
                            /\ g.phone = phone /\ g.pairing = pairings /\ g.extent = Broken
<1>1. [phone |-> phone, pairing |-> pairings, extent |-> Broken, flushed |-> FALSE] \in File
  BY DEF SaveOpen, SessionInv, TypeOK, Pairings, File, Extent, Broken, Whole
<1> QED
  BY <1>1 DEF SaveOpen, Mounted, TypeOK

-----------------------------------------------------------------------------
(* Types.                                                                  *)

LEMMA TypeStep ==
  ASSUME TypeOK, SessionInv, HandleInv, [Next]_vars
  PROVE  TypeOK'
<1> USE DEF storage, session, bounds, history
<1>1. ASSUME NEW p \in Phones, AddDevice(p) PROVE TypeOK'
  BY <1>1 DEF AddDevice, TypeOK, PcOf
<1>2. CASE UdidReply
  <2>1. record' \in Record \cup {None} /\ pc' \in PcOf
    BY <1>2, LoadIsStored DEF UdidReply, SessionInv, PcOf
  <2> QED
    BY <1>2, <2>1 DEF UdidReply, TypeOK
<1>3. CASE ValidateAccepted \/ PairRefused \/ SaveGivesUp \/ SaveWriteFails
  BY <1>3, BoundsAssumption
     DEF ValidateAccepted, PairRefused, SaveGivesUp, SaveWriteFails, TypeOK, PcOf, Roots,
         SessionInv
<1>4. CASE ValidateRejected
  BY <1>4, BoundsAssumption DEF ValidateRejected, TypeOK, PcOf
<1>5. CASE DeleteRoot
  <2>1. disk' \in [Volumes -> File \cup {None}] /\ kept' \in {kept, None}
        /\ sweep' \in BOOLEAN
    BY <1>5 DEF DeleteRoot, Deletes, TypeOK
  <2>2. root' \in 1..(NumRoots + 1)
    BY <1>5, BoundsAssumption DEF DeleteRoot, Roots
  <2> QED
    BY <1>5, <2>1, <2>2 DEF DeleteRoot, TypeOK
<1>6. CASE DeleteEnds
  <2>2. gone' \in 0..MaxPairings
    BY <1>6 DEF DeleteEnds, TypeOK
  <2>3. sweep' \in BOOLEAN
    BY <1>6 DEF DeleteEnds
  <2> QED
    BY <1>6, <2>2, <2>3, BoundsAssumption DEF DeleteEnds, TypeOK, PcOf
<1>7. CASE PublicKeyReply
  BY <1>7, BoundsAssumption DEF PublicKeyReply, TypeOK, PcOf
<1>8. CASE UserTrusts \/ PairSucceeded
  <2>1. phone \in Phones
    BY <1>8 DEF UserTrusts, PairSucceeded, SessionInv
  <2>2. CASE UserTrusts
    <3>1. trusts' \in [Phones -> BOOLEAN]
      BY <2>1, <2>2 DEF UserTrusts, TypeOK
    <3> QED
      BY <2>2, <3>1 DEF UserTrusts, TypeOK
  <2>3. CASE PairSucceeded
    <3>1. pairings' \in Pairings /\ pairings' \in 0..MaxPairings
      BY <2>3, BoundsAssumption DEF PairSucceeded, TypeOK, Pairings
    <3>2. paired' \in SUBSET (Phones \X Pairings)
      BY <2>1, <2>3, <3>1 DEF PairSucceeded, TypeOK
    <3> QED
      BY <2>3, <3>1, <3>2, BoundsAssumption DEF PairSucceeded, TypeOK, PcOf
  <2> QED
    BY <1>8, <2>2, <2>3
<1>9. CASE SaveOpen
  <2>1. disk' \in [Volumes -> File \cup {None}]
    BY <1>9, OpenLeaves DEF TypeOK
  <2> QED
    BY <1>9, <2>1 DEF SaveOpen, TypeOK, PcOf, Mounted
<1>10. CASE SaveOpenFails
  BY <1>10, BoundsAssumption DEF SaveOpenFails, TypeOK, Roots
<1>11. CASE SaveWrite
  <2>1. disk' \in [Volumes -> File \cup {None}]
    BY <1>11, WriteLeaves DEF TypeOK
  <2> QED
    BY <1>11, <2>1 DEF SaveWrite, TypeOK
<1>12. CASE SaveDone
  <2>1. kept' \in [phone : Phones, pairing : Pairings, root : Roots] \cup {None}
    BY <1>12 DEF SaveDone, Promised, SessionInv, HandleInv, TypeOK, File, Pairings
  <2> QED
    BY <1>12, <2>1, BoundsAssumption DEF SaveDone, TypeOK, PcOf
<1>13. CASE RemoveDevice
  BY <1>13, BoundsAssumption DEF RemoveDevice, TypeOK, PcOf
<1>14. ASSUME NEW p \in Phones, PhoneForgets(p) PROVE TypeOK'
  <2>1. trusts' \in [Phones -> BOOLEAN]
    BY <1>14 DEF PhoneForgets, TypeOK
  <2> QED
    BY <1>14, <2>1 DEF PhoneForgets, TypeOK
<1>15. ASSUME NEW v \in Volumes, Flushed(v) PROVE TypeOK'
  <2>1. disk' \in [Volumes -> File \cup {None}]
    BY <1>15, FlushLeaves DEF TypeOK
  <2> QED
    BY <1>15, <2>1 DEF Flushed, TypeOK
<1>16. ASSUME NEW r \in Roots, Pull(r) PROVE TypeOK'
  <2>1. PICK f \in Torn(disk[at[r]]) : disk' = [disk EXCEPT ![at[r]] = f]
    BY <1>16, PullLeaves
  <2>2. f \in File \cup {None}
    BY <1>16, PullLeaves, TornIs DEF TypeOK
  <2>3. disk' \in [Volumes -> File \cup {None}] /\ at' \in [Roots -> Volumes \cup {None}]
    BY <1>16, <2>1, <2>2 DEF Pull, TypeOK
  <2>4. kept' \in {kept, None} /\ handle' \in {handle, None} /\ moves' \in 0..MaxMoves
    BY <1>16, BoundsAssumption DEF Pull, TypeOK
  <2> QED
    BY <1>16, <2>3, <2>4 DEF Pull, TypeOK
<1>17. ASSUME NEW v \in Volumes, NEW r \in Roots, Insert(v, r) PROVE TypeOK'
  <2>1. at' \in [Roots -> Volumes \cup {None}] /\ kept' \in {kept, None}
        /\ moves' \in 0..MaxMoves
    BY <1>17, BoundsAssumption DEF Insert, TypeOK
  <2> QED
    BY <1>17, <2>1 DEF Insert, TypeOK
<1>18. CASE PowerCut
  <2>1. kept' \in {kept, None} /\ cuts' \in 0..MaxCuts
    BY <1>18, BoundsAssumption DEF PowerCut, TypeOK
  <2>2. sweep' \in BOOLEAN
    BY <1>18 DEF PowerCut
  <2>3. disk' \in [Volumes -> File \cup {None}]
    BY <1>18 DEF PowerCut
  <2> QED
    BY <1>18, <2>1, <2>2, <2>3, BoundsAssumption DEF PowerCut, TypeOK, PcOf
<1>19. CASE UNCHANGED vars
  BY <1>19 DEF vars, TypeOK
<1> QED
  BY <1>1, <1>2, <1>3, <1>4, <1>5, <1>6, <1>7, <1>8, <1>9, <1>10, <1>11, <1>12, <1>13,
     <1>14, <1>15, <1>16, <1>17, <1>18, <1>19 DEF Next, USBThread, World

-----------------------------------------------------------------------------
(* The other parts of the invariant.                                       *)

\* The steps by what they may change of the files: the loops and the world.
Sessions == \/ \E p \in Phones : AddDevice(p)
            \/ UdidReply \/ ValidateAccepted \/ ValidateRejected \/ DeleteEnds
            \/ PublicKeyReply \/ UserTrusts \/ PairSucceeded \/ PairRefused
            \/ SaveOpenFails \/ SaveGivesUp \/ SaveWriteFails \/ SaveDone
            \/ RemoveDevice \/ \E p \in Phones : PhoneForgets(p)
            \/ UNCHANGED vars

LEMMA Steps ==
  ASSUME [Next]_vars
  PROVE  \/ Sessions \/ DeleteRoot \/ SaveOpen \/ SaveWrite \/ PowerCut
         \/ \E v \in Volumes : Flushed(v)
         \/ \E r \in Roots : Pull(r)
         \/ \E v \in Volumes, r \in Roots : Insert(v, r)
BY DEF Next, USBThread, World, Sessions

LEMMA SessionsKeepFiles == Sessions => UNCHANGED <<at, disk>>
BY DEF Sessions, AddDevice, UdidReply, ValidateAccepted, ValidateRejected, DeleteEnds,
       PublicKeyReply, UserTrusts, PairSucceeded, PairRefused, SaveOpenFails,
       SaveGivesUp, SaveWriteFails, SaveDone, RemoveDevice, PhoneForgets, storage, vars

LEMMA DrivesStep ==
  ASSUME IInv, [Next]_vars
  PROVE  DrivesInv'
<1> USE DEF IInv, storage
<1>1. CASE UNCHANGED at
  BY <1>1 DEF DrivesInv
<1>2. ASSUME NEW r \in Roots, Pull(r) PROVE DrivesInv'
  BY <1>2 DEF Pull, DrivesInv, TypeOK
<1>3. ASSUME NEW v \in Volumes, NEW r \in Roots, Insert(v, r) PROVE DrivesInv'
  BY <1>3 DEF Insert, DrivesInv, TypeOK, Mounted
<1>4. DeleteRoot \/ SaveOpen \/ SaveWrite \/ PowerCut \/ (\E v \in Volumes : Flushed(v))
      => UNCHANGED at
  BY DEF DeleteRoot, SaveOpen, SaveWrite, PowerCut, Flushed
<1> QED
  BY <1>1, <1>2, <1>3, <1>4, Steps, SessionsKeepFiles

LEMMA SessionStep ==
  ASSUME IInv, [Next]_vars
  PROVE  SessionInv'
<1> USE DEF IInv, storage, session, bounds, history
<1>1. ASSUME NEW p \in Phones, AddDevice(p) PROVE SessionInv'
  BY <1>1 DEF AddDevice, SessionInv
<1>2. CASE UdidReply
  <2>1. PICK unread \in SUBSET Roots :
          /\ record' = LoadPairRecord(phone, unread)
          /\ pc' = IF record' # None THEN "validate" ELSE "wifi"
    BY <1>2 DEF UdidReply
  <2>2. phone \in Phones
    BY <1>2 DEF UdidReply, SessionInv
  <2>3. CASE record' # None
    <3>1. PICK v \in Volumes :
            /\ disk[v] # None /\ Parses(disk[v].extent) /\ disk[v].phone = phone
            /\ record' = RecordOf(disk[v])
      BY <2>1, <2>2, <2>3, LoadIsStored
    <3>2. /\ record'.phone = phone /\ record'.pairing = disk[v].pairing
          /\ record'.extent = disk[v].extent
      BY <3>1 DEF RecordOf
    <3>3. /\ <<phone, record'.pairing>> \in paired
          /\ Parses(record'.extent)
      BY <3>1, <3>2 DEF StoredInv
    <3> QED
      BY <1>2, <2>1, <2>2, <2>3, <3>2, <3>3 DEF UdidReply, SessionInv, Parses
  <2>4. CASE record' = None
    BY <1>2, <2>1, <2>2, <2>4 DEF UdidReply, SessionInv
  <2> QED
    BY <2>3, <2>4
<1>3. CASE ValidateAccepted \/ PairRefused \/ SaveGivesUp \/ SaveWriteFails \/ SaveDone
           \/ SaveOpenFails
  BY <1>3 DEF ValidateAccepted, PairRefused, SaveGivesUp, SaveOpenFails,
              SaveWriteFails, SaveDone, SessionInv
<1>13. CASE ValidateRejected
  BY <1>13 DEF ValidateRejected, SessionInv
<1>14. CASE RemoveDevice \/ PowerCut
  BY <1>14 DEF RemoveDevice, PowerCut, SessionInv
<1>4. CASE DeleteEnds
  BY <1>4 DEF DeleteEnds, SessionInv
<1>5. CASE PublicKeyReply
  BY <1>5 DEF PublicKeyReply, SessionInv
<1>6. CASE UserTrusts
  BY <1>6 DEF UserTrusts, SessionInv
<1>15. CASE PairSucceeded
  <2>1. /\ pairings' = pairings + 1 /\ pairings' \in Pairings /\ pairings' > gone
        /\ UNCHANGED <<phone, record, gone>> /\ pc = "pair" /\ pc' = "open"
    BY <1>15, BoundsAssumption DEF PairSucceeded, TypeOK, StoredInv, Pairings
  <2>2. paired' = paired \cup {<<phone, pairings'>>}
    BY <1>15 DEF PairSucceeded
  <2> QED
    BY <2>1, <2>2 DEF SessionInv
<1>7. CASE DeleteRoot \/ SaveOpen \/ SaveWrite
  BY <1>7 DEF DeleteRoot, SaveOpen, SaveWrite, SessionInv
<1>8. ASSUME NEW p \in Phones, PhoneForgets(p) PROVE SessionInv'
  BY <1>8 DEF PhoneForgets, SessionInv
<1>9. ASSUME NEW v \in Volumes, Flushed(v) PROVE SessionInv'
  BY <1>9 DEF Flushed, SessionInv
<1>10. ASSUME NEW r \in Roots, Pull(r) PROVE SessionInv'
  BY <1>10 DEF Pull, SessionInv
<1>11. ASSUME NEW v \in Volumes, NEW r \in Roots, Insert(v, r) PROVE SessionInv'
  BY <1>11 DEF Insert, SessionInv
<1>12. CASE UNCHANGED vars
  BY <1>12 DEF vars, SessionInv
<1> QED
  BY <1>1, <1>2, <1>3, <1>4, <1>5, <1>6, <1>7, <1>8, <1>9, <1>10, <1>11, <1>12,
     <1>13, <1>14, <1>15, Steps DEF Sessions

LEMMA HandleStep ==
  ASSUME IInv, [Next]_vars
  PROVE  HandleInv'
<1> USE DEF storage, session, bounds, history
<1>0. TypeOK /\ DrivesInv /\ SessionInv /\ HandleInv
  BY DEF IInv
<1>1. CASE Sessions
  <2>1. \/ handle' = None
        \/ UNCHANGED <<handle, pc, root, phone, pairings>>
    BY <1>0, <1>1
       DEF Sessions, AddDevice, UdidReply, ValidateAccepted, ValidateRejected, DeleteEnds,
           PublicKeyReply, UserTrusts, PairSucceeded, PairRefused, SaveOpenFails,
           SaveGivesUp, SaveWriteFails, SaveDone, RemoveDevice, PhoneForgets, vars,
           HandleInv
  <2> QED
    BY <1>0, <1>1, <2>1, SessionsKeepFiles DEF HandleInv
<1>2. CASE DeleteRoot \/ PowerCut
  BY <1>0, <1>2 DEF DeleteRoot, PowerCut, HandleInv
<1>3. CASE SaveOpen
  <2>1. /\ pc' = "write" /\ UNCHANGED <<at, root, phone, pairings>>
    BY <1>3 DEF SaveOpen
  <2>2. disk'[handle'] # None /\ disk'[handle'].phone = phone /\ disk'[handle'].pairing = pairings
    BY <1>0, <1>3, OpenLeaves, NoneAssumption DEF TypeOK
  <2> QED
    BY <1>0, <1>3, <2>1, <2>2, OpenLeaves DEF HandleInv
<1>4. CASE SaveWrite
  BY <1>0, <1>4, WriteLeaves, NoneAssumption DEF SaveWrite, HandleInv, TypeOK
<1>5. ASSUME NEW v \in Volumes, Flushed(v) PROVE HandleInv'
  <2>1. UNCHANGED <<at, pc, root, handle, phone, pairings>>
    BY <1>5 DEF Flushed
  <2> QED
    BY <1>0, <1>5, <2>1, FlushLeaves, NoneAssumption DEF HandleInv, TypeOK
<1>6. ASSUME NEW r \in Roots, Pull(r) PROVE HandleInv'
  <2>1. UNCHANGED <<pc, root, phone, pairings>> /\ at' = [at EXCEPT ![r] = None]
        /\ handle' = IF handle = at[r] THEN None ELSE handle
    BY <1>6 DEF Pull
  <2>2. CASE handle = None \/ handle = at[r]
    BY <2>1, <2>2 DEF HandleInv
  <2>3. CASE handle # None /\ handle # at[r]
    <3>1. root \in Roots /\ root # r /\ at[root] = handle
      BY <1>0, <2>3 DEF SessionInv, HandleInv
    <3>2. at'[root] = handle /\ disk'[handle] = disk[handle]
      BY <1>0, <1>6, <2>1, <2>3, <3>1, PullLeaves DEF TypeOK
    <3> QED
      BY <1>0, <2>1, <2>3, <3>2 DEF HandleInv
  <2> QED
    BY <2>2, <2>3
<1>7. ASSUME NEW v \in Volumes, NEW r \in Roots, Insert(v, r) PROVE HandleInv'
  BY <1>0, <1>7 DEF Insert, Mounted, HandleInv, SessionInv, TypeOK
<1> QED
  BY <1>1, <1>2, <1>3, <1>4, <1>5, <1>6, <1>7, Steps

LEMMA StoredStep ==
  ASSUME IInv, [Next]_vars
  PROVE  StoredInv'
<1> USE DEF storage, session, bounds, history
<1>0. TypeOK /\ SessionInv /\ HandleInv /\ StoredInv /\ SweepInv
  BY DEF IInv
<1>a. /\ \A i \in Pairings : i \in Nat
      /\ \A f \in File : f # None /\ f.pairing \in Nat
      /\ pairings \in Nat /\ gone \in Nat
  BY <1>0, BoundsAssumption, NoneAssumption DEF Pairings, File, TypeOK
<1>1. CASE Sessions
  <2>1. UNCHANGED <<at, disk>>
    BY <1>1, SessionsKeepFiles
  <2>2. paired \subseteq paired'
    BY <1>1
       DEF Sessions, AddDevice, UdidReply, ValidateAccepted, ValidateRejected, DeleteEnds,
           PublicKeyReply, UserTrusts, PairSucceeded, PairRefused, SaveOpenFails,
           SaveGivesUp, SaveWriteFails, SaveDone, RemoveDevice, PhoneForgets, vars
  <2>3. pairings' \in {pairings, pairings + 1}
    BY <1>1
       DEF Sessions, AddDevice, UdidReply, ValidateAccepted, ValidateRejected, DeleteEnds,
           PublicKeyReply, UserTrusts, PairSucceeded, PairRefused, SaveOpenFails,
           SaveGivesUp, SaveWriteFails, SaveDone, RemoveDevice, PhoneForgets, vars
  <2>4. CASE DeleteEnds /\ sweep
    <3>1. gone' = pairings /\ pairings' = pairings
      BY <2>4 DEF DeleteEnds
    <3>2. root = NumRoots + 1
      BY <1>0, <2>4, BoundsAssumption DEF DeleteEnds, TypeOK, Roots
    <3>3. ASSUME NEW v \in Volumes PROVE disk[v] = None
      <4>1. PICK r \in Roots : at[r] = v
        BY <1>0, <2>4 DEF SweepInv
      <4>2. FileAt(r) = None
        BY <1>0, <2>4, <3>2, BoundsAssumption DEF SweepInv, Roots
      <4> QED
        BY <4>1, <4>2, NoneAssumption DEF FileAt, Mounted
    <3> QED
      BY <1>0, <1>a, <2>1, <3>1, <3>3 DEF StoredInv
  <2>5. CASE ~(DeleteEnds /\ sweep)
    <3>1. gone' = gone
      BY <1>1, <2>5
         DEF Sessions, AddDevice, UdidReply, ValidateAccepted, ValidateRejected, DeleteEnds,
             PublicKeyReply, UserTrusts, PairSucceeded, PairRefused, SaveOpenFails,
             SaveGivesUp, SaveWriteFails, SaveDone, RemoveDevice, PhoneForgets, vars
    <3> QED
      BY <1>0, <1>a, <2>1, <2>2, <2>3, <3>1 DEF StoredInv, TypeOK
  <2> QED
    BY <2>4, <2>5
<1>2. CASE DeleteRoot
  <2>1. UNCHANGED <<paired, pairings, gone>> /\ \A v \in Volumes : disk'[v] \in {disk[v], None}
    BY <1>0, <1>2 DEF DeleteRoot, Deletes, TypeOK
  <2> QED
    BY <1>0, <2>1 DEF StoredInv
<1>3. CASE SaveOpen
  <2>1. UNCHANGED <<paired, pairings, gone>> /\ pc = "open"
    BY <1>3 DEF SaveOpen
  <2>2. PICK g \in File : /\ disk' = [disk EXCEPT ![at[root]] = g]
                          /\ g.phone = phone /\ g.pairing = pairings /\ g.extent = Broken
    BY <1>0, <1>3, OpenLeaves
  <2> QED
    BY <1>0, <2>1, <2>2 DEF StoredInv, SessionInv, TypeOK, Parses, Broken, Cut
<1>4. CASE SaveWrite
  <2>1. UNCHANGED <<paired, pairings, gone>> /\ pc = "write" /\ handle # None
    BY <1>4 DEF SaveWrite
  <2>2. PICK g \in File : /\ disk' = [disk EXCEPT ![handle] = g]
                          /\ g.phone = phone /\ g.pairing = pairings
    BY <1>0, <1>4, <2>1, WriteLeaves DEF HandleInv
  <2> QED
    BY <1>0, <2>1, <2>2 DEF StoredInv, SessionInv, TypeOK
<1>5. ASSUME NEW v \in Volumes, Flushed(v) PROVE StoredInv'
  <2>1. UNCHANGED <<paired, pairings, gone>>
    BY <1>5 DEF Flushed
  <2> QED
    BY <1>0, <1>5, <1>a, <2>1, FlushLeaves DEF StoredInv, TypeOK, Parses
<1>6. ASSUME UNCHANGED <<paired, pairings, gone>>,
             \A v \in Volumes : disk'[v] \in Torn(disk[v]) \cup {disk[v]}
      PROVE  StoredInv'
  <2>1. ASSUME NEW v \in Volumes, disk'[v] # None
        PROVE  /\ disk[v] # None /\ disk'[v].phone = disk[v].phone
               /\ disk'[v].pairing = disk[v].pairing
               /\ Parses(disk'[v].extent) => Parses(disk[v].extent)
    BY <1>0, <1>6, <2>1, TornIs DEF TypeOK
  <2> QED
    BY <1>0, <1>6, <2>1 DEF StoredInv, Parses
<1>7. ASSUME NEW r \in Roots, Pull(r) PROVE StoredInv'
  <2>1. UNCHANGED <<paired, pairings, gone>>
    BY <1>7 DEF Pull
  <2>2. \A v \in Volumes : disk'[v] \in Torn(disk[v]) \cup {disk[v]}
    BY <1>0, <1>7, PullLeaves DEF TypeOK
  <2> QED
    BY <1>6, <2>1, <2>2
<1>8. CASE PowerCut
  <2>1. UNCHANGED <<paired, pairings, gone>>
        /\ \A v \in Volumes : disk'[v] \in Torn(disk[v]) \cup {disk[v]}
    BY <1>8 DEF PowerCut
  <2> QED
    BY <1>6, <2>1
<1>9. ASSUME NEW v \in Volumes, NEW r \in Roots, Insert(v, r) PROVE StoredInv'
  BY <1>0, <1>9 DEF Insert, StoredInv
<1> QED
  BY <1>1, <1>2, <1>3, <1>4, <1>5, <1>7, <1>8, <1>9, Steps

LEMMA SweepStep ==
  ASSUME IInv, [Next]_vars
  PROVE  SweepInv'
<1> USE DEF storage, session, bounds, history
<1>0. TypeOK /\ DrivesInv /\ HandleInv /\ SweepInv
  BY DEF IInv
<1>1. CASE ValidateRejected
  <2>1. pc' = "delete" /\ root' = 1 /\ at' = at
    BY <1>1 DEF ValidateRejected
  <2>2. sweep' => \A v \in Volumes : \E r \in Roots : at[r] = v
    BY <1>1, Zenon DEF ValidateRejected
  <2> QED
    BY <2>1, <2>2 DEF SweepInv
<1>2. CASE Sessions /\ ~ValidateRejected
  <2>1. sweep' => sweep /\ UNCHANGED <<pc, root>>
    BY <1>0, <1>2
       DEF Sessions, AddDevice, UdidReply, ValidateAccepted, DeleteEnds, PublicKeyReply,
           UserTrusts, PairSucceeded, PairRefused, SaveOpenFails, SaveGivesUp,
           SaveWriteFails, SaveDone, RemoveDevice, PhoneForgets, vars, SweepInv
  <2>2. UNCHANGED <<at, disk>>
    BY <1>2, SessionsKeepFiles
  <2> QED
    BY <1>0, <2>1, <2>2 DEF SweepInv, FileAt, Mounted
<1>3. CASE DeleteRoot
  <2>1. /\ UNCHANGED <<at, pc>> /\ root' = root + 1 /\ root \in Nat
        /\ \A v \in Volumes : disk'[v] \in {disk[v], None}
    BY <1>0, <1>3, BoundsAssumption DEF DeleteRoot, Deletes, TypeOK
  <2>3. sweep' => sweep /\ (at[root] # None => disk'[at[root]] = None)
    <3>1. CASE /\ FileAt(root) # None /\ disk' = [disk EXCEPT ![at[root]] = None]
               /\ sweep' = sweep
      <4>1. root \in Roots
        BY <1>3 DEF DeleteRoot
      <4>2. at[root] # None => disk'[at[root]] = None
        BY <1>0, <3>1, <4>1 DEF TypeOK
      <4> QED
        BY <3>1, <4>2, Zenon
    <3>2. CASE disk' = disk /\ sweep' = (sweep /\ FileAt(root) = None)
      <4>1. sweep' => sweep /\ FileAt(root) = None
        BY <3>2, Zenon
      <4> QED
        BY <3>2, <4>1 DEF FileAt, Mounted
    <3> QED
      BY <1>3, <3>1, <3>2, Zenon DEF DeleteRoot, Deletes
  <2>2. ASSUME sweep', NEW r \in 1..root PROVE FileAt(r)' = None
    <3>1. CASE r = root
      BY <2>1, <2>2, <2>3, <3>1 DEF FileAt, Mounted
    <3>2. CASE r # root
      <4>1. FileAt(r) = None /\ r \in Roots
        BY <1>0, <1>3, <2>1, <2>2, <2>3, <3>2, BoundsAssumption DEF SweepInv, DeleteRoot, Roots
      <4> QED
        BY <1>0, <2>1, <4>1 DEF FileAt, Mounted, TypeOK
    <3> QED
      BY <3>1, <3>2
  <2> QED
    BY <1>0, <2>1, <2>2, <2>3 DEF SweepInv
<1>4. CASE SaveOpen \/ SaveWrite
  BY <1>0, <1>4 DEF SaveOpen, SaveWrite, SweepInv
<1>5. CASE PowerCut
  BY <1>5 DEF PowerCut, SweepInv
<1>6. ASSUME NEW v \in Volumes, Flushed(v) PROVE SweepInv'
  <2>1. UNCHANGED <<at, pc, root, sweep>> /\ \A u \in Volumes : disk[u] = None => disk'[u] = None
    BY <1>0, <1>6 DEF Flushed, TypeOK
  <2>2. ASSUME sweep, NEW r \in 1..(root - 1) PROVE FileAt(r)' = None
    <3>1. FileAt(r) = None /\ r \in Roots
      BY <1>0, <2>2, BoundsAssumption DEF SweepInv, TypeOK, Roots
    <3> QED
      BY <1>0, <2>1, <3>1 DEF FileAt, Mounted, TypeOK
  <2> QED
    BY <1>0, <2>1, <2>2 DEF SweepInv
<1>7. ASSUME NEW r \in Roots, Pull(r) PROVE SweepInv'
  BY <1>7 DEF Pull, SweepInv
<1>8. ASSUME NEW v \in Volumes, NEW r \in Roots, Insert(v, r) PROVE SweepInv'
  BY <1>8 DEF Insert, SweepInv
<1> QED
  BY <1>1, <1>2, <1>3, <1>4, <1>5, <1>6, <1>7, <1>8, Steps

\* A kept record stays where the file is not touched and no drive comes before.
LEMMA KeptSame ==
  ASSUME IInv, kept' # None, kept' = kept, pc' # "write",
         at'[kept.root] = at[kept.root], disk'[at[kept.root]] = disk[at[kept.root]],
         \A r \in 1..(kept.root - 1) : at'[r] = at[r]
  PROVE  KeptInv'
BY DEF IInv, KeptInv

LEMMA KeptStep ==
  ASSUME IInv, [Next]_vars
  PROVE  KeptInv'
<1> USE DEF storage, session, bounds, history
<1>0. TypeOK /\ DrivesInv /\ SessionInv /\ HandleInv /\ KeptInv
  BY DEF IInv
<1>a. kept # None => /\ kept.root \in Roots /\ at[kept.root] \in Volumes
                     /\ disk[at[kept.root]] \in File /\ kept.root \in Nat
  BY <1>0, BoundsAssumption DEF TypeOK, KeptInv, Roots
<1>1. CASE kept' = None
  BY <1>1 DEF KeptInv
<1> SUFFICES ASSUME kept' # None PROVE KeptInv'
  BY <1>1
<1>2. CASE SaveDone
  <2>1. /\ root \in Roots /\ root \in Nat /\ at[root] = handle /\ handle # None
        /\ disk[handle] \in File /\ disk[handle].phone = phone
        /\ disk[handle].pairing = pairings /\ handle \in Volumes
    BY <1>0, <1>2, BoundsAssumption DEF SaveDone, SessionInv, HandleInv, TypeOK, Roots
  <2>2. disk[handle].extent = Whole
    BY <1>2, <2>1 DEF SaveDone, Unwritten, File, Extent, Broken, Whole
  <2>3. /\ kept' = [phone |-> phone, pairing |-> pairings, root |-> root]
        /\ \A r \in 1..(root - 1) : at[r] = None
    BY <1>2 DEF SaveDone, Promised, Mounted
  <2>4. UNCHANGED <<at, disk>> /\ pc' # "write"
    BY <1>2 DEF SaveDone
  <2>5. kept'.phone = phone /\ kept'.pairing = pairings /\ kept'.root = root
    BY <2>3
  <2> QED
    BY <2>1, <2>2, <2>3, <2>4, <2>5, NoneAssumption DEF KeptInv
<1>3. CASE Sessions /\ ~SaveDone
  <2>1. kept' = kept /\ pc' # "write"
    BY <1>0, <1>3
       DEF Sessions, AddDevice, UdidReply, ValidateAccepted, ValidateRejected, DeleteEnds,
           PublicKeyReply, UserTrusts, PairSucceeded, PairRefused, SaveOpenFails,
           SaveGivesUp, SaveWriteFails, RemoveDevice, PhoneForgets, vars, KeptInv
  <2>2. UNCHANGED <<at, disk>>
    BY <1>3, SessionsKeepFiles
  <2> QED
    BY <2>1, <2>2, KeptSame
<1>4. CASE DeleteRoot
  <2>1. UNCHANGED <<at, disk, pc, kept>>
    BY <1>4 DEF DeleteRoot, Deletes
  <2> QED
    BY <1>0, <2>1, KeptSame DEF KeptInv
<1>5. CASE SaveOpen \/ SaveWrite
  BY <1>0, <1>5 DEF SaveOpen, SaveWrite, KeptInv
<1>6. CASE PowerCut
  <2>1. /\ kept' = kept /\ FileAt(kept.root).flushed /\ pc' = "away" /\ at' = at
        /\ \A v \in Volumes : disk'[v] \in Torn(disk[v])
    BY <1>6 DEF PowerCut
  <2>2. disk[at[kept.root]].flushed
    BY <1>0, <2>1 DEF FileAt, Mounted, KeptInv
  <2>3. disk'[at[kept.root]] = disk[at[kept.root]]
    BY <1>a, <2>1, <2>2, TornIs, NoneAssumption
  <2> QED
    BY <2>1, <2>3, KeptSame
<1>7. ASSUME NEW v \in Volumes, Flushed(v) PROVE KeptInv'
  <2>1. UNCHANGED <<at, pc, kept>>
    BY <1>7 DEF Flushed
  <2>2. PICK g \in File : /\ disk' = [disk EXCEPT ![v] = g]
                          /\ g.phone = disk[v].phone /\ g.pairing = disk[v].pairing
                          /\ g.extent = disk[v].extent
    BY <1>0, <1>7, FlushLeaves
  <2> QED
    BY <1>0, <1>a, <2>1, <2>2, NoneAssumption DEF KeptInv, TypeOK
<1>8. ASSUME NEW r \in Roots, Pull(r) PROVE KeptInv'
  <2>1. kept' = kept /\ r > kept.root /\ at' = [at EXCEPT ![r] = None] /\ pc' = pc
        /\ at[r] # None
    BY <1>8 DEF Pull, Mounted
  <2>2. at[kept.root] # at[r] /\ r \in Nat
    BY <1>0, <1>a, <2>1, BoundsAssumption DEF DrivesInv, Roots
  <2>3. disk'[at[kept.root]] = disk[at[kept.root]]
    BY <1>0, <1>8, <1>a, <2>1, <2>2, PullLeaves DEF TypeOK
  <2>4. \A s \in 1..kept.root : at'[s] = at[s]
    BY <1>0, <1>a, <2>1, <2>2, BoundsAssumption DEF TypeOK, Roots
  <2> QED
    BY <1>0, <1>a, <2>1, <2>3, <2>4, KeptSame, BoundsAssumption DEF KeptInv, Roots
<1>9. ASSUME NEW v \in Volumes, NEW r \in Roots, Insert(v, r) PROVE KeptInv'
  <2>1. kept' = kept /\ r > kept.root /\ at' = [at EXCEPT ![r] = v]
        /\ UNCHANGED <<disk, pc>>
    BY <1>9 DEF Insert
  <2>2. \A s \in 1..kept.root : at'[s] = at[s]
    BY <1>0, <1>a, <2>1, BoundsAssumption DEF TypeOK, Roots
  <2> QED
    BY <1>0, <1>a, <2>1, <2>2, KeptSame, BoundsAssumption DEF KeptInv, Roots
<1> QED
  BY <1>2, <1>3, <1>4, <1>5, <1>6, <1>7, <1>8, <1>9, Steps

-----------------------------------------------------------------------------
(* The theorems.                                                           *)

\* The invariant about drives, files, the session and what the history says.
THEOREM Invariance == Spec => []IInv
<1>1. IInv /\ [Next]_vars => IInv'
  BY TypeStep, DrivesStep, SessionStep, HandleStep, StoredStep, SweepStep, KeptStep
     DEF IInv
<1> QED
  BY <1>1, InitInv, PTL DEF Spec

\* Type correctness for any number of phones, drives, roots and failures.
THEOREM TypeCorrect == Spec => []TypeOK
<1>1. IInv => TypeOK
  BY DEF IInv
<1> QED
  BY <1>1, Invariance, PTL

\* The driver offers a phone only a record of a pairing with that phone,
\* whatever file of the same name, torn write or moved stick it comes from.
THEOREM OwnRecordOnly == Spec => []OwnRecord
<1>1. IInv => OwnRecord
  BY DEF IInv, SessionInv, OwnRecord
<1> QED
  BY <1>1, Invariance, PTL

\* After DeletePairRecord removed every copy of a refused record, none of them
\* and no older one is loaded, from whichever roots, through moved sticks and
\* power cuts: what is loaded is of a pairing that succeeded since.
THEOREM RefusedNotLoaded == Spec => []RefusedStaysGone
<1>1. IInv => RefusedStaysGone
  <2> SUFFICES ASSUME IInv, NEW p \in Phones, NEW unread \in SUBSET Roots,
                      LoadPairRecord(p, unread) # None
               PROVE  LoadPairRecord(p, unread).pairing > gone
    BY DEF RefusedStaysGone
  <2>1. PICK v \in Volumes : disk[v] # None /\ LoadPairRecord(p, unread) = RecordOf(disk[v])
    BY LoadIsStored DEF IInv
  <2>2. LoadPairRecord(p, unread).pairing = disk[v].pairing
    BY <2>1 DEF RecordOf
  <2> QED
    BY <2>1, <2>2 DEF IInv, StoredInv
<1> QED
  BY <1>1, Invariance, PTL

\* A record reported as saved on the first drive there is stays the one that
\* LoadPairRecord finds, until its file or a drive before it is touched.
THEOREM SavedLoads == Spec => []SavedIsLoaded
<1>1. IInv => SavedIsLoaded
  <2> SUFFICES ASSUME IInv, kept # None PROVE SavedIsLoaded
    BY DEF SavedIsLoaded
  <2> DEFINE f == disk[at[kept.root]]
             T == Takes(kept.phone, {})
  <2>1. /\ kept.root \in Roots /\ at[kept.root] # None
        /\ f # None /\ f.phone = kept.phone /\ f.pairing = kept.pairing /\ f.extent = Whole
        /\ \A r \in 1..(kept.root - 1) : at[r] = None
    BY DEF IInv, TypeOK, KeptInv
  <2>2. FileAt(kept.root) = f
    BY <2>1 DEF FileAt, Mounted
  <2>3. kept.root \in T
    BY <2>1, <2>2 DEF Takes, Mine, Parses, Whole, Cut
  <2>4. ASSUME NEW r \in T, r <= kept.root PROVE r = kept.root
    <3>1. r \in Roots /\ at[r] # None
      BY DEF Takes, Mine, FileAt, Mounted
    <3> QED
      BY <2>1, <2>4, <3>1, BoundsAssumption DEF Roots
  <2>5. LoadPairRecord(kept.phone, {}) = RecordOf(f)
    BY <2>2, <2>3, <2>4, LoadIsFirst
  <2> QED
    BY <2>1, <2>5 DEF SavedIsLoaded, RecordOf
<1> QED
  BY <1>1, Invariance, PTL
=============================================================================
