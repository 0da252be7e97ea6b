----------------------------- MODULE FrameRing ------------------------------
(***************************************************************************)
(* A ring of frame slots as the sources write it, with head, tail and      *)
(* count.  Only the accesses are here; the lock around them belongs to the *)
(* module that owns the ring.                                              *)
(***************************************************************************)
EXTENDS Naturals

CONSTANTS
  Depth,    \* number of slots, at least one
  Frame,    \* what a slot can hold
  NoFrame   \* a slot of length 0, not in Frame

Slots == 0..(Depth - 1)

Ring == [slot : [Slots -> Frame \cup {NoFrame}],
         head : Slots, tail : Slots, count : 0..Depth]

EmptyRing == [slot |-> [i \in Slots |-> NoFrame],
              head |-> 0, tail |-> 0, count |-> 0]

\* The copy into the slot at the tail, and then the indexes.
Filled(r, f) == [r EXCEPT !.slot[r.tail] = f]
Appended(r)  == [r EXCEPT !.tail = (@ + 1) % Depth, !.count = @ + 1]

\* The copy out of the slot at the head, and then its length and the indexes.
First(r)     == r.slot[r.head]
Removed(r)   == [r EXCEPT !.slot[r.head] = NoFrame,
                          !.head = (@ + 1) % Depth, !.count = @ - 1]

\* The frames in the order in which they leave.
Content(r)   == [i \in 1..r.count |-> r.slot[(r.head + i - 1) % Depth]]
=============================================================================
