---------------------------- MODULE MCXnetBridge ----------------------------
(***************************************************************************)
(* XnetBridge on a small instance.  XAM's threads are interchangeable, and *)
(* so are the addresses they send from.                                    *)
(***************************************************************************)
EXTENDS XnetBridge, TLC

Symmetry == Permutations(Xam) \cup Permutations(Macs)
=============================================================================
