---------------------------- MODULE MCPairStore -----------------------------
(***************************************************************************)
(* PairStore on a small instance.  Drives are interchangeable, and so are  *)
(* the phones that share a file name.                                      *)
(***************************************************************************)
EXTENDS PairStore, TLC

Symmetry == Permutations(Phones) \cup Permutations(Volumes)
=============================================================================
