--------------------------- MODULE MCTetherDriver ---------------------------
(***************************************************************************)
(* TetherDriver on a small instance.  Worker threads would be              *)
(* interchangeable, but a run that checks liveness takes no symmetry.      *)
(***************************************************************************)
EXTENDS TetherDriver
=============================================================================
