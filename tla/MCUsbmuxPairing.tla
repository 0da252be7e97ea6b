-------------------------- MODULE MCUsbmuxPairing ---------------------------
(***************************************************************************)
(* UsbmuxPairing on a small instance.  Retry threads would be              *)
(* interchangeable, but a run that checks liveness takes no symmetry.      *)
(***************************************************************************)
EXTENDS UsbmuxPairing
=============================================================================
