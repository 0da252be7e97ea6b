----------------------------- MODULE MCNetStack -----------------------------
(***************************************************************************)
(* NetStack on a small instance: messages with every option, without a     *)
(* router, and with no option at all, and leases on either side of the     *)
(* rounding of their half.                                                 *)
(***************************************************************************)
EXTENDS NetStack

CONSTANTS Short, Long   \* lease times

DhcpOptions ==
  {[router |-> Router, server |-> Server, lease |-> Short],
   [router |-> None,   server |-> Server, lease |-> Long],
   [router |-> None,   server |-> None,   lease |-> 0]}
=============================================================================
