-------------------------- MODULE MCLicenceRuntime --------------------------
(* TLC instance of LicenceRuntime: a session of a few phone connections.   *)
EXTENDS LicenceRuntime
=============================================================================
