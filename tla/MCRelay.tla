------------------------------ MODULE MCRelay ------------------------------
(* Relay on a small instance for TLC; the liveness properties rule out the   *)
(* symmetry of the sockets.                                                  *)
EXTENDS Relay
=============================================================================
