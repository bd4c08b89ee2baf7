----------------------------- MODULE MCCiCache -----------------------------
(* CiCache on a small instance for TLC; one unit of time stands for 15 s. *)
EXTENDS CiCache
=============================================================================
