---------------------------- MODULE MCVerifier ----------------------------
(* Instances of Verifier for TLC: a pool of one goroutine, with the backlog  *)
(* of twice the parallelism that the node gives it.                          *)
EXTENDS Verifier
=============================================================================
