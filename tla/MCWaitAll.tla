------------------------------ MODULE MCWaitAll ------------------------------
(* Instances of WaitAll for TLC. *)
EXTENDS WaitAll
=============================================================================
