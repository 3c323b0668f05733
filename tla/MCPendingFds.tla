---------------------------- MODULE MCPendingFds ----------------------------
(* An instance of PendingFds for TLC. *)
EXTENDS PendingFds, TLC

Perms == Permutations(Open) \cup Permutations(Thread)
=============================================================================
