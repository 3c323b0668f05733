---------------------------- MODULE MCTrackers ----------------------------
(* Instances of Trackers for TLC. *)
EXTENDS Trackers, TLC

Perms == Permutations(Thread) \cup Permutations(Op) \cup Permutations(Slot)
=============================================================================
