------------------------------- MODULE MCTasks -------------------------------
(* Instances of Tasks for TLC. *)
EXTENDS Tasks, TLC

Perms == Permutations(Thread) \cup Permutations(Lazy) \cup Permutations(Task \ Lazy)
=============================================================================
