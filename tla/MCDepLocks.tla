---------------------------- MODULE MCDepLocks ----------------------------
(* Instances of DepLocks for TLC. *)
EXTENDS DepLocks

R(k) == [key |-> k, write |-> FALSE]
W(k) == [key |-> k, write |-> TRUE]

CONSTANTS k1, k2

(* Calls that take one or two locks, in both orders, and the same key      *)
(* twice (a collision of two spaces): some of these programs stop          *)
(* themselves, but none breaks a lock.                                     *)
SomeLists == {<<R(k1)>>, <<W(k1)>>, <<R(k1), W(k2)>>, <<W(k2), R(k1)>>,
              <<R(k1), W(k1)>>, <<R(k2)>>}
============================================================================
