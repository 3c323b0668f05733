--------------------------- MODULE MCUringRuntime ---------------------------
(* An instance of UringRuntime for TLC: the calls are all requests, or one *)
(* is ignored and one turned down.                                         *)
EXTENDS UringRuntime

Others(p, kind) == {c \in Call : p[c] = kind}

MCProfiles == {p \in [Call -> {"request", "ignore", "invalid"}] :
                  \/ Others(p, "request") = Call
                  \/ Cardinality(Others(p, "ignore")) = 1 /\ Cardinality(Others(p, "invalid")) = 1}

Perms == Permutations(Thread) \cup Permutations(Call)
=============================================================================
