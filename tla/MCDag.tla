------------------------------- MODULE MCDag -------------------------------
(* Instances of Dag for TLC. *)
EXTENDS Dag

Object1 == [lower |-> 0, upper |-> 4]
Object2 == [lower |-> 4, upper |-> 6]

Bytes(o, at, n, k) == [kind |-> k, obj |-> o, buf |-> at, len |-> n, resource |-> 0]
Resource(r, k) == [kind |-> k, obj |-> Null, buf |-> 0, len |-> 0, resource |-> r]

\* Two objects side by side, an access that runs over the first one's end,
\* and two resources.
SomeAccesses ==
    {Bytes(Object1, 0, 2, "IN"), Bytes(Object1, 2, 2, "OUT"), Bytes(Object1, 2, 3, "INOUT"),
     Bytes(Object2, 4, 1, "OUT"), Resource(0, "OUT"), Resource(0, "IN"), Resource(1, "INOUT")}

SomeOps == {{a, b} : a, b \in SomeAccesses}

\* Two operations with up to two accesses each, and four with one.
SomeBatches == [0 .. 1 -> SomeOps] \cup [0 .. 3 -> {{a} : a \in SomeAccesses}]
=============================================================================
