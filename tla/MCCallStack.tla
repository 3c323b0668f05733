----------------------------- MODULE MCCallStack -----------------------------
(* An instance of CallStack for TLC: two objects, of which x is below y. *)
EXTENDS CallStack

CONSTANTS x, y, c1, c2, c3

BelowXY == {<<x, y>>}

Passing(out, in) == [out |-> out, in |-> in, fails |-> FALSE]

(* A producer of x, a reader of y, a call that writes both, and the task   *)
(* of an explicit read.                                                    *)
Shape == <<Passing(<<x>>, <<>>), Passing(<<>>, <<y>>), Passing(<<x, y>>, <<>>),
           Passing(<<>>, <<>>)>>
StackShapes == {Shape[i] : i \in DOMAIN Shape}

(* Calls differ in nothing but their shapes, so of the ways to deal shapes *)
(* out to them, one of each kind is enough; one explicit read at most.      *)
Dealt ==
    \E i, j, k \in DOMAIN Shape :
        /\ i =< j /\ j =< k /\ j < 4
        /\ shape = [c \in Call |-> IF c = c1 THEN Shape[i] ELSE IF c = c2 THEN Shape[j]
                                   ELSE Shape[k]]

MCInit == StackInit /\ Dealt
MCSpec == MCInit /\ [][StackNext]_allVars /\ StackFairness
==============================================================================
