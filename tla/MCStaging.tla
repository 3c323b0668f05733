----------------------------- MODULE MCStaging -----------------------------
(***************************************************************************)
(* An instance of Staging for TLC: words of four bits, blocks of eight     *)
(* words, two calls and what their runtime allocates.                      *)
(***************************************************************************)
EXTENDS Staging

Integer(bits, value) == [type |-> "int", bits |-> bits, value |-> value]
Pointer(value) == [type |-> "ptr", bits |-> 4, value |-> value]
Wider(value) == [type |-> "other", bits |-> 4, value |-> value]

\* Pairs of small argument lists, with equal values of different widths and
\* values that are equal as unsigned; a call without arguments.
MCPrograms ==
    {<<<<Integer(3, -1), Integer(4, 7)>>, <<Integer(4, -1)>>>>,
     <<<<Integer(2, 1), Pointer(9)>>, <<Integer(3, 1)>>>>,
     <<<<>>, <<Integer(4, -8), Wider(3), Integer(4, 0)>>>>}

\* Sizes and alignments of 0; three is no alignment; the largest request that
\* goes in a normal block, and requests with a block of their own.
MCRequests == {<<0, 0>>, <<1, 3>>, <<4, 4>>, <<6, 4>>, <<1, 8>>}
=============================================================================
