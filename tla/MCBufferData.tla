---------------------------- MODULE MCBufferData ----------------------------
(* An instance of BufferData for TLC: a writable and a read-only object. *)
EXTENDS BufferData, TLC

CONSTANTS rw, ro

Shape(out, in, f) == [out |-> out, in |-> in, fails |-> f]

(* A reader, a writer that may fail, a call that updates one object and    *)
(* reads another.                                                          *)
DataShapes == {Shape(<<>>, <<rw>>, FALSE), Shape(<<rw>>, <<>>, TRUE),
               Shape(<<rw>>, <<ro>>, FALSE)}

Perms == Permutations(Call) \cup Permutations(Value)
=============================================================================
