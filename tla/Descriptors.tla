---------------------------- MODULE Descriptors ----------------------------
(***************************************************************************)
(* What the compiler pass and the runtimes agree on: annotation options    *)
(* and descriptors (filc_async_meta), the framework's test of a            *)
(* descriptor's dependency words and the two runtimes' tests of its shape. *)
(*                                                                         *)
(* An option string key=param:ns is a record of its three parts; ns is     *)
(* NoNs where there is no colon. Arguments are numbered from 1.            *)
(***************************************************************************)
EXTENDS Integers, Sequences

NoNs == "none"

\* Kinds (FILC_ASYNC_ARG_*): "ignored", "in", "out" and "pending".
IsOutputKind(kind) == kind \in {"out", "pending"}
IsInputKind(kind) == kind \in {"in", "pending"}

\* FILC_ASYNC_DEP_*: bits 0 and 1 the mode, 2 the pointer bit, 8 up the space.
DepRead == 1
DepWrite == 2
DepWord(mode, pointer, space) == mode + (IF pointer THEN 4 ELSE 0) + 256 * space
ModeOf(dep) == dep % 4

\* The values of the options with this key, in order.
Given(opts, key) ==
    LET of == SelectSeq(opts, LAMBDA o : o.key = key)
    IN [i \in DOMAIN of |-> of[i].param]

-----------------------------------------------------------------------------
(* dependencies_ok: every word is empty, or a read or a write with its     *)
(* pointer bit and space and no other bit.                                 *)
DependenciesOk(m) ==
    /\ m.noped <= m.nargs
    /\ \A i \in 1 .. m.nargs :
          /\ ModeOf(m.dep[i]) # DepRead + DepWrite
          /\ (m.dep[i] \div 8) % 32 = 0
          /\ ModeOf(m.dep[i]) = 0 => m.dep[i] = 0

-----------------------------------------------------------------------------
(* The io_uring runtime: the first op= decides, known or not. *)
UringOps == {"pread", "pwrite", "openat", "fsync", "close", "ignore"}

UringOp(opts) ==
    LET ops == Given(opts, "op")
    IN IF ops # <<>> /\ Head(ops) \in UringOps THEN Head(ops) ELSE "unknown"

CompletionArgsOk(m, required) ==
    /\ m.nargs >= required
    /\ \A i \in required + 1 .. m.nargs : IsOutputKind(m.kind[i])

ShapeOk(m, op) ==
    \/ op = "ignore"
    \/ /\ m.nargs > 0
       /\ m.kind[1] = "ignored"
       /\ \/ /\ op \in {"pread", "pwrite", "openat"}
             /\ CompletionArgsOk(m, 4)
             /\ IF op = "pread" THEN IsOutputKind(m.kind[2]) ELSE IsInputKind(m.kind[2])
             /\ m.kind[3] = "ignored"
             /\ m.kind[4] = "ignored"
          \/ op \in {"fsync", "close"} /\ CompletionArgsOk(m, 1)

UringValidate(m) == ShapeOk(m, UringOp(m.opts))

-----------------------------------------------------------------------------
(* The rpc runtime: the first op= it knows decides. *)
RpcOp(opts) ==
    LET ops == SelectSeq(Given(opts, "op"), LAMBDA op : op \in {"step", "get", "put"})
    IN IF ops = <<>> THEN "none" ELSE Head(ops)

\* Mutant: a payload of unknown direction is let through.
RpcValidate_pending(m) ==
    /\ m.nargs >= 1
    /\ m.kind[1] = "ignored"
    /\ \/ /\ RpcOp(m.opts) \in {"step", "get"}
          /\ m.nargs = 2
          /\ IsOutputKind(m.kind[2])
       \/ /\ RpcOp(m.opts) = "put"
          /\ m.nargs = 3
          /\ IsInputKind(m.kind[2])
          /\ m.kind[3] = "ignored"

RpcValidate(m) ==
    /\ m.nargs >= 1
    /\ m.kind[1] = "ignored"
    /\ \/ /\ RpcOp(m.opts) \in {"step", "get"}
          /\ m.nargs = 2
          /\ IsOutputKind(m.kind[2])
       \/ /\ RpcOp(m.opts) = "put"
          /\ m.nargs = 3
          /\ m.kind[2] = "in"
          /\ m.kind[3] = "ignored"

\* The validate of the runtime the descriptor points at.
Validate(m) == IF m.runtime = "rpc" THEN RpcValidate(m) ELSE UringValidate(m)

=============================================================================
