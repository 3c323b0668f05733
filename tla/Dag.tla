-------------------------------- MODULE Dag --------------------------------
(***************************************************************************)
(* Batches of operations with declared accesses (fasync_dep.c):            *)
(* fasync_build_dag finds the pairs that conflict, fasync_run_dag submits  *)
(* each operation once those it must follow have completed.                *)
(*                                                                         *)
(* Operations are numbered from 0 as in the code, and an edge is the       *)
(* number i * n_ops + j. Completions come from the kernel while the loop   *)
(* of run_dag goes on. Names and statistics are left out.                  *)
(***************************************************************************)
EXTENDS Integers, FiniteSets

CONSTANTS
    Batches,    \* batches: functions from 0 .. n - 1 to sets of accesses
    MaxEdges,   \* room in the caller's array of edges
    EnterFails  \* whether io_uring_enter may fail

Null == [lower |-> 0, upper |-> 0]    \* the object of no buffer

(* struct fasync_access, with the bounds of the object buf points into.    *)
Access == [kind : {"IN", "OUT", "INOUT"}, obj : [lower : Nat, upper : Nat],
           buf : Nat, len : Nat, resource : Nat]

ASSUME BatchesTyped ==
    \A b \in Batches : /\ IsFiniteSet(DOMAIN b)
                       /\ DOMAIN b = 0 .. Cardinality(DOMAIN b) - 1
                       /\ \A i \in DOMAIN b : b[i] \subseteq Access
ASSUME MaxEdgesNat == MaxEdges \in Nat
ASSUME EnterFailsBoolean == EnterFails \in BOOLEAN

VARIABLES
    ops,        \* the batch
    edges,      \* what build_dag returned
    in_degree,
    started,
    done,
    where,      \* of each operation's request: none, queued, kernel or complete
    phase,      \* build, wave, publish, collect; then returned, or failed: that
                \* is the return after an entry call the kernel turned down
    ret

dagVars == <<ops, edges, in_degree, started, done, where, phase, ret>>

Op == DOMAIN ops
n_ops == Cardinality(Op)

-----------------------------------------------------------------------------
(* Conflicts *)

Writes(a) == a.kind \in {"OUT", "INOUT"}
Reads(a) == a.kind \in {"IN", "INOUT"}

\* fasync_capability_range: from the first to the last byte of access and object
Lo(a) == IF a.buf < a.obj.lower THEN a.buf ELSE a.obj.lower
Hi(a) == IF a.buf + a.len > a.obj.upper THEN a.buf + a.len ELSE a.obj.upper

ranges_disjoint(a, b) == Hi(a) =< Lo(b) \/ Hi(b) =< Lo(a)

access_conflict(a, b) ==
    /\ IF a.obj = Null \/ b.obj = Null
       THEN a.obj = Null /\ b.obj = Null /\ a.resource = b.resource
       ELSE ~ranges_disjoint(a, b)
    /\ Writes(a) \/ Writes(b)

ops_conflict(x, y) == \E a \in x, b \in y : access_conflict(a, b)

\* The pairs of operations that conflict, as edges from earlier to later.
Conflicts(b) ==
    LET n == Cardinality(DOMAIN b) IN
    {p[1] * n + p[2] : p \in {q \in (0 .. n - 1) \X (0 .. n - 1) :
                                 q[1] < q[2] /\ ops_conflict(b[q[1]], b[q[2]])}}

(* fasync_build_dag: the edges, or none when they do not fit. *)
build_dag(b) == IF Cardinality(Conflicts(b)) > MaxEdges THEN {} ELSE Conflicts(b)

(* Callers bring an array with room for all pairs; without it run_dag would*)
(* run the batch unordered.                                                *)
ASSUME EdgesFit == \A b \in Batches : Cardinality(Conflicts(b)) =< MaxEdges

(* A pointer points into the object its capability is for, or at its end,  *)
(* and the object has bytes: else the range from the one to the other      *)
(* holds bytes of neither, and conflicts more often than it needs to.      *)
ASSUME PointersPointIn ==
    \A b \in Batches : \A i \in DOMAIN b : \A a \in b[i] :
        a.obj # Null => a.obj.lower < a.obj.upper /\ a.buf \in a.obj.lower .. a.obj.upper

-----------------------------------------------------------------------------
(* fasync_run_dag *)

Build ==
    /\ phase = "build"
    /\ edges' = build_dag(ops)
    /\ in_degree' = [i \in Op |-> Cardinality({e \in edges' : e % n_ops = i})]
    /\ phase' = "wave"
    /\ UNCHANGED <<ops, started, done, where, ret>>

InFlight == started \ done

Returns(r) == phase' = "returned" /\ ret' = r

\* Mutant: an operation may start when one of those before it is done.
Startable_one(i) ==
    i \notin started /\ (in_degree[i] = 0 \/ \E e \in edges : e % n_ops = i /\ e \div n_ops \in done)

Startable(i) == i \notin started /\ in_degree[i] = 0

\* Mutant: the loop ends as soon as a wave cannot start anything.
Wave_gives_up ==
    /\ phase = "wave"
    /\ done # Op
    /\ \E S \in SUBSET {i \in Op : Startable(i)} :
        /\ started' = started \cup S
        /\ where' = [i \in Op |-> IF i \in S THEN "queued" ELSE where[i]]
        /\ \/ S # {} /\ phase' = "publish" /\ UNCHANGED ret
           \/ S = {} /\ Returns(-1)
    /\ UNCHANGED <<ops, edges, in_degree, done>>

\* Mutant: the loop goes round when nothing is in flight.
Wave_spins ==
    /\ phase = "wave"
    /\ done # Op
    /\ \E S \in SUBSET {i \in Op : Startable(i)} :
        /\ started' = started \cup S
        /\ where' = [i \in Op |-> IF i \in S THEN "queued" ELSE where[i]]
        /\ phase' = IF S # {} THEN "publish" ELSE "collect"
    /\ UNCHANGED <<ops, edges, in_degree, done, ret>>

(* One turn of the loop up to the publishing: every operation whose        *)
(* predecessors are done is submitted, which may fail for any of them.     *)
Wave ==
    /\ phase = "wave"
    /\ done # Op
    /\ \E S \in SUBSET {i \in Op : Startable(i)} :
        /\ started' = started \cup S
        /\ where' = [i \in Op |-> IF i \in S THEN "queued" ELSE where[i]]
        /\ \/ S # {} /\ phase' = "publish" /\ UNCHANGED ret
           \/ S = {} /\ InFlight # {} /\ phase' = "collect" /\ UNCHANGED ret
           \/ S = {} /\ InFlight = {} /\ Returns(-1)
    /\ UNCHANGED <<ops, edges, in_degree, done>>

Sent == [i \in Op |-> IF where[i] = "queued" THEN "kernel" ELSE where[i]]

\* fasync_submit of the wave
Publish ==
    /\ phase = "publish"
    /\ where' = Sent
    /\ phase' = "collect"
    /\ UNCHANGED <<ops, edges, in_degree, started, done, ret>>

\* The kernel turns the entry call down, and run_dag returns. The entries are
\* published: they stay in the queue, and earlier waves in flight.
PublishFails ==
    /\ EnterFails
    /\ phase = "publish"
    /\ phase' = "failed"
    /\ ret' = -1
    /\ UNCHANGED <<ops, edges, in_degree, started, done, where>>

\* A later submission, by anybody, has the kernel take the oldest entry.
SentLater ==
    /\ phase = "failed"
    /\ \E i \in Op :
        /\ where[i] = "queued"
        /\ \A j \in Op : j < i => where[j] # "queued"
        /\ where' = [where EXCEPT ![i] = "kernel"]
    /\ UNCHANGED <<ops, edges, in_degree, started, done, phase, ret>>

\* in_degree once operation i is done.
Discharged(i) ==
    [j \in Op |-> IF i * n_ops + j \in edges /\ in_degree[j] > 0 THEN in_degree[j] - 1
                                                                 ELSE in_degree[j]]

\* The first operation found ready is collected, and its successors count
\* one less to wait for.
Collect ==
    /\ phase = "collect"
    /\ \E i \in InFlight :
        /\ where[i] = "complete"
        /\ done' = done \cup {i}
        /\ in_degree' = Discharged(i)
    /\ phase' = "wave"
    /\ UNCHANGED <<ops, edges, started, where, ret>>

\* None is ready: round again.
CollectNothing ==
    /\ phase = "collect"
    /\ \A i \in InFlight : where[i] # "complete"
    /\ phase' = "wave"
    /\ UNCHANGED <<ops, edges, in_degree, started, done, where, ret>>

Finish ==
    /\ phase = "wave"
    /\ done = Op
    /\ Returns(0)
    /\ UNCHANGED <<ops, edges, in_degree, started, done, where>>

-----------------------------------------------------------------------------
KernelCompletes(i) ==
    /\ where[i] = "kernel"
    /\ where' = [where EXCEPT ![i] = "complete"]
    /\ UNCHANGED <<ops, edges, in_degree, started, done, phase, ret>>

DagInit ==
    /\ ops \in Batches
    /\ edges = {}
    /\ in_degree = [i \in Op |-> 0]
    /\ started = {}
    /\ done = {}
    /\ where = [i \in Op |-> "none"]
    /\ phase = "build"
    /\ ret = 0

Runner == Build \/ Wave \/ Publish \/ PublishFails \/ Collect \/ CollectNothing \/ Finish

DagNext ==
    \/ Runner
    \/ SentLater
    \/ \E i \in Op : KernelCompletes(i)

DagSpec == DagInit /\ [][DagNext]_dagVars

(* The loop goes on, and the kernel completes what it was given. *)
DagFairSpec == DagSpec /\ WF_dagVars(Runner) /\ WF_dagVars(\E i \in Op : KernelCompletes(i))

-----------------------------------------------------------------------------
(* Properties *)

(* What an access touches: every byte of the object it points into, or a   *)
(* named resource. Two operations clash when one writes what both touch.   *)
Touches(a) ==
    IF a.obj = Null THEN {<<"resource", a.resource>>}
    ELSE {<<"byte", x>> : x \in (a.obj.lower .. a.obj.upper - 1) \cup (a.buf .. a.buf + a.len - 1)}

Clash(x, y) ==
    \E a \in x, b \in y : (Writes(a) \/ Writes(b)) /\ Touches(a) \cap Touches(b) # {}

(* An operation is given to the kernel only when every earlier one it      *)
(* clashes with has completed, and been collected; and those that do not   *)
(* clash are not made to wait for each other: only a chain of clashes      *)
(* keeps an operation back.                                                *)
OrderKept ==
    /\ \A i, j \in Op : i < j /\ Clash(ops[i], ops[j]) /\ j \in started => i \in done
    /\ phase # "build" => \A e \in edges : /\ e \div n_ops < e % n_ops
                                          /\ Clash(ops[e \div n_ops], ops[e % n_ops])

(* What the result of run_dag tells. 0: every operation has completed and  *)
(* was collected. -1 at the end of the loop: "an op could not be           *)
(* submitted", and nothing is in flight. -1 after an entry call that       *)
(* failed: operations are left in flight or in the queue, and may run      *)
(* later, although "it and everything ordered after it never ran". What    *)
(* comes after an operation that was not collected never runs in any case. *)
ResultTells ==
    /\ phase = "returned" /\ ret = 0 => \A i \in Op : where[i] = "complete" /\ i \in done
    /\ phase = "returned" /\ ret = -1 => started # Op /\ InFlight = {}
    /\ phase = "failed" => ret = -1 /\ InFlight # {}
    /\ phase \in {"returned", "failed"} =>
        \A i, j \in Op : i \notin done /\ i * n_ops + j \in edges => where[j] = "none"

(* The run returns, whatever is refused on the way; after an entry call    *)
(* that failed without waiting for what is in flight.                      *)
RunReturns == <>(phase \in {"returned", "failed"})

=============================================================================
