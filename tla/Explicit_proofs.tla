-------------------------- MODULE Explicit_proofs ---------------------------
(***************************************************************************)
(* The library over io_uring. Batches of any number of operations with any *)
(* accesses: DagInv is inductive; what run_dag counts in in_degree is the  *)
(* number of edges from operations not collected yet. And the handles of   *)
(* opens in flight, for any number of threads, opens and entries: FdsInv   *)
(* is inductive.                                                           *)
(***************************************************************************)
EXTENDS Dag, PendingFds, FiniteSetTheorems, TLAPS

(* What every variable ranges over. *)
DagTypeOK ==
    /\ ops \in Batches
    /\ in_degree \in [Op -> Nat]
    /\ started \in SUBSET Op
    /\ done \in SUBSET Op
    /\ where \in [Op -> {"none", "queued", "kernel", "complete"}]
    /\ phase \in {"build", "wave", "publish", "collect", "returned", "failed"}
    /\ ret \in {0, -1}

\* The edges into j from operations still to be collected.
Awaited(j) == {e \in edges : e % n_ops = j /\ e \div n_ops \notin done}

\* There are edges once they are built, and in_degree counts them.
EdgesCounted ==
    /\ phase = "build" => edges = {} /\ started = {} /\ done = {}
    /\ phase # "build" => edges = Conflicts(ops) /\ \A j \in Op : in_degree[j] = Cardinality(Awaited(j))

\* What started had nothing left to wait for.
StartedLast == \A e \in edges : e % n_ops \in started => e \div n_ops \in done

\* Where the requests of started and collected operations are.
RequestsFollow ==
    /\ done \subseteq started
    /\ \A i \in done : where[i] = "complete"
    /\ \A i \in Op \ started : where[i] = "none"
    /\ phase \in {"publish", "failed"} => InFlight # {}

\* Why run_dag has returned.
WhyReturned ==
    /\ phase = "returned" /\ ret = 0 => done = Op
    /\ phase = "returned" /\ ret = -1 => started # Op /\ InFlight = {}
    /\ phase = "failed" => ret = -1

DagInv ==
    /\ DagTypeOK
    /\ EdgesCounted
    /\ StartedLast
    /\ RequestsFollow
    /\ WhyReturned

-----------------------------------------------------------------------------
(* Operations are numbered from 0. *)
LEMMA OpFacts ==
    ASSUME ops \in Batches
    PROVE  /\ n_ops \in Nat
           /\ Op = 0 .. n_ops - 1
           /\ IsFiniteSet(Op)
           /\ \A i \in Op : ops[i] \subseteq Access
<1>1. IsFiniteSet(Op) /\ Op = 0 .. Cardinality(Op) - 1 /\ \A i \in Op : ops[i] \subseteq Access
  BY BatchesTyped DEF Op
<1> QED
  BY <1>1, FS_CardinalityType DEF n_ops

(* An edge is taken apart into the operations it is made of. *)
LEMMA DivMod ==
    ASSUME NEW n \in Nat, NEW i \in 0 .. n - 1, NEW j \in 0 .. n - 1
    PROVE  (i * n + j) % n = j /\ (i * n + j) \div n = i /\ i * n + j \in 0 .. n * n - 1
<1>1. n \in Nat \ {0} /\ i \in Nat /\ j \in Nat /\ j < n /\ i =< n - 1
  BY SMT
<1>2. (i * n + j) % n = j /\ (i * n + j) \div n = i
  BY <1>1, SMT
<1>3. i * n =< (n - 1) * n
  BY <1>1, SMT
<1>4. (n - 1) * n = n * n - n
  BY <1>1, SMT
<1>5. i * n \in Nat /\ n * n \in Nat
  BY <1>1, SMT
<1> QED
  BY <1>1, <1>2, <1>3, <1>4, <1>5, SMT

(* Edges lead from an earlier operation to a later one it conflicts with.  *)
LEMMA EdgeFacts ==
    ASSUME ops \in Batches, NEW e \in Conflicts(ops)
    PROVE  /\ e \div n_ops \in Op /\ e % n_ops \in Op
           /\ e \div n_ops < e % n_ops
           /\ e = (e \div n_ops) * n_ops + (e % n_ops)
           /\ ops_conflict(ops[e \div n_ops], ops[e % n_ops])
           /\ e \in 0 .. n_ops * n_ops - 1
<1>1. PICK q \in (0 .. n_ops - 1) \X (0 .. n_ops - 1) :
         /\ q[1] < q[2] /\ ops_conflict(ops[q[1]], ops[q[2]])
         /\ e = q[1] * n_ops + q[2]
  BY DEF Conflicts, n_ops, Op
<1>2. n_ops \in Nat /\ Op = 0 .. n_ops - 1
  BY OpFacts
<1>3. q[1] \in 0 .. n_ops - 1 /\ q[2] \in 0 .. n_ops - 1
  BY <1>1
<1>4. e % n_ops = q[2] /\ e \div n_ops = q[1] /\ e \in 0 .. n_ops * n_ops - 1
  BY <1>1, <1>2, <1>3, DivMod
<1> QED
  BY <1>1, <1>2, <1>3, <1>4

(* Every conflict has its edge. *)
LEMMA ConflictHasEdge ==
    ASSUME ops \in Batches, NEW i \in Op, NEW j \in Op, i < j, ops_conflict(ops[i], ops[j])
    PROVE  i * n_ops + j \in Conflicts(ops)
<1>1. n_ops \in Nat /\ i \in 0 .. n_ops - 1 /\ j \in 0 .. n_ops - 1
  BY OpFacts
<1>2. <<i, j>> \in {q \in (0 .. n_ops - 1) \X (0 .. n_ops - 1) :
                       q[1] < q[2] /\ ops_conflict(ops[q[1]], ops[q[2]])}
  BY <1>1
<1>3. \E p \in {q \in (0 .. n_ops - 1) \X (0 .. n_ops - 1) :
                 q[1] < q[2] /\ ops_conflict(ops[q[1]], ops[q[2]])} :
         i * n_ops + j = p[1] * n_ops + p[2]
  BY <1>2
<1> QED
  BY <1>3 DEF Conflicts, n_ops, Op

LEMMA EdgesFinite ==
    ASSUME ops \in Batches
    PROVE  IsFiniteSet(Conflicts(ops))
<1>1. n_ops \in Nat
  BY OpFacts
<1>2. n_ops * n_ops - 1 \in Int
  BY <1>1, SMT
<1>3. IsFiniteSet(0 .. n_ops * n_ops - 1)
  BY <1>2, FS_Interval
<1>4. Conflicts(ops) \subseteq 0 .. n_ops * n_ops - 1
  BY EdgeFacts
<1> QED
  BY <1>3, <1>4, FS_Subset

-----------------------------------------------------------------------------
(* Accesses that share a byte or a resource, and one of which writes,      *)
(* conflict.                                                               *)
LEMMA ClashConflicts ==
    ASSUME NEW a \in Access, NEW b \in Access, Writes(a) \/ Writes(b),
           Touches(a) \cap Touches(b) # {}
    PROVE  access_conflict(a, b)
<1>0. /\ a.obj.lower \in Nat /\ a.obj.upper \in Nat /\ a.buf \in Nat /\ a.len \in Nat
      /\ b.obj.lower \in Nat /\ b.obj.upper \in Nat /\ b.buf \in Nat /\ b.len \in Nat
  BY DEF Access
<1>1. PICK w : w \in Touches(a) /\ w \in Touches(b)
  OBVIOUS
<1>2. CASE a.obj = Null
  <2>1. w = <<"resource", a.resource>>
    BY <1>1, <1>2 DEF Touches
  <2>2. b.obj = Null /\ w = <<"resource", b.resource>>
    BY <1>1, <2>1 DEF Touches
  <2> QED
    BY <1>2, <2>1, <2>2 DEF access_conflict
<1>3. CASE a.obj # Null
  <2>1. PICK x \in (a.obj.lower .. a.obj.upper - 1) \cup (a.buf .. a.buf + a.len - 1) :
           w = <<"byte", x>>
    BY <1>1, <1>3 DEF Touches
  <2>2. b.obj # Null
    BY <1>1, <2>1 DEF Touches
  <2>3. PICK y \in (b.obj.lower .. b.obj.upper - 1) \cup (b.buf .. b.buf + b.len - 1) :
           w = <<"byte", y>>
    BY <1>1, <2>2 DEF Touches
  <2>4. x = y
    BY <2>1, <2>3
  <2>5. ~ranges_disjoint(a, b)
    BY <1>0, <2>4, SMT DEF ranges_disjoint, Lo, Hi
  <2> QED
    BY <1>3, <2>2, <2>5 DEF access_conflict
<1> QED
  BY <1>2, <1>3

(* And no others do, where pointers point into their objects. *)
LEMMA ConflictsClash ==
    ASSUME NEW a \in Access, NEW b \in Access, access_conflict(a, b),
           a.obj # Null => a.obj.lower < a.obj.upper /\ a.buf \in a.obj.lower .. a.obj.upper,
           b.obj # Null => b.obj.lower < b.obj.upper /\ b.buf \in b.obj.lower .. b.obj.upper
    PROVE  (Writes(a) \/ Writes(b)) /\ Touches(a) \cap Touches(b) # {}
<1>0. /\ a.obj.lower \in Nat /\ a.obj.upper \in Nat /\ a.buf \in Nat /\ a.len \in Nat
      /\ b.obj.lower \in Nat /\ b.obj.upper \in Nat /\ b.buf \in Nat /\ b.len \in Nat
  BY DEF Access
<1>1. CASE a.obj = Null \/ b.obj = Null
  <2>1. a.obj = Null /\ b.obj = Null /\ a.resource = b.resource
    BY <1>1 DEF access_conflict
  <2> QED
    BY <2>1 DEF access_conflict, Touches
<1>2. CASE a.obj # Null /\ b.obj # Null
  <2> DEFINE x == IF Lo(a) < Lo(b) THEN Lo(b) ELSE Lo(a)
  <2>1. ~ranges_disjoint(a, b)
    BY <1>2 DEF access_conflict
  <2>2. /\ Lo(a) = a.obj.lower /\ a.obj.lower < a.obj.upper
        /\ a.obj.lower =< a.buf /\ a.buf =< a.obj.upper
        /\ Lo(b) = b.obj.lower /\ b.obj.lower < b.obj.upper
        /\ b.obj.lower =< b.buf /\ b.buf =< b.obj.upper
    BY <1>0, <1>2, SMT DEF Lo
  <2>3. x \in (a.obj.lower .. a.obj.upper - 1) \cup (a.buf .. a.buf + a.len - 1)
    BY <1>0, <2>1, <2>2, SMT DEF ranges_disjoint, Hi
  <2>4. x \in (b.obj.lower .. b.obj.upper - 1) \cup (b.buf .. b.buf + b.len - 1)
    BY <1>0, <2>1, <2>2, SMT DEF ranges_disjoint, Hi
  <2>5. <<"byte", x>> \in Touches(a) /\ <<"byte", x>> \in Touches(b)
    BY <1>2, <2>3, <2>4 DEF Touches
  <2> QED
    BY <2>5 DEF access_conflict
<1> QED
  BY <1>1, <1>2

(* build_dag orders exactly the operations that clash. *)
LEMMA OpsClash ==
    ASSUME ops \in Batches, NEW i \in Op, NEW j \in Op
    PROVE  ops_conflict(ops[i], ops[j]) <=> Clash(ops[i], ops[j])
<1>1. ops[i] \subseteq Access /\ ops[j] \subseteq Access
  BY OpFacts
<1>2. ASSUME ops_conflict(ops[i], ops[j]) PROVE Clash(ops[i], ops[j])
  <2>1. PICK a \in ops[i], b \in ops[j] : access_conflict(a, b)
    BY <1>2 DEF ops_conflict
  <2>2. /\ a.obj # Null => a.obj.lower < a.obj.upper /\ a.buf \in a.obj.lower .. a.obj.upper
        /\ b.obj # Null => b.obj.lower < b.obj.upper /\ b.buf \in b.obj.lower .. b.obj.upper
    BY PointersPointIn DEF Op
  <2>3. (Writes(a) \/ Writes(b)) /\ Touches(a) \cap Touches(b) # {}
    BY <1>1, <2>1, <2>2, ConflictsClash
  <2> QED
    BY <2>3 DEF Clash
<1>3. ASSUME Clash(ops[i], ops[j]) PROVE ops_conflict(ops[i], ops[j])
  BY <1>1, <1>3, ClashConflicts DEF Clash, ops_conflict
<1> QED
  BY <1>2, <1>3

-----------------------------------------------------------------------------
(* The edges still awaited are finitely many. *)
LEMMA AwaitedFacts ==
    ASSUME DagTypeOK, phase # "build", EdgesCounted, NEW j \in Op
    PROVE  /\ IsFiniteSet(Awaited(j))
           /\ Cardinality(Awaited(j)) \in Nat
           /\ in_degree[j] = Cardinality(Awaited(j))
           /\ in_degree[j] = 0 <=> Awaited(j) = {}
<1>1. IsFiniteSet(edges)
  BY EdgesFinite DEF EdgesCounted, DagTypeOK
<1>2. IsFiniteSet(Awaited(j))
  BY <1>1, FS_Subset DEF Awaited
<1> QED
  BY <1>2, FS_CardinalityType, FS_EmptySet DEF EdgesCounted

(* The operations that are collected leave the edges they are the start of *)
(* behind.                                                                 *)
LEMMA DischargedFacts ==
    ASSUME DagTypeOK, phase # "build", EdgesCounted, NEW i \in Op, i \notin done,
           ops' = ops, edges' = edges, done' = done \cup {i}, NEW j \in Op
    PROVE  Discharged(i)[j] = Cardinality(Awaited(j)')
<1> DEFINE e == i * n_ops + j
<1>1. n_ops \in Nat /\ i \in 0 .. n_ops - 1 /\ j \in 0 .. n_ops - 1 /\ n_ops' = n_ops
  BY OpFacts DEF DagTypeOK, n_ops, Op
<1>2. e % n_ops = j /\ e \div n_ops = i
  BY <1>1, DivMod
<1>3. edges = Conflicts(ops) /\ ops \in Batches
  BY DEF EdgesCounted, DagTypeOK
<1>4. \A f \in edges : f % n_ops = j /\ f \div n_ops = i => f = e
  BY <1>3, EdgeFacts
<1> HIDE DEF e
<1>5. Awaited(j)' = Awaited(j) \ {e}
  <2>1. Awaited(j)' = {f \in edges : f % n_ops = j /\ f \div n_ops \notin done \cup {i}}
    BY <1>1 DEF Awaited
  <2> QED
    BY <1>2, <1>4, <2>1 DEF Awaited
<1>6. e \in edges <=> e \in Awaited(j)
  BY <1>2 DEF Awaited
<1>7. /\ IsFiniteSet(Awaited(j))
      /\ Cardinality(Awaited(j)) \in Nat
      /\ in_degree[j] = Cardinality(Awaited(j))
      /\ in_degree[j] = 0 <=> Awaited(j) = {}
  BY AwaitedFacts
<1>8. Discharged(i)[j] = IF e \in edges /\ in_degree[j] > 0 THEN in_degree[j] - 1 ELSE in_degree[j]
  BY DEF Discharged, e
<1>9. CASE e \in edges
  <2>1. in_degree[j] > 0
    BY <1>6, <1>7, <1>9, SMT
  <2>2. Cardinality(Awaited(j) \ {e}) = Cardinality(Awaited(j)) - 1
    BY <1>6, <1>7, <1>9, FS_RemoveElement
  <2> QED
    BY <1>5, <1>7, <1>8, <1>9, <2>1, <2>2
<1>10. CASE e \notin edges
  <2>1. Awaited(j)' = Awaited(j)
    BY <1>5, <1>6, <1>10
  <2> QED
    BY <1>7, <1>8, <1>10, <2>1
<1> QED
  BY <1>9, <1>10

LEMMA InitDag == DagInit => DagInv
<1> SUFFICES ASSUME DagInit PROVE DagInv
  OBVIOUS
<1> QED
  BY DEF DagInit, DagInv, DagTypeOK, EdgesCounted, StartedLast, RequestsFollow, WhyReturned

-----------------------------------------------------------------------------
(* One step. *)

LEMMA BuildDag ==
    ASSUME DagInv, Build
    PROVE  DagInv'
<1> USE DEF DagInv
<1>1. /\ phase = "build" /\ phase' = "wave"
      /\ edges' = build_dag(ops)
      /\ in_degree' = [i \in Op |-> Cardinality({e \in edges' : e % n_ops = i})]
      /\ UNCHANGED <<ops, started, done, where, ret>>
  BY DEF Build
<1>2. ops \in Batches /\ Op' = Op /\ n_ops' = n_ops /\ started = {} /\ done = {}
  BY <1>1 DEF DagTypeOK, EdgesCounted, Op, n_ops
<1>3. edges' = Conflicts(ops)
  <2>1. Cardinality(Conflicts(ops)) \in Nat
    BY <1>2, EdgesFinite, FS_CardinalityType
  <2>2. Cardinality(Conflicts(ops)) =< MaxEdges
    BY <1>2, EdgesFit
  <2> QED
    BY <1>1, <2>1, <2>2, MaxEdgesNat, SMT DEF build_dag
<1>4. IsFiniteSet(edges')
  BY <1>2, <1>3, EdgesFinite
<1>5. \A i \in Op : Cardinality({e \in edges' : e % n_ops = i}) \in Nat
  <2> TAKE i \in Op
  <2>1. IsFiniteSet({e \in edges' : e % n_ops = i})
    BY <1>4, FS_Subset
  <2> QED
    BY <2>1, FS_CardinalityType
<1>6. DagTypeOK'
  BY <1>1, <1>2, <1>5 DEF DagTypeOK
<1>7. \A j \in Op : Awaited(j)' = {e \in edges' : e % n_ops = j}
  BY <1>1, <1>2 DEF Awaited
<1>8. EdgesCounted'
  BY <1>1, <1>2, <1>3, <1>7 DEF EdgesCounted
<1>9. StartedLast' /\ RequestsFollow' /\ WhyReturned'
  BY <1>1, <1>2 DEF StartedLast, RequestsFollow, WhyReturned
<1> QED
  BY <1>6, <1>8, <1>9

LEMMA WaveDag ==
    ASSUME DagInv, Wave
    PROVE  DagInv'
<1> USE DEF DagInv
<1>1. PICK S \in SUBSET {i \in Op : Startable(i)} :
        /\ started' = started \cup S
        /\ where' = [i \in Op |-> IF i \in S THEN "queued" ELSE where[i]]
        /\ \/ S # {} /\ phase' = "publish" /\ UNCHANGED ret
           \/ S = {} /\ InFlight # {} /\ phase' = "collect" /\ UNCHANGED ret
           \/ S = {} /\ InFlight = {} /\ Returns(-1)
  BY DEF Wave
<1>2. phase = "wave" /\ done # Op /\ UNCHANGED <<ops, edges, in_degree, done>>
  BY DEF Wave
<1>3. Op' = Op /\ n_ops' = n_ops /\ ops \in Batches
  BY <1>2 DEF Op, n_ops, DagTypeOK
<1>4. \A i \in S : i \in Op /\ i \notin started /\ in_degree[i] = 0
  BY <1>1 DEF Startable
<1>5. /\ phase' \in {"publish", "collect", "returned"} /\ ret' \in {0, -1}
      /\ phase' = "returned" => S = {} /\ InFlight = {} /\ ret' = -1
  BY <1>1 DEF Returns, DagTypeOK
<1>6. DagTypeOK'
  BY <1>1, <1>2, <1>3, <1>4, <1>5 DEF DagTypeOK
<1>7. EdgesCounted'
  <2>1. \A j \in Op : Awaited(j)' = Awaited(j)
    BY <1>2, <1>3 DEF Awaited
  <2> QED
    BY <1>2, <1>3, <1>5, <2>1 DEF EdgesCounted
<1>8. StartedLast'
  <2> SUFFICES ASSUME NEW e \in edges, e % n_ops \in started \cup S
               PROVE  e \div n_ops \in done
    BY <1>1, <1>2, <1>3 DEF StartedLast
  <2>1. CASE e % n_ops \in S
    <3>1. Awaited(e % n_ops) = {}
      BY <1>2, <1>4, <2>1, AwaitedFacts
    <3> QED
      BY <3>1 DEF Awaited
  <2>2. CASE e % n_ops \in started
    BY <2>2 DEF StartedLast
  <2> QED
    BY <2>1, <2>2
<1>9. RequestsFollow'
  <2>1. done \subseteq started' /\ \A i \in done : where'[i] = "complete"
    BY <1>1, <1>4 DEF RequestsFollow, DagTypeOK
  <2>2. \A i \in Op \ started' : where'[i] = "none"
    BY <1>1 DEF RequestsFollow
  <2>3. phase' = "publish" => InFlight' # {}
    BY <1>1, <1>2, <1>4 DEF Returns, InFlight, RequestsFollow
  <2> QED
    BY <1>2, <1>3, <1>5, <2>1, <2>2, <2>3 DEF RequestsFollow
<1>10. WhyReturned'
  <2>1. phase' = "returned" => ret' = -1 /\ started' = started /\ started = done /\ InFlight' = {}
    BY <1>1, <1>2, <1>5 DEF InFlight, RequestsFollow
  <2> QED
    BY <1>2, <1>3, <1>5, <2>1 DEF WhyReturned
<1> QED
  BY <1>6, <1>7, <1>8, <1>9, <1>10

(* What a step that moves requests on, or nothing, keeps. *)
LEMMA MovesDag ==
    ASSUME DagInv, UNCHANGED <<ops, edges, in_degree, started, done>>,
           where' \in [Op -> {"none", "queued", "kernel", "complete"}],
           \A i \in Op : where[i] \in {"none", "complete"} => where'[i] = where[i],
           phase' \in {"wave", "collect", "returned", "failed"}, ret' \in {0, -1},
           phase' = "failed" => phase \in {"publish", "failed"},
           phase # "build", WhyReturned'
    PROVE  DagInv'
<1> USE DEF DagInv
<1>1. Op' = Op /\ n_ops' = n_ops
  BY DEF Op, n_ops
<1>2. \A j \in Op : Awaited(j)' = Awaited(j)
  BY <1>1 DEF Awaited
<1>3. DagTypeOK'
  BY <1>1 DEF DagTypeOK
<1>4. EdgesCounted'
  BY <1>1, <1>2 DEF EdgesCounted
<1>5. StartedLast' /\ RequestsFollow'
  BY <1>1 DEF StartedLast, RequestsFollow, InFlight, DagTypeOK
<1> QED
  BY <1>3, <1>4, <1>5

LEMMA PublishDag ==
    ASSUME DagInv, Publish
    PROVE  DagInv'
BY MovesDag DEF Publish, Sent, DagInv, DagTypeOK, WhyReturned

LEMMA PublishFailsDag ==
    ASSUME DagInv, PublishFails
    PROVE  DagInv'
BY MovesDag DEF PublishFails, DagInv, DagTypeOK, WhyReturned

LEMMA SentLaterDag ==
    ASSUME DagInv, SentLater
    PROVE  DagInv'
<1>1. PICK i \in Op : where[i] = "queued" /\ where' = [where EXCEPT ![i] = "kernel"]
  BY DEF SentLater
<1>2. WhyReturned'
  BY DEF SentLater, DagInv, WhyReturned, InFlight, Op
<1> QED
  BY <1>1, <1>2, MovesDag DEF SentLater, DagInv, DagTypeOK

LEMMA CollectNothingDag ==
    ASSUME DagInv, CollectNothing
    PROVE  DagInv'
BY MovesDag DEF CollectNothing, DagInv, DagTypeOK, WhyReturned

LEMMA FinishDag ==
    ASSUME DagInv, Finish
    PROVE  DagInv'
<1>1. WhyReturned'
  BY DEF Finish, Returns, WhyReturned, DagInv, RequestsFollow, Op
<1> QED
  BY <1>1, MovesDag DEF Finish, Returns, DagInv, DagTypeOK

LEMMA KernelDag ==
    ASSUME DagInv, NEW i \in Op, KernelCompletes(i)
    PROVE  DagInv'
<1> USE DEF DagInv
<1>1. /\ where' = [where EXCEPT ![i] = "complete"]
      /\ UNCHANGED <<ops, edges, in_degree, started, done, phase, ret>>
  BY DEF KernelCompletes
<1>2. Op' = Op /\ n_ops' = n_ops
  BY <1>1 DEF Op, n_ops
<1>3. \A j \in Op : Awaited(j)' = Awaited(j)
  BY <1>1, <1>2 DEF Awaited
<1>4. DagTypeOK'
  BY <1>1, <1>2 DEF DagTypeOK
<1>5. EdgesCounted'
  BY <1>1, <1>2, <1>3 DEF EdgesCounted
<1>6. StartedLast' /\ RequestsFollow' /\ WhyReturned'
  <2>1. where[i] = "kernel" /\ InFlight' = InFlight
    BY <1>1 DEF KernelCompletes, InFlight
  <2> QED
    BY <1>1, <1>2, <2>1 DEF StartedLast, RequestsFollow, WhyReturned, DagTypeOK
<1> QED
  BY <1>4, <1>5, <1>6

LEMMA CollectDag ==
    ASSUME DagInv, Collect
    PROVE  DagInv'
<1> USE DEF DagInv
<1>1. PICK i \in InFlight : /\ where[i] = "complete"
                            /\ done' = done \cup {i}
                            /\ in_degree' = Discharged(i)
  BY DEF Collect
<1>2. /\ phase = "collect" /\ phase' = "wave"
      /\ UNCHANGED <<ops, edges, started, where, ret>>
  BY DEF Collect
<1>3. Op' = Op /\ n_ops' = n_ops /\ i \in Op /\ i \in started /\ i \notin done
  BY <1>1, <1>2 DEF Op, n_ops, InFlight, DagTypeOK
<1>4. \A j \in Op : Discharged(i)[j] = Cardinality(Awaited(j)')
  BY <1>1, <1>2, <1>3, DischargedFacts
<1>5. in_degree' \in [Op -> Nat]
  BY <1>1, SMT DEF Discharged, DagTypeOK
<1>6. DagTypeOK'
  BY <1>1, <1>2, <1>3, <1>5 DEF DagTypeOK
<1>7. EdgesCounted'
  BY <1>1, <1>2, <1>3, <1>4 DEF EdgesCounted
<1>8. StartedLast' /\ RequestsFollow' /\ WhyReturned'
  BY <1>1, <1>2, <1>3 DEF StartedLast, RequestsFollow, WhyReturned
<1> QED
  BY <1>6, <1>7, <1>8

LEMMA StepDag == DagInv /\ [DagNext]_dagVars => DagInv'
<1> SUFFICES ASSUME DagInv, [DagNext]_dagVars PROVE DagInv'
  OBVIOUS
<1>1. CASE UNCHANGED dagVars
  <2>1. Op' = Op /\ n_ops' = n_ops /\ \A j : Awaited(j)' = Awaited(j)
    BY <1>1 DEF dagVars, Op, n_ops, Awaited
  <2> QED
    BY <1>1, <2>1 DEF dagVars, DagInv, DagTypeOK, EdgesCounted, StartedLast, RequestsFollow, WhyReturned, InFlight
<1> QED
  BY <1>1, BuildDag, WaveDag, PublishDag, PublishFailsDag, SentLaterDag, CollectDag, CollectNothingDag,
     FinishDag, KernelDag DEF DagNext, Runner

-----------------------------------------------------------------------------
(* Whatever the batch and its accesses: fasync_run_dag gives an operation  *)
(* to the kernel only when all earlier ones it clashes with have been      *)
(* collected, and fasync_build_dag orders no two that do not clash.        *)
THEOREM DagKeepsOrder == DagSpec => []OrderKept
<1>1. DagInv => OrderKept
  <2> SUFFICES ASSUME DagInv PROVE OrderKept
    OBVIOUS
  <2> USE DEF DagInv
  <2>1. ops \in Batches
    BY DEF DagTypeOK
  <2>2. ASSUME NEW i \in Op, NEW j \in Op, i < j, Clash(ops[i], ops[j]), j \in started
        PROVE  i \in done
    <3>1. i * n_ops + j \in Conflicts(ops)
      BY <2>1, <2>2, OpsClash, ConflictHasEdge
    <3>2. (i * n_ops + j) % n_ops = j /\ (i * n_ops + j) \div n_ops = i
      BY <2>1, OpFacts, DivMod
    <3>3. edges = Conflicts(ops)
      BY <2>2 DEF EdgesCounted
    <3> QED
      BY <2>2, <3>1, <3>2, <3>3 DEF StartedLast
  <2>3. ASSUME phase # "build", NEW e \in edges
        PROVE  e \div n_ops < e % n_ops /\ Clash(ops[e \div n_ops], ops[e % n_ops])
    BY <2>1, <2>3, EdgeFacts, OpsClash DEF EdgesCounted
  <2> QED
    BY <2>2, <2>3 DEF OrderKept
<1> QED
  BY InitDag, StepDag, <1>1, PTL DEF DagSpec

(* Whatever the batch, and whichever submissions are refused or turned     *)
(* down: after 0 from fasync_run_dag everything has completed; after the   *)
(* -1 of the loop's end nothing is in flight; after the -1 of a failed     *)
(* entry call something is, and may still run; and after any of them what  *)
(* comes after an operation that was not collected never runs.             *)
THEOREM DagResult == DagSpec => []ResultTells
<1>1. DagInv => ResultTells
  <2> SUFFICES ASSUME DagInv PROVE ResultTells
    OBVIOUS
  <2> USE DEF DagInv
  <2>1. ASSUME NEW i \in Op, NEW j \in Op, i \notin done, i * n_ops + j \in edges
        PROVE  where[j] = "none"
    <3>1. (i * n_ops + j) % n_ops = j /\ (i * n_ops + j) \div n_ops = i
      BY OpFacts, DivMod DEF DagTypeOK
    <3> QED
      BY <2>1, <3>1 DEF StartedLast, RequestsFollow
  <2>2. phase = "returned" /\ ret = 0 => \A i \in Op : where[i] = "complete" /\ i \in done
    BY DEF WhyReturned, RequestsFollow
  <2>3. phase = "failed" => InFlight # {}
    BY DEF RequestsFollow
  <2> QED
    BY <2>1, <2>2, <2>3 DEF ResultTells, WhyReturned
<1> QED
  BY InitDag, StepDag, <1>1, PTL DEF DagSpec

-----------------------------------------------------------------------------
(* The handles of opens in flight: PendingFds. *)

Outcome == [open : Open \cup {NoOpen}, res : {"none", "fd", "error", "EINVAL"}]

Entry == [used : BOOLEAN, resolved : BOOLEAN, id : Open \cup {NoOpen}, result : Outcome]

Frame ==
    {Idle}
    \cup [op : {"new"}, open : Open]
    \cup [op : {"resolve"}, open : Open, use : Use]
    \cup [op : {"store"}, open : Open, use : Use, v : Outcome]

(* What every variable ranges over. *)
FdsTypeOK ==
    /\ fds \in [Index -> Entry]
    /\ handle \in [Open -> {0, -1} \cup {FdOf(i) : i \in Index}]
    /\ answer \in [Open -> Outcome]
    /\ live \in SUBSET Open
    /\ pc \in [Thread -> Frame]
    /\ got \in [Open -> Outcome]
    /\ overlapped \in SUBSET Open

(* What may stand for the outcome of open o: what the kernel answered, or  *)
(* EINVAL once two threads have resolved it at once.                       *)
MayBeOf(o, v) ==
    \/ v = answer[o] /\ v # None
    \/ v = EINVAL /\ o \in overlapped

Given(o) == handle[o] < -1
Of(o) == fds[IndexOf(handle[o])]

\* A handle's entry is in use, and is this open's; a used entry has a handle.
EntriesOwned ==
    /\ \A o \in Open : Given(o) => Of(o).used /\ Of(o).id = o
    /\ \A i \in Index : fds[i].used => \E o \in Open : handle[o] = FdOf(i)

\* An entry that is resolved keeps its open's outcome.
EntriesRight ==
    \A o \in Open : Given(o) /\ Of(o).resolved => o \notin live /\ MayBeOf(o, Of(o).result)

\* An open between its request and its handle has no handle yet.
NewFrames ==
    /\ \A t \in Thread : pc[t].op = "new" => pc[t].open \in live /\ handle[pc[t].open] = 0
    /\ \A t, x \in Thread :
          pc[t].op = "new" /\ pc[x].op = "new" /\ pc[t].open = pc[x].open => t = x

(* Who resolves a handle has one; what it is about to store is its open's. *)
(* One that closes is alone, and so is everybody where nobody overlapped;  *)
(* then the request is still there for the one who resolves.               *)
ResolveFrames ==
    \A o \in Open :
        /\ \A t \in Resolving(o) :
              /\ Given(o)
              /\ pc[t].op = "store" => o \notin live /\ MayBeOf(o, pc[t].v)
              /\ pc[t].op = "resolve" /\ o \notin overlapped => o \in live
              /\ \A x \in Resolving(o) :
                    o \notin overlapped \/ pc[x].use = "close" => t = x
        /\ Given(o) /\ Resolving(o) = {} /\ ~Of(o).resolved => o \in live

\* A request not collected is on its way to a handle, has one, or got none.
LiveAccounted ==
    \A o \in live :
        \/ \E t \in Thread : pc[t].op = "new" /\ pc[t].open = o
        \/ handle[o] = -1
        \/ Given(o) /\ ~Of(o).resolved

\* What uses have found.
GotRight == \A o \in Open : got[o] # None => MayBeOf(o, got[o])

FdsInv ==
    /\ FdsTypeOK
    /\ EntriesOwned
    /\ EntriesRight
    /\ NewFrames
    /\ ResolveFrames
    /\ LiveAccounted
    /\ GotRight

-----------------------------------------------------------------------------
(* A handle names one entry, and back. *)
LEMMA HandleFacts ==
    ASSUME FdsTypeOK, NEW o \in Open, Given(o)
    PROVE  /\ IndexOf(handle[o]) \in Index
           /\ handle[o] = FdOf(IndexOf(handle[o]))
           /\ IsHandle(handle[o]) <=> Of(o).used
           /\ Of(o) \in Entry
<1>1. handle[o] \in {0, -1} \cup {FdOf(i) : i \in Index}
  BY DEF FdsTypeOK
<1>2. PICK i \in Index : handle[o] = FdOf(i)
  BY <1>1 DEF Given
<1>3. i \in Nat /\ i < MaxPendingFds /\ IndexOf(handle[o]) = i
  BY <1>2, MaxPendingFdsNat, SMT DEF FdOf, IndexOf, Index
<1>4. handle[o] < -1 /\ handle[o] >= -(MaxPendingFds + 1)
  BY <1>2, <1>3, MaxPendingFdsNat, SMT DEF FdOf
<1> QED
  BY <1>2, <1>3, <1>4 DEF IsHandle, Of, FdsTypeOK

(* A value that is taken for a handle is one that was given. *)
LEMMA IsHandleGiven ==
    ASSUME NEW o \in Open, IsHandle(handle[o])
    PROVE  Given(o)
BY DEF IsHandle, Given

(* No two opens share an entry. *)
LEMMA EntryOfOne ==
    ASSUME EntriesOwned, NEW o \in Open, NEW q \in Open, Given(o), Given(q),
           IndexOf(handle[o]) = IndexOf(handle[q])
    PROVE  o = q
BY DEF EntriesOwned, Of

(* The kinds of frames, told apart by op. *)
LEMMA FrameFacts ==
    ASSUME NEW f \in Frame
    PROVE  /\ f.op \in {"idle", "new", "resolve", "store"}
           /\ f.op = "idle" <=> f = Idle
           /\ f.op = "new" => f.open \in Open
           /\ f.op \in {"resolve", "store"} => f.open \in Open /\ f.use \in Use
           /\ f.op = "store" => f.v \in Outcome
BY SMT DEF Frame, Idle

LEMMA PcFacts ==
    ASSUME FdsTypeOK, NEW t \in Thread
    PROVE  /\ pc[t] \in Frame
           /\ pc[t].op \in {"idle", "new", "resolve", "store"}
           /\ pc[t].op = "idle" <=> pc[t] = Idle
           /\ pc[t].op = "new" => pc[t].open \in Open
           /\ pc[t].op \in {"resolve", "store"} => pc[t].open \in Open /\ pc[t].use \in Use
           /\ pc[t].op = "store" => pc[t].v \in Outcome
<1>1. pc[t] \in Frame
  BY DEF FdsTypeOK
<1> QED
  BY <1>1, FrameFacts

(* The values that are not open outcomes are outcomes all the same. *)
LEMMA OutcomeFacts ==
    /\ None \in Outcome /\ Zero \in Outcome /\ EINVAL \in Outcome
    /\ None # EINVAL
    /\ \A o \in Open, res \in {"fd", "error"} :
          [open |-> o, res |-> res] \in Outcome /\ [open |-> o, res |-> res] # None
BY SMT DEF None, Zero, EINVAL, Outcome

(* The invariant holds at the start. *)
LEMMA InitFds == Init => FdsInv
<1> SUFFICES ASSUME Init PROVE FdsInv
  OBVIOUS
<1> USE DEF Init
<1>1. FdsTypeOK
  <2>1. [used |-> FALSE, resolved |-> FALSE, id |-> NoOpen, result |-> Zero] \in Entry
    BY OutcomeFacts DEF Entry
  <2>2. Idle \in Frame
    BY DEF Frame
  <2> QED
    BY <2>1, <2>2, OutcomeFacts DEF FdsTypeOK
<1>2. \A o \in Open : ~Given(o)
  BY DEF Given
<1>3. \A t \in Thread : pc[t].op = "idle"
  BY DEF Idle
<1>4. \A o \in Open : Resolving(o) = {}
  BY <1>3 DEF Resolving
<1> QED
  BY <1>1, <1>2, <1>3, <1>4
  DEF FdsInv, EntriesOwned, EntriesRight, NewFrames, ResolveFrames, LiveAccounted, GotRight

-----------------------------------------------------------------------------
(* One step. *)

LEMMA QueueFds ==
    ASSUME FdsInv, NEW t \in Thread, NEW o \in Open, Queue(t, o)
    PROVE  FdsInv'
<1> USE DEF FdsInv
<1>1. /\ pc' = [pc EXCEPT ![t] = [op |-> "new", open |-> o]]
      /\ live' = live \cup {o}
      /\ UNCHANGED <<fds, handle, answer, got, overlapped>>
      /\ pc[t] = Idle /\ handle[o] = 0 /\ o \notin live
  BY DEF Queue, Goes
<1>2. FdsTypeOK'
  BY <1>1 DEF FdsTypeOK, Frame
<1>3. \A x \in Thread : x # t => pc'[x] = pc[x]
  BY <1>1 DEF FdsTypeOK
<1>4. pc'[t].op = "new" /\ pc'[t].open = o
  BY <1>1 DEF FdsTypeOK
<1>5. \A q \in Open : Resolving(q)' = Resolving(q)
  BY <1>1, <1>3, <1>4 DEF Resolving, Idle
<1>6. /\ \A q \in Open : Given(q)' = Given(q) /\ Of(q)' = Of(q)
      /\ \A q \in Open, v \in Outcome : MayBeOf(q, v)' = MayBeOf(q, v)
  BY <1>1 DEF Given, Of, MayBeOf
<1>7. ~Given(o)
  BY <1>1 DEF Given
<1>8. EntriesOwned' /\ EntriesRight' /\ GotRight'
  BY <1>1, <1>6, <1>7 DEF EntriesOwned, EntriesRight, GotRight, Given, Of, MayBeOf
<1>9. NewFrames'
  BY <1>1, <1>3, <1>4 DEF NewFrames
<1>10. ResolveFrames'
  <2>1. \A q \in Open : \A x \in Resolving(q) : x \in Thread /\ x # t /\ pc'[x] = pc[x]
    BY <1>3, <1>4, <1>5, <1>1 DEF Resolving, Idle
  <2>2. \A q \in Open : q # o => (q \in live' <=> q \in live)
    BY <1>1
  <2>3. Resolving(o) = {}
    BY <1>7 DEF ResolveFrames
  <2> QED
    BY <1>1, <1>5, <1>6, <1>7, <2>1, <2>2, <2>3 DEF ResolveFrames, MayBeOf
<1>11. LiveAccounted'
  BY <1>1, <1>3, <1>4, <1>6 DEF LiveAccounted, FdsTypeOK, Idle
<1> QED
  BY <1>2, <1>8, <1>9, <1>10, <1>11

LEMMA KernelFds ==
    ASSUME FdsInv, NEW o \in Open, KernelOpens(o)
    PROVE  FdsInv'
<1> USE DEF FdsInv
<1>1. PICK res \in {"fd", "error"} : answer' = [answer EXCEPT ![o] = [open |-> o, res |-> res]]
  BY DEF KernelOpens
<1>2. UNCHANGED <<fds, handle, live, pc, got, overlapped>> /\ answer[o] = None
  BY DEF KernelOpens
<1>3. FdsTypeOK'
  BY <1>1, <1>2, OutcomeFacts DEF FdsTypeOK
<1>4. \A v : \A q \in Open : MayBeOf(q, v) => MayBeOf(q, v)'
  BY <1>1, <1>2 DEF MayBeOf, FdsTypeOK
<1>5. \A q \in Open : Given(q)' = Given(q) /\ Of(q)' = Of(q) /\ Resolving(q)' = Resolving(q)
  BY <1>2 DEF Given, Of, Resolving
<1>6. EntriesOwned' /\ NewFrames' /\ LiveAccounted'
  BY <1>2, <1>5 DEF EntriesOwned, NewFrames, LiveAccounted, FdsTypeOK
<1>7. EntriesRight' /\ GotRight'
  BY <1>2, <1>4, <1>5 DEF EntriesRight, GotRight
<1>8. ResolveFrames'
  BY <1>2, <1>4, <1>5 DEF ResolveFrames
<1> QED
  BY <1>3, <1>6, <1>7, <1>8

LEMMA NewFds ==
    ASSUME FdsInv, NEW t \in Thread, PendingFdNew(t)
    PROVE  FdsInv'
<1> USE DEF FdsInv
<1>1. /\ pc' = [pc EXCEPT ![t] = Idle]
      /\ UNCHANGED <<answer, live, got, overlapped>>
      /\ pc[t].op = "new"
  BY DEF PendingFdNew, Goes
<1>2. PICK o \in Open : o = pc[t].open
  BY <1>1, PcFacts
<1>3. o \in live /\ handle[o] = 0 /\ ~Given(o)
  BY <1>1, <1>2 DEF NewFrames, Given
<1>4. \A x \in Thread : x # t => pc'[x] = pc[x]
  BY <1>1 DEF FdsTypeOK
<1>5. pc'[t].op = "idle"
  BY <1>1 DEF FdsTypeOK, Idle
<1>6. \A q \in Open : Resolving(q)' = Resolving(q)
  BY <1>1, <1>4, <1>5 DEF Resolving
<1>7. \A v : \A q \in Open : MayBeOf(q, v)' = MayBeOf(q, v)
  BY <1>1 DEF MayBeOf
<1>8. pc' \in [Thread -> Frame]
  BY <1>1 DEF FdsTypeOK, Frame
<1>9. GotRight'
  BY <1>1, <1>7 DEF GotRight
<1>10. \A q \in Open : \A x \in Resolving(q) : x \in Thread /\ pc'[x] = pc[x]
  BY <1>1, <1>4 DEF Resolving
<1>11. Resolving(o) = {}
  BY <1>3 DEF ResolveFrames
<1>12. \A x \in Thread : pc'[x].op = "new" => x # t /\ pc[x] = pc'[x] /\ pc'[x].open # o
  BY <1>1, <1>4, <1>5, <1>2 DEF NewFrames
<1>13. CASE /\ handle' = [handle EXCEPT ![o] = -1]
            /\ UNCHANGED fds
  <2>1. FdsTypeOK'
    BY <1>1, <1>8, <1>13 DEF FdsTypeOK
  <2>2. \A q \in Open : q # o => handle'[q] = handle[q]
    BY <1>13 DEF FdsTypeOK
  <2>3. handle'[o] = -1
    BY <1>13, <1>3 DEF FdsTypeOK
  <2>4. \A q \in Open : Given(q)' = Given(q)
    BY <1>3, <2>2, <2>3 DEF Given
  <2>5. \A q \in Open : Given(q) => Of(q)' = Of(q)
    BY <1>3, <1>13, <2>2 DEF Of
  <2>6. EntriesOwned'
    <3>1. \A q \in Open : Given(q)' => Of(q)'.used /\ Of(q)'.id = q
      BY <2>4, <2>5 DEF EntriesOwned
    <3>2. ASSUME NEW i \in Index, fds'[i].used
          PROVE  \E q \in Open : handle'[q] = FdOf(i)
      <4>1. PICK q \in Open : handle[q] = FdOf(i)
        BY <3>2, <1>13 DEF EntriesOwned
      <4>2. q # o
        BY <4>1, <1>3, MaxPendingFdsNat, SMT DEF FdOf, Index
      <4> QED
        BY <4>1, <4>2, <2>2
    <3> QED
      BY <3>1, <3>2 DEF EntriesOwned
  <2>7. EntriesRight'
    BY <1>1, <1>7, <2>4, <2>5 DEF EntriesRight
  <2>8. NewFrames'
    BY <1>1, <1>12, <2>2, PcFacts DEF NewFrames
  <2>9. ResolveFrames'
    BY <1>1, <1>3, <1>6, <1>7, <1>10, <2>4, <2>5 DEF ResolveFrames
  <2>10. LiveAccounted'
    BY <1>1, <1>4, <1>2, <2>2, <2>3, <2>4, <2>5 DEF LiveAccounted, FdsTypeOK
  <2> QED
    BY <1>9, <2>1, <2>6, <2>7, <2>8, <2>9, <2>10
<1>14. CASE \E i \in Index : /\ ~fds[i].used
                              /\ fds' = [fds EXCEPT ![i] = Fresh(@, o)]
                              /\ handle' = [handle EXCEPT ![o] = FdOf(i)]
  <2>1. PICK i \in Index : /\ ~fds[i].used
                           /\ fds' = [fds EXCEPT ![i] = Fresh(@, o)]
                           /\ handle' = [handle EXCEPT ![o] = FdOf(i)]
    BY <1>14
  <2>2. FdsTypeOK'
    <3>1. Fresh(fds[i], o) \in Entry
      BY <1>3 DEF Fresh, Entry, FdsTypeOK
    <3> QED
      BY <1>1, <1>3, <1>8, <2>1, <3>1 DEF FdsTypeOK
  <2>3. \A q \in Open : q # o => handle'[q] = handle[q]
    BY <2>1 DEF FdsTypeOK
  <2>4. handle'[o] = FdOf(i) /\ FdOf(i) < -1 /\ IndexOf(FdOf(i)) = i
    BY <2>1, <1>3, MaxPendingFdsNat, SMT DEF FdsTypeOK, FdOf, IndexOf, Index
  <2>5. \A q \in Open : Given(q)' <=> Given(q) \/ q = o
    BY <2>3, <2>4 DEF Given
  <2>6. /\ fds'[i] = Fresh(fds[i], o)
        /\ \A j \in Index : j # i => fds'[j] = fds[j]
    BY <2>1 DEF FdsTypeOK
  <2>7. /\ Of(o)' = Fresh(fds[i], o)
        /\ Of(o)'.used = TRUE /\ Of(o)'.resolved = FALSE /\ Of(o)'.id = o
    BY <2>4, <2>6 DEF Of, Fresh, FdsTypeOK, Entry
  <2>8. \A q \in Open : Given(q) => q # o /\ Of(q)' = Of(q)
    <3> SUFFICES ASSUME NEW q \in Open, Given(q) PROVE q # o /\ Of(q)' = Of(q)
      OBVIOUS
    <3>1. q # o
      BY <1>3
    <3>2. IndexOf(handle[q]) \in Index /\ Of(q).used
      BY HandleFacts DEF EntriesOwned
    <3>3. IndexOf(handle[q]) # i
      BY <2>1, <3>2 DEF Of
    <3> QED
      BY <2>3, <2>6, <3>1, <3>2, <3>3 DEF Of
  <2>9. EntriesOwned'
    <3>1. \A q \in Open : Given(q)' => Of(q)'.used /\ Of(q)'.id = q
      BY <2>5, <2>7, <2>8 DEF EntriesOwned
    <3>2. ASSUME NEW j \in Index, fds'[j].used
          PROVE  \E q \in Open : handle'[q] = FdOf(j)
      <4>1. CASE j = i
        BY <4>1, <2>4, <1>3
      <4>2. CASE j # i
        <5>1. PICK q \in Open : handle[q] = FdOf(j)
          BY <3>2, <2>6, <4>2 DEF EntriesOwned
        <5>2. q # o
          BY <5>1, <1>3, MaxPendingFdsNat, SMT DEF FdOf, Index
        <5> QED
          BY <5>1, <5>2, <2>3
      <4> QED
        BY <4>1, <4>2
    <3> QED
      BY <3>1, <3>2 DEF EntriesOwned
  <2>10. EntriesRight'
    BY <1>1, <1>7, <2>5, <2>7, <2>8 DEF EntriesRight
  <2>11. NewFrames'
    BY <1>1, <1>12, <2>3, PcFacts DEF NewFrames
  <2>12. ResolveFrames'
    BY <1>1, <1>3, <1>6, <1>7, <1>10, <1>11, <2>5, <2>7, <2>8 DEF ResolveFrames
  <2>13. LiveAccounted'
    BY <1>1, <1>3, <1>4, <1>2, <2>3, <2>5, <2>7, <2>8 DEF LiveAccounted, FdsTypeOK
  <2> QED
    BY <1>9, <2>2, <2>9, <2>10, <2>11, <2>12, <2>13
<1> QED
  BY <1>13, <1>14, <1>2 DEF PendingFdNew

LEMMA ResultFds ==
    ASSUME FdsInv, NEW t \in Thread, Result(t)
    PROVE  FdsInv'
<1> USE DEF FdsInv
<1> DEFINE o == pc[t].open
           v == IF o \in live THEN answer[o] ELSE EINVAL
<1>1. pc[t].op = "resolve"
  BY DEF Result
<1>2. o \in Open /\ pc[t].use \in Use /\ t \in Resolving(o) /\ Given(o)
  BY <1>1, PcFacts DEF Resolving, ResolveFrames
<1>3. fds[IndexOf(handle[o])].id = o
  BY <1>2 DEF EntriesOwned, Of
<1>4. /\ live' = live \ {o}
      /\ pc' = [pc EXCEPT ![t] = [op |-> "store", open |-> o, use |-> pc[t].use, v |-> v]]
      /\ o \in live => answer[o] # None
      /\ UNCHANGED <<fds, handle, answer, got, overlapped>>
  BY <1>3 DEF Result, Goes
<1>5. v \in Outcome
  BY <1>2, OutcomeFacts DEF FdsTypeOK
<1>6. MayBeOf(o, v)
  BY <1>1, <1>2, <1>4 DEF MayBeOf, ResolveFrames
<1> HIDE DEF v
<1>7. FdsTypeOK'
  BY <1>2, <1>4, <1>5 DEF FdsTypeOK, Frame
<1>8. /\ \A x \in Thread : x # t => pc'[x] = pc[x]
      /\ pc'[t].op = "store" /\ pc'[t].open = o /\ pc'[t].use = pc[t].use /\ pc'[t].v = v
  BY <1>4 DEF FdsTypeOK
<1>9. \A q \in Open : Resolving(q)' = Resolving(q)
  BY <1>1, <1>8 DEF Resolving
<1>10. /\ \A q \in Open : Given(q)' = Given(q) /\ Of(q)' = Of(q)
       /\ \A w : \A q \in Open : MayBeOf(q, w)' = MayBeOf(q, w)
  BY <1>4 DEF Given, Of, MayBeOf
<1>11. EntriesOwned' /\ EntriesRight' /\ GotRight'
  BY <1>4, <1>10 DEF EntriesOwned, EntriesRight, GotRight
<1>12. NewFrames'
  <2>1. \A x \in Thread : pc'[x].op = "new" => pc[x] = pc'[x] /\ pc[x].op = "new"
    BY <1>8
  <2>2. \A x \in Thread : pc[x].op = "new" => pc[x].open # o
    BY <1>2 DEF NewFrames, Given
  <2> QED
    BY <1>4, <2>1, <2>2 DEF NewFrames
<1>13. ResolveFrames'
  <2> SUFFICES ASSUME NEW q \in Open
               PROVE  /\ \A y \in Resolving(q) :
                           /\ Given(q)
                           /\ pc'[y].op = "store" => q \notin live' /\ MayBeOf(q, pc'[y].v)
                           /\ pc'[y].op = "resolve" /\ q \notin overlapped => q \in live'
                           /\ \A x \in Resolving(q) :
                                 q \notin overlapped \/ pc'[x].use = "close" => y = x
                      /\ Given(q) /\ Resolving(q) = {} /\ ~Of(q).resolved => q \in live'
    BY <1>4, <1>9, <1>10 DEF ResolveFrames
  <2>1. \A x \in Resolving(q) : x \in Thread /\ pc'[x].use = pc[x].use
    BY <1>8 DEF Resolving
  <2>2. CASE q # o
    <3>1. \A x \in Resolving(q) : pc'[x] = pc[x]
      BY <2>2, <1>8 DEF Resolving
    <3> QED
      BY <2>1, <2>2, <3>1, <1>4 DEF ResolveFrames
  <2>3. CASE q = o
    <3>1. \A x \in Resolving(q) : x # t => pc'[x] = pc[x]
      BY <1>8 DEF Resolving
    <3> QED
      BY <2>1, <2>3, <3>1, <1>2, <1>4, <1>6, <1>8 DEF ResolveFrames
  <2> QED
    BY <2>2, <2>3
<1>14. LiveAccounted'
  BY <1>1, <1>4, <1>8, <1>10 DEF LiveAccounted, FdsTypeOK
<1> QED
  BY <1>7, <1>11, <1>12, <1>13, <1>14

(* The end of a use, whether it found the entry resolved or has just       *)
(* resolved it.                                                            *)
LEMMA UsesFds ==
    ASSUME FdsInv, NEW t \in Thread, NEW u \in Use, NEW o \in Open, NEW v \in Outcome,
           NEW entry \in Entry, Uses(t, u, o, v, entry),
           UNCHANGED <<answer, live, overlapped>>,
           Given(o), o \notin live, MayBeOf(o, v),
           entry.used, entry.resolved, entry.id = o, MayBeOf(o, entry.result),
           pc[t].op # "new",
           \A q \in Open : t \in Resolving(q) => q = o,
           u = "close" => Resolving(o) \subseteq {t}
    PROVE  FdsInv'
<1> USE DEF FdsInv
<1> DEFINE i == IndexOf(handle[o])
<1>1. i \in Index /\ handle[o] = FdOf(i)
  BY HandleFacts
<1>2. got' = [got EXCEPT ![o] = v] /\ pc' = [pc EXCEPT ![t] = Idle]
  BY DEF Uses, Goes
<1>3. /\ \A x \in Thread : x # t => pc'[x] = pc[x]
      /\ pc'[t] = Idle /\ pc'[t].op = "idle"
  BY <1>2 DEF FdsTypeOK, Idle
<1>4. \A q \in Open : Resolving(q)' = Resolving(q) \ {t}
  BY <1>3 DEF Resolving
<1>5. \A w : \A q \in Open : MayBeOf(q, w)' = MayBeOf(q, w)
  BY DEF MayBeOf
<1>6. GotRight'
  BY <1>2, <1>5 DEF GotRight, FdsTypeOK
<1>7. pc' \in [Thread -> Frame] /\ got' \in [Open -> Outcome]
  BY <1>2 DEF FdsTypeOK, Frame
<1>8. \A q \in Open : q # o /\ Given(q) => IndexOf(handle[q]) \in Index \ {i}
  BY HandleFacts, EntryOfOne
<1>9. \A x \in Thread : pc'[x].op = "new" => x # t /\ pc'[x] = pc[x] /\ pc[x].open # o
  BY <1>3 DEF NewFrames
<1>10. \A q \in Open : \A x \in Resolving(q)' : x \in Resolving(q) /\ x # t /\ pc'[x] = pc[x]
  BY <1>3, <1>4 DEF Resolving
<1>11. CASE /\ u = "close"
            /\ fds' = [fds EXCEPT ![i] = [entry EXCEPT !.used = FALSE]]
            /\ handle' = [handle EXCEPT ![o] = 0]
  <2>1. FdsTypeOK'
    <3>1. [entry EXCEPT !.used = FALSE] \in Entry
      BY DEF Entry
    <3> QED
      BY <1>1, <1>7, <1>11, <3>1 DEF FdsTypeOK
  <2>2. /\ handle'[o] = 0
        /\ \A q \in Open : q # o => handle'[q] = handle[q]
        /\ ~fds'[i].used
        /\ \A j \in Index : j # i => fds'[j] = fds[j]
    BY <1>1, <1>11 DEF FdsTypeOK, Entry
  <2>3. \A q \in Open : Given(q)' <=> Given(q) /\ q # o
    BY <2>2 DEF Given
  <2>4. \A q \in Open : Given(q)' => Of(q)' = Of(q)
    BY <1>8, <2>2, <2>3 DEF Of
  <2>5. EntriesOwned'
    <3>1. \A q \in Open : Given(q)' => Of(q)'.used /\ Of(q)'.id = q
      BY <2>3, <2>4 DEF EntriesOwned
    <3>2. ASSUME NEW j \in Index, fds'[j].used
          PROVE  \E q \in Open : handle'[q] = FdOf(j)
      <4>1. j # i /\ fds[j].used
        BY <2>2, <3>2
      <4>2. PICK q \in Open : handle[q] = FdOf(j)
        BY <4>1 DEF EntriesOwned
      <4>3. q # o
        BY <4>1, <4>2, <1>1, MaxPendingFdsNat, SMT DEF FdOf, Index
      <4> QED
        BY <4>2, <4>3, <2>2
    <3> QED
      BY <3>1, <3>2 DEF EntriesOwned
  <2>6. EntriesRight'
    BY <1>5, <2>3, <2>4 DEF EntriesRight
  <2>7. NewFrames'
    BY <1>9, <2>2, PcFacts DEF NewFrames
  <2>8. ResolveFrames'
    <3>1. Resolving(o)' = {}
      BY <1>4, <1>11
    <3>2. \A q \in Open : q # o => Resolving(q)' = Resolving(q)
      BY <1>4
    <3> QED
      BY <1>5, <1>10, <2>3, <2>4, <3>1, <3>2 DEF ResolveFrames
  <2>9. LiveAccounted'
    BY <1>3, <2>2, <2>3, <2>4 DEF LiveAccounted, FdsTypeOK
  <2> QED
    BY <1>6, <2>1, <2>5, <2>6, <2>7, <2>8, <2>9
<1>12. CASE /\ fds' = [fds EXCEPT ![i] = entry]
            /\ UNCHANGED handle
  <2>1. FdsTypeOK'
    BY <1>1, <1>7, <1>12 DEF FdsTypeOK
  <2>2. /\ fds'[i] = entry
        /\ \A j \in Index : j # i => fds'[j] = fds[j]
    BY <1>1, <1>12 DEF FdsTypeOK
  <2>3. \A q \in Open : Given(q)' = Given(q)
    BY <1>12 DEF Given
  <2>4. /\ \A q \in Open : Given(q) /\ q # o => Of(q)' = Of(q)
        /\ Of(o)' = entry
    BY <1>8, <1>12, <2>2 DEF Of
  <2>5. EntriesOwned'
    <3>1. \A q \in Open : Given(q)' => Of(q)'.used /\ Of(q)'.id = q
      BY <2>3, <2>4 DEF EntriesOwned
    <3>2. \A j \in Index : fds'[j].used => \E q \in Open : handle'[q] = FdOf(j)
      BY <1>1, <1>12, <2>2 DEF EntriesOwned
    <3> QED
      BY <3>1, <3>2 DEF EntriesOwned
  <2>6. EntriesRight'
    BY <1>5, <2>3, <2>4 DEF EntriesRight
  <2>7. NewFrames'
    BY <1>9, <1>12 DEF NewFrames
  <2>8. ResolveFrames'
    <3> SUFFICES ASSUME NEW q \in Open
                 PROVE  /\ \A y \in Resolving(q)' :
                             /\ Given(q)
                             /\ pc[y].op = "store" => q \notin live /\ MayBeOf(q, pc[y].v)
                             /\ pc[y].op = "resolve" /\ q \notin overlapped => q \in live
                             /\ \A x \in Resolving(q)' :
                                   q \notin overlapped \/ pc[x].use = "close" => y = x
                        /\ Given(q) /\ Resolving(q)' = {} /\ ~Of(q)'.resolved => q \in live
      BY <1>5, <1>10, <2>3 DEF ResolveFrames
    <3>1. \A y \in Resolving(q)' : y \in Resolving(q)
      BY <1>10
    <3>2. Given(q) /\ Resolving(q)' = {} /\ ~Of(q)'.resolved => q \in live
      BY <1>4, <2>4 DEF ResolveFrames
    <3> QED
      BY <3>1, <3>2 DEF ResolveFrames
  <2>9. LiveAccounted'
    BY <1>3, <1>12, <2>3, <2>4 DEF LiveAccounted, FdsTypeOK
  <2> QED
    BY <1>6, <2>1, <2>5, <2>6, <2>7, <2>8, <2>9
<1> QED
  BY <1>11, <1>12 DEF Uses

LEMMA StoreFds ==
    ASSUME FdsInv, NEW t \in Thread, Store(t)
    PROVE  FdsInv'
<1> USE DEF FdsInv
<1>1. pc[t].op = "store"
  BY DEF Store
<1>2. PICK o \in Open : o = pc[t].open
  BY <1>1, PcFacts
<1>3. t \in Resolving(o) /\ pc[t].use \in Use /\ pc[t].v \in Outcome
  BY <1>1, <1>2, PcFacts DEF Resolving
<1>4. Given(o) /\ o \notin live /\ MayBeOf(o, pc[t].v)
  BY <1>1, <1>3 DEF ResolveFrames
<1> DEFINE p == fds[IndexOf(handle[o])]
           entry == [p EXCEPT !.result = pc[t].v, !.resolved = TRUE]
<1>5. p \in Entry /\ p.used /\ p.id = o
  BY <1>4, HandleFacts DEF EntriesOwned, Of
<1>6. /\ entry \in Entry /\ entry.used /\ entry.resolved /\ entry.id = o
      /\ entry.result = pc[t].v
  <2> HIDE DEF p
  <2> QED
    BY <1>3, <1>5 DEF Entry
<1>7. Uses(t, pc[t].use, o, pc[t].v, entry) /\ UNCHANGED <<answer, live, overlapped>>
  BY <1>2 DEF Store
<1>8. pc[t].use = "close" => Resolving(o) \subseteq {t}
  BY <1>3 DEF ResolveFrames
<1>9. \A q \in Open : t \in Resolving(q) => q = o
  BY <1>2 DEF Resolving
<1> HIDE DEF entry
<1>10. MayBeOf(o, entry.result)
  BY <1>4, <1>6
<1> QED
  BY <1>1, <1>3, <1>4, <1>6, <1>7, <1>8, <1>9, <1>10, UsesFds

LEMMA ResolveFds ==
    ASSUME FdsInv, NEW t \in Thread, NEW o \in Open, NEW u \in Use, Resolve(t, o, u)
    PROVE  FdsInv'
<1> USE DEF FdsInv
<1> DEFINE p == fds[IndexOf(handle[o])]
<1>1. /\ pc[t] = Idle /\ pc[t].op = "idle"
      /\ IsHandle(handle[o])
      /\ u = "close" => Resolving(o) = {}
      /\ \A x \in Resolving(o) : pc[x].use # "close"
      /\ UNCHANGED <<answer, live>>
  BY DEF Resolve, Idle
<1>2. Given(o) /\ p \in Entry /\ p.used /\ p.id = o
  BY <1>1, HandleFacts, IsHandleGiven DEF EntriesOwned, Of
<1>3. \A q \in Open : t \notin Resolving(q)
  BY <1>1 DEF Resolving
<1>4. CASE p.resolved /\ Uses(t, u, o, p.result, p) /\ UNCHANGED overlapped
  <2>1. o \notin live /\ MayBeOf(o, p.result) /\ p.result \in Outcome
    BY <1>2, <1>4 DEF EntriesRight, Of, Entry
  <2> QED
    BY <1>1, <1>2, <1>3, <1>4, <2>1, UsesFds
<1>5. CASE /\ ~p.resolved
           /\ pc' = [pc EXCEPT ![t] = [op |-> "resolve", open |-> o, use |-> u]]
           /\ overlapped' = IF Resolving(o) = {} THEN overlapped ELSE overlapped \cup {o}
           /\ UNCHANGED <<fds, handle, got>>
  <2>1. FdsTypeOK'
    BY <1>1, <1>5 DEF FdsTypeOK, Frame
  <2>2. /\ \A x \in Thread : x # t => pc'[x] = pc[x]
        /\ pc'[t].op = "resolve" /\ pc'[t].open = o /\ pc'[t].use = u
    BY <1>5 DEF FdsTypeOK
  <2>3. /\ \A q \in Open : q # o => Resolving(q)' = Resolving(q)
        /\ Resolving(o)' = Resolving(o) \cup {t}
    BY <1>3, <2>2 DEF Resolving
  <2>4. /\ \A q \in Open : Given(q)' = Given(q) /\ Of(q)' = Of(q)
        /\ \A w : \A q \in Open : MayBeOf(q, w) => MayBeOf(q, w)'
        /\ overlapped \subseteq overlapped' /\ overlapped' \subseteq overlapped \cup {o}
    BY <1>1, <1>5 DEF Given, Of, MayBeOf
  <2>5. EntriesOwned' /\ EntriesRight' /\ GotRight'
    BY <1>1, <1>5, <2>4 DEF EntriesOwned, EntriesRight, GotRight
  <2>6. NewFrames'
    BY <1>1, <1>5, <2>2 DEF NewFrames
  <2>7. ResolveFrames'
    <3> SUFFICES ASSUME NEW q \in Open
                 PROVE  /\ \A y \in Resolving(q)' :
                             /\ Given(q)
                             /\ pc'[y].op = "store" => q \notin live /\ MayBeOf(q, pc'[y].v)
                             /\ pc'[y].op = "resolve" /\ q \notin overlapped' => q \in live
                             /\ \A x \in Resolving(q)' :
                                   q \notin overlapped' \/ pc'[x].use = "close" => y = x
                        /\ Given(q) /\ Resolving(q)' = {} /\ ~Of(q).resolved => q \in live
      BY <1>1, <2>4 DEF ResolveFrames
    <3>1. \A x \in Resolving(q) : x \in Thread /\ pc'[x] = pc[x]
      BY <1>3, <2>2 DEF Resolving
    <3>2. CASE q # o
      BY <2>3, <2>4, <3>1, <3>2 DEF ResolveFrames
    <3>3. CASE q = o /\ Resolving(o) = {}
      <4>1. Resolving(q)' = {t} /\ o \in live
        BY <1>2, <1>5, <2>3, <3>3 DEF ResolveFrames, Of
      <4> QED
        BY <1>2, <2>2, <3>3, <4>1
    <3>4. CASE q = o /\ Resolving(o) # {}
      <4>1. o \in overlapped' /\ u # "close"
        BY <1>1, <1>5, <3>4
      <4>2. \A x \in Resolving(q)' : x = t \/ (x \in Resolving(q) /\ pc'[x] = pc[x])
        BY <2>3, <3>1, <3>4
      <4>3. \A x \in Resolving(q)' : pc'[x].use # "close"
        BY <1>1, <2>2, <3>4, <4>1, <4>2
      <4> QED
        BY <1>2, <2>2, <2>3, <3>4, <4>1, <4>2, <4>3 DEF ResolveFrames
    <3> QED
      BY <3>2, <3>3, <3>4
  <2>8. LiveAccounted'
    BY <1>1, <1>5, <2>2, <2>4 DEF LiveAccounted, FdsTypeOK
  <2> QED
    BY <2>1, <2>5, <2>6, <2>7, <2>8
<1> QED
  BY <1>4, <1>5 DEF Resolve, Goes

LEMMA StepFds == FdsInv /\ [Next]_vars => FdsInv'
<1> SUFFICES ASSUME FdsInv, [Next]_vars PROVE FdsInv'
  OBVIOUS
<1>1. CASE UNCHANGED vars
  <2>1. \A q : Given(q)' = Given(q) /\ Of(q)' = Of(q) /\ Resolving(q)' = Resolving(q)
    BY <1>1 DEF vars, Given, Of, Resolving
  <2>2. \A q, w : MayBeOf(q, w)' = MayBeOf(q, w)
    BY <1>1 DEF vars, MayBeOf
  <2> QED
    BY <1>1, <2>1, <2>2 DEF vars, FdsInv, FdsTypeOK, EntriesOwned, EntriesRight, NewFrames,
       ResolveFrames, LiveAccounted, GotRight
<1>2. CASE \E t \in Thread : PendingFdNew(t) \/ Result(t) \/ Store(t)
  BY <1>2, NewFds, ResultFds, StoreFds
<1>3. CASE \E t \in Thread, o \in Open : Queue(t, o) \/ \E u \in Use : Resolve(t, o, u)
  BY <1>3, QueueFds, ResolveFds
<1>4. CASE \E o \in Open : KernelOpens(o)
  BY <1>4, KernelFds
<1> QED
  BY <1>1, <1>2, <1>3, <1>4 DEF Next

-----------------------------------------------------------------------------
(* Whatever the number of threads, opens and entries: a use of a handle    *)
(* finds the descriptor, or the error, of the open fasync_open_pending     *)
(* gave it out for, and EINVAL only where two threads resolved it at once. *)
THEOREM UsesFindTheirOpen == Spec => []HandleMeansItsOpen
<1>1. FdsInv => HandleMeansItsOpen
  BY DEF FdsInv, GotRight, MayBeOf, HandleMeansItsOpen
<1> QED
  BY InitFds, StepFds, <1>1, PTL DEF Spec

(* Whatever the number of threads, opens and entries: g_pending_fds has    *)
(* one entry for each handle the program has, and a request not collected  *)
(* is one of an unresolved entry, unless it has none yet or got none.      *)
THEOREM NoRequestLost == Spec => []RequestsReachable
<1>1. FdsInv => RequestsReachable
  <2> SUFFICES ASSUME FdsInv PROVE RequestsReachable
    OBVIOUS
  <2> USE DEF FdsInv
  <2>1. \A o \in Open : Given(o) => /\ IndexOf(handle[o]) \in Index
                                   /\ handle[o] = FdOf(IndexOf(handle[o]))
                                   /\ IsHandle(handle[o])
                                   /\ Of(o).used /\ Of(o).id = o
    BY HandleFacts DEF EntriesOwned
  <2>2. {i \in Index : fds[i].used} = {IndexOf(handle[o]) : o \in {q \in Open : handle[q] < -1}}
    <3>1. ASSUME NEW i \in Index, fds[i].used
          PROVE  \E o \in Open : handle[o] < -1 /\ i = IndexOf(handle[o])
      <4>1. PICK o \in Open : handle[o] = FdOf(i)
        BY <3>1 DEF EntriesOwned
      <4>2. FdOf(i) < -1 /\ i = IndexOf(FdOf(i))
        BY MaxPendingFdsNat, SMT DEF FdOf, IndexOf, Index
      <4> QED
        BY <4>1, <4>2
    <3>2. \A o \in Open : handle[o] < -1 => IndexOf(handle[o]) \in Index /\ fds[IndexOf(handle[o])].used
      BY <2>1 DEF Given, Of
    <3> QED
      BY <3>1, <3>2
  <2>3. \A o, q \in Open : handle[o] < -1 /\ handle[o] = handle[q] => o = q
    BY EntryOfOne DEF Given
  <2>4. \A o \in live : \/ \E t \in Thread : pc[t].op = "new" /\ pc[t].open = o
                        \/ handle[o] = -1
                        \/ IsHandle(handle[o]) /\ Of(o).id = o /\ ~Of(o).resolved
    BY <2>1 DEF LiveAccounted, FdsTypeOK
  <2> QED
    BY <2>2, <2>3, <2>4 DEF RequestsReachable, Of
<1> QED
  BY InitFds, StepFds, <1>1, PTL DEF Spec

=============================================================================
