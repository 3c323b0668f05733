-------------------------------- MODULE Ring --------------------------------
(***************************************************************************)
(* The request layer under the io_uring runtime (fasync.c, the completion  *)
(* drain of fasync_native.c, the waits of fasync_syscalls.c) and the       *)
(* kernel on the other side of the rings.                                  *)
(*                                                                         *)
(* Everything here runs under fasync_lock, often several operations in one *)
(* stretch, so they are operators from ring to ring for the actions of     *)
(* UringRuntime to compose. A handle packs a slot and a generation; no     *)
(* generation is given out twice (the code's wrap at 2^32 is left out).    *)
(* io_uring_enter is taken to accept every entry it is offered.            *)
(***************************************************************************)
EXTENDS Integers, Sequences, FiniteSets

CONSTANTS
    User,        \* who asks: each issues at most one request
    MaxInflight, \* FASYNC_MAX_INFLIGHT
    NoUser       \* a NULL task pointer

ASSUME UsersFinite == IsFiniteSet(User)
ASSUME MaxInflightPositive == MaxInflight \in Nat \ {0}
ASSUME NoUserIsNot == NoUser \notin User

VARIABLES
    ring,        \* request table, free list, both queues, the kernel's part
    answer       \* what the kernel did for each user's request

Slot == 0 .. MaxInflight - 1
Handle == [slot : Slot, gen : Nat]

\* The failure value: generation 0 is never given out.
NoHandle == [slot |-> 0, gen |-> 0]

Answer == {"ok", "error"}
Entry == [id : Handle, user : User]      \* an SQE: what is asked, user_data
Completion == [id : Handle, res : Answer]

\* struct fasync_req_shared; its id is its slot with gen.
Request == [gen : Nat, state : {"free", "pending", "done"},
            result : Answer \cup {"none"}, task : User \cup {NoUser}]

Ring == [req : [Slot -> Request],
         free : Seq(Slot),               \* g_req_free_head and _next
         gen : Nat,                      \* req_next_gen
         sq : SUBSET Entry,              \* written, not yet published
         kernel : SUBSET Entry,
         cq : SUBSET Completion,         \* completed, not yet drained
         inflight : Int]                 \* g_inflight

FreeRequest == [gen |-> 0, state |-> "free", result |-> "none", task |-> NoUser]

EmptyRing ==
    [req |-> [s \in Slot |-> FreeRequest],
     free |-> [i \in 1 .. MaxInflight |-> i - 1],
     gen |-> 0, sq |-> {}, kernel |-> {}, cq |-> {}, inflight |-> 0]

RingInit ==
    /\ ring = EmptyRing
    /\ answer = [u \in User |-> "none"]

-----------------------------------------------------------------------------
IdOf(r, s) == [slot |-> s, gen |-> r.req[s].gen]

\* fasync_req_lookup finds a request.
Live(r, id) == r.req[id.slot].state # "free" /\ r.req[id.slot].gen = id.gen

Pending(r, id) == Live(r, id) /\ r.req[id.slot].state = "pending"
ResultOf(r, id) == r.req[id.slot].result

(* fasync_native_drain: every completion is taken out of the queue; one    *)
(* whose request still waits for it becomes the request's result.          *)
Reaped(r) == {s \in Slot : /\ r.req[s].state = "pending"
                           /\ \E e \in r.cq : e.id = IdOf(r, s)}

ResultIn(r, s) == (CHOOSE e \in r.cq : e.id = IdOf(r, s)).res

\* Mutant: the count of requests in flight is not kept.
Drain_uncounted(r) ==
    [r EXCEPT !.req = [s \in Slot |->
                          IF s \in Reaped(r)
                          THEN [@[s] EXCEPT !.state = "done", !.result = ResultIn(r, s)]
                          ELSE @[s]],
              !.cq = {}]

Drain(r) ==
    [r EXCEPT !.req = [s \in Slot |->
                          IF s \in Reaped(r)
                          THEN [@[s] EXCEPT !.state = "done", !.result = ResultIn(r, s)]
                          ELSE @[s]],
              !.cq = {},
              !.inflight = @ - Cardinality(Reaped(r))]

\* fasync_ready: looks at the completion queue only if it has to.
Checked(r, id) == IF Pending(r, id) THEN Drain(r) ELSE r
Ready(r, id) == Live(r, id) /\ ~Pending(r, id)

\* fasync_submit_locked: everything written goes to the kernel.
Sent(r) == [r EXCEPT !.kernel = @ \cup r.sq, !.sq = {}]

\* Mutant: the wait trusts that somebody else sends the queue.
Awaited_unsent(r, id) == r

\* fasync_req_wait, up to its loop.
Awaited(r, id) == IF Pending(r, id) THEN Sent(r) ELSE r

(* fasync_push_sqe with fasync_req_alloc: the first free slot gets the     *)
(* next generation, the entry is written, not published.                   *)
HasFree(r) == r.free # <<>>

NextHandle(r) == [slot |-> Head(r.free), gen |-> r.gen + 1]

Pushed(r, u, task) ==
    [r EXCEPT !.free = Tail(@),
              !.gen = @ + 1,
              !.req[Head(r.free)] = [gen |-> r.gen + 1, state |-> "pending",
                                     result |-> "none", task |-> task],
              !.sq = @ \cup {[id |-> NextHandle(r), user |-> u]},
              !.inflight = @ + 1]

\* fasync_req_release of each of ids in turn: the last is the first to go.
Released(r, ids) ==
    LET slots == {ids[i].slot : i \in DOMAIN ids} IN
    [r EXCEPT !.req = [s \in Slot |-> IF s \in slots
                                      THEN [@[s] EXCEPT !.state = "free", !.task = NoUser]
                                      ELSE @[s]],
              !.free = [i \in 1 .. Len(ids) |-> ids[Len(ids) - i + 1].slot] \o @]

-----------------------------------------------------------------------------
(* The kernel completes a request it holds, and posts the answer. *)
KernelCompletes(u) ==
    \E e \in ring.kernel, res \in Answer :
        /\ e.user = u
        /\ ring' = [ring EXCEPT !.kernel = @ \ {e},
                                !.cq = @ \cup {[id |-> e.id, res |-> res]}]
        /\ answer' = [answer EXCEPT ![u] = res]

=============================================================================
