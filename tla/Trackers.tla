------------------------------ MODULE Trackers ------------------------------
(***************************************************************************)
(* Tagged requests (fasync_token.c): a tracker remembers the requests      *)
(* issued with it, and a tagged call first waits for those it conflicts    *)
(* with.                                                                   *)
(*                                                                         *)
(* Each thread has a tracker of its own. A tagged call takes fasync_lock   *)
(* to queue and to submit, but looks at requests and waits without it, so  *)
(* its drain of the completion queue (fasync_native.c) is modelled step by *)
(* step: another thread may be draining at the same time, or may collect a *)
(* request and issue another in its slot. fasync_result waits with the     *)
(* lock held. A request is one issue of an id: whether a slot is still its *)
(* own is what comparing generations tells. g_inflight, which only decides *)
(* whether fasync_block sleeps, is left out.                               *)
(***************************************************************************)
EXTENDS Integers, Sequences, FiniteSets

CONSTANTS
    Thread,
    Op,      \* requests
    Slot,    \* req_slots
    Kinds,   \* the kinds of access the program names
    QLen,    \* FASYNC_TOKEN_QLEN
    NoOp,
    NoSlot,
    NoThread

ASSUME QLenPositive == QLen \in Nat \ {0}
ASSUME SlotsFinite == IsFiniteSet(Slot)
ASSUME KindsAre == Kinds \subseteq {"IN", "OUT", "INOUT"}
ASSUME NoOpIsNot == NoOp \notin Op
ASSUME NoSlotIsNot == NoSlot \notin Slot
ASSUME NoThreadIsNot == NoThread \notin Thread

VARIABLES
    slot,      \* of each slot: its request, that request's state and result
    free,      \* the free list, its head first
    at,        \* the slot in each request's handle
    got,       \* what fasync_result has returned for each: whose result it is
    queued,    \* written, not yet submitted
    kernel,    \* submitted, not yet completed
    cq,        \* completions, in the order they were posted
    head,      \* local_cq_head
    q,         \* the queue of each thread's tracker
    holder,    \* who has fasync_lock over more than a step
    pc,        \* what each thread is doing
    wait,      \* the slot it waits for in fasync_req_wait
    drain,     \* where it is in fasync_native_drain
    tagged,    \* the tagged requests issued, in order, with thread and kind
    struck     \* the requests that got a completion of their slot's last one

slotVars == <<slot, free, at, got>>
ringVars == <<queued, kernel, cq, head>>
threadVars == <<q, holder, pc, wait, drain>>
pastVars == <<tagged, struck>>
vars == <<slotVars, ringVars, threadVars, pastVars>>

Idle == [op |-> "idle"]
NoWait == [slot |-> NoSlot, sent |-> TRUE]
NoDrain == [at |-> 0, tail |-> 0, hit |-> "no", on |-> FALSE]

Goes(th, x) == pc' = [pc EXCEPT ![th] = x]
LockFree == holder = NoThread

\* fasync_token_conflicts
token_conflicts(a, b) == a # "IN" \/ b # "IN"

\* fasync_req_lookup finds o and its state is FASYNC_REQ_PENDING, as one look.
\* Were the slot to change hands between the two, the call would wait for the
\* slot's next request, as it may in WaitEnds, or keep an entry that is over, as
\* the queue may hold one anyway.
Pending(o) == at[o] # NoSlot /\ slot[at[o]].req = o /\ slot[at[o]].state = "pending"

-----------------------------------------------------------------------------
\* fasync_submit, by the program or for a full ring
Submit ==
    /\ LockFree
    /\ queued # {}
    /\ kernel' = kernel \cup queued
    /\ queued' = {}
    /\ UNCHANGED <<slotVars, cq, head, threadVars, pastVars>>

(* fasync_req_wait: submits everything, then drains until its slot, whose  *)
(* request may have become another one, is not pending.                    *)

Awaits(th, s) == wait' = [wait EXCEPT ![th] = [slot |-> s, sent |-> FALSE]]

WaitSubmits(th) ==
    /\ ~wait[th].sent
    /\ LockFree \/ holder = th
    /\ wait' = [wait EXCEPT ![th].sent = TRUE]
    /\ kernel' = kernel \cup queued
    /\ queued' = {}
    /\ UNCHANGED <<slotVars, cq, head, q, holder, pc, drain, pastVars>>

WaitEnds(th) ==
    /\ wait[th] # NoWait
    /\ ~drain[th].on
    /\ slot[wait[th].slot].state # "pending"
    /\ wait' = [wait EXCEPT ![th] = NoWait]
    /\ UNCHANGED <<slotVars, ringVars, q, holder, pc, drain, pastVars>>

\* The drain reads where the queue begins and ends. One that finds nothing,
\* and can only put the head back, is left out.
DrainBegins(th) ==
    /\ wait[th] # NoWait /\ wait[th].sent
    /\ ~drain[th].on
    /\ slot[wait[th].slot].state = "pending"
    /\ head < Len(cq)
    /\ drain' = [drain EXCEPT ![th] = [at |-> head, tail |-> Len(cq), hit |-> "no", on |-> TRUE]]
    /\ UNCHANGED <<slotVars, ringVars, q, holder, pc, wait, pastVars>>

\* It passes over completions whose requests are not pending, which they never
\* are again, looks at one whose request is ...
DrainLooks(th) ==
    LET d == drain[th] IN
    /\ d.on /\ d.hit = "no"
    /\ \E i \in d.at .. d.tail - 1 :
        /\ Pending(cq[i + 1])
        /\ \A j \in d.at .. i - 1 : ~Pending(cq[j + 1])
        /\ drain' = [drain EXCEPT ![th] = [d EXCEPT !.at = i, !.hit = "yes"]]
    /\ UNCHANGED <<slotVars, ringVars, q, holder, pc, wait, pastVars>>

\* Whoever has the slot of o gets what is written there for o.
Strikes(o) ==
    struck' = struck \cup {r \in {slot[at[o]].req} \ {o} : got[r] = {}}

\* ... and writes the result to its slot, and then the state.
DrainResult(th) ==
    LET d == drain[th]
        o == cq[d.at + 1] IN
    /\ d.hit = "yes"
    /\ slot' = [slot EXCEPT ![at[o]].result = o]
    /\ Strikes(o)
    /\ drain' = [drain EXCEPT ![th].hit = "half"]
    /\ UNCHANGED <<free, at, got, ringVars, q, holder, pc, wait, tagged>>

DrainState(th) ==
    LET d == drain[th]
        o == cq[d.at + 1] IN
    /\ d.hit = "half"
    /\ slot' = [slot EXCEPT ![at[o]].state = "done"]
    /\ Strikes(o)
    /\ drain' = [drain EXCEPT ![th] = [d EXCEPT !.hit = "no", !.at = @ + 1]]
    /\ UNCHANGED <<free, at, got, queued, kernel, cq, head, q, holder, pc, wait, tagged>>

\* Mutant: the head moves to where the queue ends now.
DrainEnds_now(th) ==
    LET d == drain[th] IN
    /\ d.on /\ d.hit = "no"
    /\ \A i \in d.at .. d.tail - 1 : ~Pending(cq[i + 1])
    /\ head' = Len(cq)
    /\ drain' = [drain EXCEPT ![th] = NoDrain]
    /\ UNCHANGED <<slotVars, queued, kernel, cq, q, holder, pc, wait, pastVars>>

DrainEnds(th) ==
    LET d == drain[th] IN
    /\ d.on /\ d.hit = "no"
    /\ \A i \in d.at .. d.tail - 1 : ~Pending(cq[i + 1])
    /\ head' = d.tail
    /\ drain' = [drain EXCEPT ![th] = NoDrain]
    /\ UNCHANGED <<slotVars, queued, kernel, cq, q, holder, pc, wait, pastVars>>

-----------------------------------------------------------------------------
(* fasync_tagged_pread and fasync_tagged_pwrite *)

Tag(th, kind) ==
    /\ pc[th] = Idle
    /\ Goes(th, [op |-> "scan", kind |-> kind, i |-> 1, keep |-> <<>>])
    /\ UNCHANGED <<slotVars, ringVars, q, holder, wait, drain, pastVars>>

\* A tracked request is kept as long as it is pending.
Kept(f, e) == [f EXCEPT !.i = @ + 1, !.keep = IF Pending(e.req) THEN Append(@, e) ELSE @]

\* fasync_token_wait, at one entry of the queue
Scan(th) ==
    LET f == pc[th] IN
    /\ f.op = "scan"
    /\ wait[th] = NoWait
    /\ f.i =< Len(q[th])
    /\ LET e == q[th][f.i] IN
       \/ /\ Pending(e.req) /\ token_conflicts(e.kind, f.kind)
          /\ Awaits(th, at[e.req])
          /\ UNCHANGED pc
       \/ /\ ~(Pending(e.req) /\ token_conflicts(e.kind, f.kind))
          /\ Goes(th, Kept(f, e))
          /\ UNCHANGED wait
    /\ UNCHANGED <<slotVars, ringVars, q, holder, drain, pastVars>>

\* fasync_req_alloc: the slot at the head of the free list.
req_alloc(o) ==
    /\ free # <<>>
    /\ free' = Tail(free)
    /\ at' = [at EXCEPT ![o] = Head(free)]
    /\ slot' = [slot EXCEPT ![Head(free)] = [req |-> o, state |-> "pending", result |-> NoOp]]

\* The request is queued, or turned down, and then it is not tracked.
Issue(th) ==
    LET f == pc[th] IN
    /\ f.op = "scan"
    /\ wait[th] = NoWait
    /\ f.i > Len(q[th])
    /\ LockFree
    /\ q' = [q EXCEPT ![th] = f.keep]
    /\ \/ \E o \in Op :
          /\ at[o] = NoSlot
          /\ req_alloc(o)
          /\ queued' = queued \cup {o}
          /\ tagged' = Append(tagged, [req |-> o, kind |-> f.kind, by |-> th])
          /\ Goes(th, [op |-> "track", req |-> o, kind |-> f.kind])
       \/ /\ Goes(th, Idle)
          /\ UNCHANGED <<slot, free, at, queued, tagged>>
    /\ UNCHANGED <<got, kernel, cq, head, holder, wait, drain, struck>>

\* Mutant: a full queue loses its oldest entry, finished or not.
Track_drops(th) ==
    LET f == pc[th] IN
    /\ f.op = "track"
    /\ \/ /\ Len(q[th]) < QLen
          /\ q' = [q EXCEPT ![th] = Append(@, [req |-> f.req, kind |-> f.kind])]
          /\ Goes(th, Idle)
       \/ /\ Len(q[th]) >= QLen
          /\ q' = [q EXCEPT ![th] = Tail(@)]
          /\ UNCHANGED pc
    /\ UNCHANGED <<slotVars, ringVars, wait, holder, drain, pastVars>>

\* fasync_token_track: a full queue waits for its oldest request.
Track(th) ==
    LET f == pc[th] IN
    /\ f.op = "track"
    /\ wait[th] = NoWait
    /\ \/ /\ Len(q[th]) < QLen
          /\ q' = [q EXCEPT ![th] = Append(@, [req |-> f.req, kind |-> f.kind])]
          /\ Goes(th, Idle)
          /\ UNCHANGED wait
       \/ /\ Len(q[th]) >= QLen
          /\ Pending(q[th][1].req)
          /\ Awaits(th, at[q[th][1].req])
          /\ UNCHANGED <<q, pc>>
       \/ /\ Len(q[th]) >= QLen
          /\ ~Pending(q[th][1].req)
          /\ q' = [q EXCEPT ![th] = Tail(@)]
          /\ UNCHANGED <<pc, wait>>
    /\ UNCHANGED <<slotVars, ringVars, holder, drain, pastVars>>

-----------------------------------------------------------------------------
(* fasync_result: the lock is kept until the request is collected and its  *)
(* slot is at the head of the free list (fasync_req_release).              *)

Result(th, o) ==
    /\ pc[th] = Idle
    /\ LockFree
    /\ at[o] # NoSlot /\ got[o] = {}
    /\ Goes(th, [op |-> "result", req |-> o])
    /\ holder' = th
    /\ \/ Pending(o) /\ Awaits(th, at[o])
       \/ ~Pending(o) /\ UNCHANGED wait
    /\ UNCHANGED <<slotVars, ringVars, q, drain, pastVars>>

Collects(th) ==
    LET o == pc[th].req
        s == at[o] IN
    /\ pc[th].op = "result"
    /\ wait[th] = NoWait
    /\ got' = [got EXCEPT ![o] = {slot[s].result}]
    /\ slot' = [slot EXCEPT ![s].state = "free"]
    /\ free' = <<s>> \o free
    /\ holder' = NoThread
    /\ Goes(th, Idle)
    /\ UNCHANGED <<at, ringVars, q, wait, drain, pastVars>>

KernelCompletes(o) ==
    /\ o \in kernel
    /\ kernel' = kernel \ {o}
    /\ cq' = Append(cq, o)
    /\ UNCHANGED <<slotVars, queued, head, threadVars, pastVars>>

-----------------------------------------------------------------------------
Init ==
    /\ slot = [s \in Slot |-> [req |-> NoOp, state |-> "free", result |-> NoOp]]
    /\ free \in {f \in [1 .. Cardinality(Slot) -> Slot] : \A i, j \in DOMAIN f : f[i] = f[j] => i = j}
    /\ at = [o \in Op |-> NoSlot]
    /\ got = [o \in Op |-> {}]
    /\ queued = {}
    /\ kernel = {}
    /\ cq = <<>>
    /\ head = 0
    /\ q = [th \in Thread |-> <<>>]
    /\ holder = NoThread
    /\ pc = [th \in Thread |-> Idle]
    /\ wait = [th \in Thread |-> NoWait]
    /\ drain = [th \in Thread |-> NoDrain]
    /\ tagged = <<>>
    /\ struck = {}

Steps(th) ==
    \/ WaitSubmits(th)
    \/ WaitEnds(th)
    \/ DrainBegins(th)
    \/ DrainLooks(th)
    \/ DrainResult(th)
    \/ DrainState(th)
    \/ DrainEnds(th)
    \/ Scan(th)
    \/ Issue(th)
    \/ Track(th)
    \/ Collects(th)

Next ==
    \/ \E th \in Thread, k \in Kinds : Tag(th, k)
    \/ \E th \in Thread, o \in Op : Result(th, o)
    \/ \E th \in Thread : Steps(th)
    \/ Submit
    \/ \E o \in Op : KernelCompletes(o)

Spec == Init /\ [][Next]_vars

-----------------------------------------------------------------------------
(* Properties. A drain without the lock may write what it has for one      *)
(* request to the next one in its slot, which contradicts "any thread may  *)
(* issue requests and wait on them" (fasync.h): this next request is       *)
(* struck. What is promised is kept for all others.                        *)

(* "wait for earlier tagged calls on the same token that conflict with     *)
(* their access kind": once a tagged request is issued, no earlier one of  *)
(* the same tracker that conflicts with it is still to be done, unless it  *)
(* was struck: though the queue is short, results are collected by others, *)
(* slots are used again and drains collide.                                *)
TaggedOrder ==
    \A i, j \in DOMAIN tagged :
        /\ i < j
        /\ tagged[i].by = tagged[j].by
        /\ token_conflicts(tagged[i].kind, tagged[j].kind)
        => tagged[i].req \notin queued \cup kernel \/ tagged[i].req \in struck

(* No completion is lost or taken for another's when two threads drain at  *)
(* once: the request of each one that the queue's head has passed is done, *)
(* or was collected, with its own result, and none was collected with      *)
(* another's, unless it was struck; though one drain may put the head back *)
(* behind where another has left it.                                       *)
CompletionsKept ==
    /\ \A i \in 1 .. head :
        LET o == cq[i] IN
        \/ o \in struck
        \/ got[o] = {o}
        \/ got[o] = {} /\ slot[at[o]] = [req |-> o, state |-> "done", result |-> o]
    /\ \A o \in Op \ struck : got[o] \subseteq {o}

=============================================================================
