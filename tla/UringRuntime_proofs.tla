------------------------ MODULE UringRuntime_proofs ------------------------
(***************************************************************************)
(* The io_uring runtime for any number of threads, calls and requests and  *)
(* any size of the request table: UringInv is inductive.                   *)
(*                                                                         *)
(* RingOK says all that is needed of the request layer, of any ring, as    *)
(* the runtime's steps put several of the layer's operations together; a   *)
(* lemma for each operation says that it keeps RingOK and what it changes. *)
(***************************************************************************)
EXTENDS UringRuntime, FiniteSetTheorems, TLAPS

-----------------------------------------------------------------------------
(* The request layer: r a ring, h the handles given out, a the answers. *)

\* A generation is given out once, to one user.
GensOK(r, h) ==
    /\ \A s \in Slot : r.req[s].gen =< r.gen
    /\ \A u \in User : h[u].gen =< r.gen
    /\ \A u \in User : h[u].gen = 0 => h[u] = NoHandle
    /\ \A u, v \in User : h[u].gen = h[v].gen /\ h[u].gen # 0 => u = v
    /\ \A s \in Slot : r.req[s].state # "free" =>
          r.req[s].gen # 0 /\ \E u \in User : h[u] = IdOf(r, s)

\* What is queued or with the kernel is pending and has no answer yet.
EntriesOK(r, h, a) ==
    /\ \A e \in r.sq \cup r.kernel : h[e.user] = e.id /\ Pending(r, e.id) /\ a[e.user] = "none"
    /\ r.sq \cap r.kernel = {}

\* What has completed is pending still, and carries its user's answer.
CompletionsOK(r, h, a) ==
    \A e \in r.cq : Pending(r, e.id) /\ \E u \in User : h[u] = e.id /\ a[u] = e.res

\* A pending request is somewhere; a done one has its user's answer.
RequestsOK(r, h, a) ==
    /\ \A s \in Slot : r.req[s].state = "pending" =>
          Given(r, IdOf(r, s)) \/ \E e \in r.sq : e.id = IdOf(r, s)
    /\ \A s \in Slot : r.req[s].state = "done" => \A u \in User : h[u] = IdOf(r, s) =>
          a[u] = r.req[s].result /\ a[u] \in Answer
    /\ \A u \in User : h[u] = NoHandle => a[u] = "none"

\* The free list has each free slot once, and g_inflight counts.
SlotsOK(r) ==
    /\ \A i, j \in 1 .. Len(r.free) : r.free[i] = r.free[j] => i = j
    /\ \A s \in Slot : r.req[s].state = "free" <=> \E i \in 1 .. Len(r.free) : r.free[i] = s
    /\ r.inflight = Cardinality({s \in Slot : r.req[s].state = "pending"})

RingOK(r, h, a) ==
    /\ r \in Ring
    /\ h \in [User -> Handle]
    /\ a \in [User -> Answer \cup {"none"}]
    /\ GensOK(r, h)
    /\ EntriesOK(r, h, a)
    /\ CompletionsOK(r, h, a)
    /\ RequestsOK(r, h, a)
    /\ SlotsOK(r)

-----------------------------------------------------------------------------
(* The runtime *)

Polled == Call \cup Read

Frame ==
    {Idle}
    \cup [op : {"poll"}, user : Polled, mode : Mode]
    \cup [op : {"progress", "finish"}, user : Polled]
    \cup [op : {"reclaim"}, user : Call, for : Call]
    \cup [op : {"result"}, user : User \ Call]
    \cup [op : {"all"}]

Outcome == Answer \cup {"none", "EINVAL", "EAGAIN", "EOPNOTSUPP"}

FramesTyped ==
    /\ profile \in Profiles
    /\ pc \in [Thread -> Frame]
    /\ task \in [User -> {"none", "running", "done"}]
    /\ result \in [User -> Outcome]
    /\ collected \in [User -> Answer \cup {"none"}]
    /\ published \subseteq User
    /\ finished \subseteq published
    /\ list \in Seq(Call)

\* Where an annotated call is, by what its request is.
CallsOK ==
    \A c \in Call :
        /\ c \notin published => handle[c] = NoHandle
        /\ c \in published /\ c \in Ignored => handle[c] = NoHandle
        /\ c \in published => task[c] # "none"
        /\ Live(ring, handle[c]) => task[c] = "running"
        /\ c \in published \ Ignored /\ ~Live(ring, handle[c]) => c \in finished /\ task[c] = "done"

\* The same for an explicit request; only a read's request has a task.
ExplicitOK ==
    /\ \A u \in User \ Call : u \in published <=> u \in Read /\ handle[u] # NoHandle
    /\ \A u \in Read : u \in published => task[u] # "none"
    /\ \A u \in Read : u \in published /\ ~Live(ring, handle[u]) => task[u] = "done"
    /\ \A u \in User : Live(ring, handle[u]) =>
          ring.req[handle[u].slot].task = (IF u \in Read THEN u ELSE NoUser)

\* Results are the kernel's answers, which have been given.
ResultsOK ==
    \A u \in User :
        /\ collected[u] # "none" => collected[u] = answer[u]
        /\ task[u] = "done" /\ u \in published \ Ignored =>
              result[u] = answer[u] /\ answer[u] \in Answer

Listed(l, c) == \E i \in 1 .. Len(l) : l[i] = c
Once(l) == \A i, j \in 1 .. Len(l) : l[i] = l[j] => i = j

\* The list has each call with a live request once.
ListOK == Once(list) /\ \A c \in Call : Listed(list, c) <=> Live(ring, handle[c])

UsersOK == CallsOK /\ ExplicitOK /\ ResultsOK /\ ListOK

\* One thread has the lock; what it works on is there as long as it does.
LockOK ==
    \A t, x \in Thread : pc[t].op \in Holding /\ pc[x].op \in Holding => t = x

HolderOK(f) ==
    /\ f.op = "progress" =>
          /\ f.user \in published \ Ignored
          /\ f.user \in Call => Live(ring, handle[f.user])
    /\ f.op = "finish" =>
          /\ f.user \in finished \ Ignored
          /\ f.user \in Call => Live(ring, handle[f.user])
    /\ f.op = "reclaim" =>
          /\ f.user \in finished
          /\ Live(ring, handle[f.user])
          /\ f.for \notin published \cup Ignored
          /\ task[f.for] = "running"
    /\ f.op = "result" => Live(ring, handle[f.user])

HoldersOK == \A t \in Thread : HolderOK(pc[t])

\* What a thread waits for is with the kernel.
WaiterOK(f) ==
    /\ f.op \in {"finish", "reclaim", "result"} /\ Pending(ring, handle[f.user])
          => Given(ring, handle[f.user])
    /\ f.op = "all" => \A s \in Slot : ring.req[s].state = "pending" => Given(ring, IdOf(ring, s))

UringInv ==
    /\ RingOK(ring, handle, answer)
    /\ FramesTyped
    /\ UsersOK
    /\ LockOK
    /\ HoldersOK
    /\ WaitsForKernel

-----------------------------------------------------------------------------
(* What the operations of the request layer change. *)

LEMMA RingFields ==
    ASSUME NEW r \in Ring
    PROVE  /\ r.req \in [Slot -> Request] /\ r.free \in Seq(Slot) /\ r.gen \in Nat
           /\ r.sq \subseteq Entry /\ r.kernel \subseteq Entry /\ r.cq \subseteq Completion
           /\ r.inflight \in Int
           /\ \A s \in Slot : /\ r.req[s] \in Request /\ r.req[s].gen \in Nat
                             /\ r.req[s].state \in {"free", "pending", "done"}
                             /\ r.req[s].result \in Answer \cup {"none"}
                             /\ r.req[s].task \in User \cup {NoUser}
  BY DEF Ring, Request

\* What a request becomes when it completes, and when its slot goes back.
LEMMA DoneRequest ==
    ASSUME NEW x \in Request, NEW v \in Answer
    PROVE  LET y == [x EXCEPT !.state = "done", !.result = v]
           IN  /\ y \in Request /\ y.gen = x.gen /\ y.task = x.task
               /\ y.state = "done" /\ y.result = v
  BY DEF Request

LEMMA FreedRequest ==
    ASSUME NEW x \in Request
    PROVE  LET y == [x EXCEPT !.state = "free", !.task = NoUser]
           IN  y \in Request /\ y.gen = x.gen /\ y.result = x.result /\ y.state = "free"
  BY DEF Request

LEMMA DrainFields ==
    ASSUME NEW r \in Ring
    PROVE  /\ Drain(r).free = r.free /\ Drain(r).gen = r.gen
           /\ Drain(r).sq = r.sq /\ Drain(r).kernel = r.kernel /\ Drain(r).cq = {}
           /\ Drain(r).inflight = r.inflight - Cardinality(Reaped(r))
           /\ \A s \in Slot : Drain(r).req[s] =
                 IF s \in Reaped(r)
                 THEN [r.req[s] EXCEPT !.state = "done", !.result = ResultIn(r, s)]
                 ELSE r.req[s]
           /\ Drain(r) \in Ring
<1> DEFINE q == [s \in Slot |->
                    IF s \in Reaped(r)
                    THEN [r.req[s] EXCEPT !.state = "done", !.result = ResultIn(r, s)]
                    ELSE r.req[s]]
           n == r.inflight - Cardinality(Reaped(r))
<1>1. Drain(r) = [r EXCEPT !.req = q, !.cq = {}, !.inflight = n]
  BY DEF Drain
<1>2. q \in [Slot -> Request]
  <2>1. \A s \in Slot : s \in Reaped(r) => ResultIn(r, s) \in Answer
    BY RingFields DEF Reaped, ResultIn, Completion
  <2>2. \A s \in Slot : q[s] \in Request
    BY <2>1, RingFields, DoneRequest
  <2> QED
    BY <2>2
<1>3. n \in Int
  <2>1. IsFiniteSet(Slot) /\ Reaped(r) \subseteq Slot
    BY MaxInflightPositive, FS_Interval DEF Slot, Reaped
  <2> QED
    BY <2>1, RingFields, FS_Subset, FS_CardinalityType
<1>4. \A s \in Slot : q[s] =
         IF s \in Reaped(r)
         THEN [r.req[s] EXCEPT !.state = "done", !.result = ResultIn(r, s)]
         ELSE r.req[s]
  OBVIOUS
<1> HIDE DEF q, n
<1>5. /\ Drain(r).req = q /\ Drain(r).free = r.free /\ Drain(r).gen = r.gen
      /\ Drain(r).sq = r.sq /\ Drain(r).kernel = r.kernel /\ Drain(r).cq = {}
      /\ Drain(r).inflight = n /\ Drain(r) \in Ring
  BY <1>1, <1>2, <1>3 DEF Ring
<1> QED
  BY <1>4, <1>5 DEF n

LEMMA SentFields ==
    ASSUME NEW r \in Ring
    PROVE  /\ Sent(r).free = r.free /\ Sent(r).gen = r.gen /\ Sent(r).req = r.req
           /\ Sent(r).sq = {} /\ Sent(r).kernel = r.kernel \cup r.sq /\ Sent(r).cq = r.cq
           /\ Sent(r).inflight = r.inflight
           /\ Sent(r) \in Ring
  BY DEF Sent, Ring

LEMMA PushedFields ==
    ASSUME NEW r \in Ring, HasFree(r), NEW u \in User, NEW k \in User \cup {NoUser}
    PROVE  LET p == Pushed(r, u, k)
               y == [gen |-> r.gen + 1, state |-> "pending", result |-> "none", task |-> k]
           IN  /\ p.free = Tail(r.free) /\ p.gen = r.gen + 1
               /\ p.sq = r.sq \cup {[id |-> NextHandle(r), user |-> u]}
               /\ p.kernel = r.kernel /\ p.cq = r.cq /\ p.inflight = r.inflight + 1
               /\ p.req[Head(r.free)] = y
               /\ \A s \in Slot : s # Head(r.free) => p.req[s] = r.req[s]
               /\ Head(r.free) \in Slot /\ NextHandle(r) \in Handle
               /\ NextHandle(r).slot = Head(r.free) /\ NextHandle(r).gen = r.gen + 1
               /\ p \in Ring
<1> DEFINE p == Pushed(r, u, k)
           y == [gen |-> r.gen + 1, state |-> "pending", result |-> "none", task |-> k]
           q == [r.req EXCEPT ![Head(r.free)] = y]
           e == [id |-> NextHandle(r), user |-> u]
<1>1. /\ Head(r.free) \in Slot /\ Tail(r.free) \in Seq(Slot)
      /\ r.req \in [Slot -> Request] /\ r.gen + 1 \in Nat
  BY RingFields DEF HasFree
<1>2. /\ NextHandle(r) \in Handle
      /\ NextHandle(r).slot = Head(r.free) /\ NextHandle(r).gen = r.gen + 1
  BY <1>1 DEF NextHandle, Handle
<1>3. y \in Request
  BY <1>1 DEF Request
<1>4. e \in Entry
  BY <1>2 DEF Entry
<1>5. p = [r EXCEPT !.free = Tail(r.free), !.gen = r.gen + 1, !.req = q,
                    !.sq = r.sq \cup {e}, !.inflight = r.inflight + 1]
  BY DEF Pushed
<1> HIDE DEF p, y, e
<1>6. q \in [Slot -> Request] /\ q[Head(r.free)] = y
      /\ \A s \in Slot : s # Head(r.free) => q[s] = r.req[s]
  BY <1>1, <1>3
<1> HIDE DEF q
<1>7. r.inflight + 1 \in Int /\ r.sq \cup {e} \in SUBSET Entry
  BY <1>4, RingFields
<1>8. /\ p.req = q /\ p.free = Tail(r.free) /\ p.gen = r.gen + 1
      /\ p.sq = r.sq \cup {e}
      /\ p.kernel = r.kernel /\ p.cq = r.cq /\ p.inflight = r.inflight + 1
      /\ p \in Ring
  BY <1>1, <1>5, <1>6, <1>7 DEF Ring
<1> QED
  BY <1>1, <1>2, <1>6, <1>8 DEF p, y, e

\* Handles, one after the other.
Handles(n) == [1 .. n -> Handle]

LEMMA ReleasedFields ==
    ASSUME NEW r \in Ring, NEW n \in Nat, NEW ids \in Handles(n),
           NEW p, p = Released(r, ids)
    PROVE  /\ p.gen = r.gen /\ p.sq = r.sq /\ p.kernel = r.kernel /\ p.cq = r.cq
           /\ p.inflight = r.inflight /\ p \in Ring
           /\ Len(p.free) = n + Len(r.free)
           /\ \A i \in 1 .. n : n - i + 1 \in 1 .. n /\ p.free[i] = ids[n - i + 1].slot
           /\ \A i \in n + 1 .. n + Len(r.free) : p.free[i] = r.free[i - n]
           /\ \A s \in Slot : IF \E i \in 1 .. n : ids[i].slot = s
                              THEN p.req[s].gen = r.req[s].gen /\ p.req[s].state = "free"
                              ELSE p.req[s] = r.req[s]
<1> DEFINE slots == {ids[i].slot : i \in DOMAIN ids}
           q == [s \in Slot |-> IF s \in slots
                                THEN [r.req[s] EXCEPT !.state = "free", !.task = NoUser]
                                ELSE r.req[s]]
           b == [i \in 1 .. n |-> ids[n - i + 1].slot]
<1>1. DOMAIN ids = 1 .. n /\ Len(ids) = n /\ \A i \in 1 .. n : ids[i] \in Handle
  BY DEF Handles
<1>2. p = [r EXCEPT !.req = q, !.free = b \o r.free]
  BY <1>1 DEF Released
<1>3. \A s \in Slot : s \in slots <=> \E i \in 1 .. n : ids[i].slot = s
  BY <1>1
<1>4. \A i \in 1 .. n : n - i + 1 \in 1 .. n /\ b[i] = ids[n - i + 1].slot
  OBVIOUS
<1>5. b \in Seq(Slot) /\ Len(b) = n
  <2>1. \A i \in 1 .. n : b[i] \in Slot
    BY <1>1, <1>4 DEF Handle
  <2> QED
    BY <2>1
<1>6. \A s \in Slot : /\ q[s] \in Request
                      /\ IF s \in slots THEN q[s].gen = r.req[s].gen /\ q[s].state = "free"
                                        ELSE q[s] = r.req[s]
  <2> SUFFICES ASSUME NEW s \in Slot
               PROVE  /\ q[s] \in Request
                      /\ IF s \in slots THEN q[s].gen = r.req[s].gen /\ q[s].state = "free"
                                        ELSE q[s] = r.req[s]
    OBVIOUS
  <2> DEFINE x == r.req[s]
  <2>1. x \in Request
    BY RingFields
  <2>2. CASE s \in slots
    <3>1. q[s] = [x EXCEPT !.state = "free", !.task = NoUser]
      BY <2>2
    <3> HIDE DEF x, q
    <3>2. q[s].gen = x.gen /\ q[s].state = "free" /\ q[s] \in Request
      BY <2>1, <3>1 DEF Request
    <3> QED
      BY <2>2, <3>2 DEF x
  <2>3. CASE s \notin slots
    BY <2>1, <2>3
  <2> QED
    BY <2>2, <2>3
<1>7. q \in [Slot -> Request]
  BY <1>6
<1> HIDE DEF q, b, slots
<1>8. r.free \in Seq(Slot) /\ Len(r.free) \in Nat
  BY RingFields
<1>9. /\ b \o r.free \in Seq(Slot) /\ Len(b \o r.free) = n + Len(r.free)
      /\ \A i \in 1 .. n : (b \o r.free)[i] = b[i]
      /\ \A i \in n + 1 .. n + Len(r.free) : (b \o r.free)[i] = r.free[i - n]
  BY <1>5, <1>8
<1>10. /\ p.req = q /\ p.free = b \o r.free /\ p.gen = r.gen
       /\ p.sq = r.sq /\ p.kernel = r.kernel /\ p.cq = r.cq /\ p.inflight = r.inflight
       /\ p \in Ring
  BY <1>2, <1>7, <1>9 DEF Ring
<1> QED
  BY <1>3, <1>4, <1>6, <1>9, <1>10

-----------------------------------------------------------------------------
(* The operations of the request layer keep RingOK. *)

LEMMA SlotsFinite ==
    ASSUME NEW S \in SUBSET Slot
    PROVE  IsFiniteSet(S) /\ Cardinality(S) \in Nat
<1>1. IsFiniteSet(Slot)
  BY MaxInflightPositive, FS_Interval DEF Slot
<1> QED
  BY <1>1, FS_Subset, FS_CardinalityType

\* The identifier of a slot's request, and the request of an identifier.
LEMMA Identified ==
    ASSUME NEW r \in Ring
    PROVE  /\ \A s \in Slot : IdOf(r, s) \in Handle /\ IdOf(r, s).slot = s
                              /\ IdOf(r, s).gen = r.req[s].gen
           /\ \A id \in Handle : id.slot \in Slot /\ id.gen \in Nat
           /\ \A id \in Handle : Live(r, id) <=> r.req[id.slot].state # "free" /\ IdOf(r, id.slot) = id
           /\ \A id \in Handle : Pending(r, id) <=> r.req[id.slot].state = "pending" /\ IdOf(r, id.slot) = id
           /\ \A id \in Handle, s \in Slot : id = IdOf(r, s) => id.slot = s /\ id.gen = r.req[s].gen
<1>1. \A s \in Slot : IdOf(r, s) \in Handle /\ IdOf(r, s).slot = s /\ IdOf(r, s).gen = r.req[s].gen
  BY RingFields DEF IdOf, Handle
<1>2. \A id \in Handle : id.slot \in Slot /\ id.gen \in Nat /\ id = [slot |-> id.slot, gen |-> id.gen]
  BY DEF Handle
<1>3. \A id \in Handle : IdOf(r, id.slot) = id <=> r.req[id.slot].gen = id.gen
  BY <1>2 DEF IdOf
<1> QED
  BY <1>1, <1>2, <1>3 DEF Live, Pending

LEMMA DrainOK ==
    ASSUME NEW r, NEW h, NEW a, RingOK(r, h, a)
    PROVE  /\ RingOK(Drain(r), h, a)
           /\ \A s \in Slot : /\ Drain(r).req[s].task = r.req[s].task
                              /\ Drain(r).req[s].state = "pending" => r.req[s].state = "pending"
                              /\ IdOf(Drain(r), s) = IdOf(r, s)
           /\ \A id \in Handle : Live(Drain(r), id) <=> Live(r, id)
           /\ \A id \in Handle : Pending(Drain(r), id) => Pending(r, id)
           /\ \A s \in Slot : Drain(r).req[s].state = "pending" /\ Given(r, IdOf(r, s))
                                 => Given(Drain(r), IdOf(r, s))
<1> DEFINE d == Drain(r)
<1>0. /\ r \in Ring /\ h \in [User -> Handle] /\ a \in [User -> Answer \cup {"none"}]
      /\ GensOK(r, h) /\ EntriesOK(r, h, a) /\ CompletionsOK(r, h, a)
      /\ RequestsOK(r, h, a) /\ SlotsOK(r)
  BY DEF RingOK
<1>1. /\ d.free = r.free /\ d.gen = r.gen /\ d.sq = r.sq /\ d.kernel = r.kernel /\ d.cq = {}
      /\ d.inflight = r.inflight - Cardinality(Reaped(r)) /\ d \in Ring
  BY <1>0, DrainFields
\* A completion is for the user with its handle, and says what it got.
<1>2. \A e \in r.cq : e.id \in Handle /\ e.res \in Answer /\
         \A u \in User : h[u] = e.id => a[u] = e.res
  <2> SUFFICES ASSUME NEW e \in r.cq
               PROVE  e.id \in Handle /\ e.res \in Answer /\ \A u \in User : h[u] = e.id => a[u] = e.res
    OBVIOUS
  <2>1. e.id \in Handle /\ e.res \in Answer
    BY <1>0, RingFields DEF Completion
  <2>2. PICK v \in User : h[v] = e.id /\ a[v] = e.res
    BY <1>0 DEF CompletionsOK
  <2>3. e.id.gen # 0
    <3>1. r.req[e.id.slot].state # "free" /\ e.id.slot \in Slot /\ r.req[e.id.slot].gen = e.id.gen
      BY <1>0, <2>1 DEF CompletionsOK, Pending, Live, Handle
    <3> QED
      BY <1>0, <3>1 DEF GensOK
  <2> QED
    BY <1>0, <2>1, <2>2, <2>3 DEF GensOK
<1>3. \A s \in Reaped(r) : /\ s \in Slot /\ r.req[s].state = "pending"
                           /\ \E e \in r.cq : e.id = IdOf(r, s) /\ ResultIn(r, s) = e.res
  BY DEF Reaped, ResultIn
<1>4. \A s \in Slot : /\ d.req[s].gen = r.req[s].gen
                      /\ d.req[s].task = r.req[s].task
                      /\ s \in Reaped(r) => d.req[s].state = "done" /\ d.req[s].result = ResultIn(r, s)
                      /\ s \notin Reaped(r) => d.req[s] = r.req[s]
  <2> SUFFICES ASSUME NEW s \in Slot
               PROVE  /\ d.req[s].gen = r.req[s].gen
                      /\ d.req[s].task = r.req[s].task
                      /\ s \in Reaped(r) => d.req[s].state = "done" /\ d.req[s].result = ResultIn(r, s)
                      /\ s \notin Reaped(r) => d.req[s] = r.req[s]
    OBVIOUS
  <2>1. CASE s \in Reaped(r)
    <3> DEFINE x == r.req[s]
               v == ResultIn(r, s)
    <3>1. v \in Answer /\ x \in Request
      BY <1>0, <1>2, <1>3, <2>1, RingFields
    <3>2. d.req[s] = [x EXCEPT !.state = "done", !.result = v]
      BY <1>0, <2>1, DrainFields
    <3> HIDE DEF x, v, d
    <3>3. /\ d.req[s].gen = x.gen /\ d.req[s].task = x.task
          /\ d.req[s].state = "done" /\ d.req[s].result = v
      BY <3>1, <3>2 DEF Request
    <3> QED
      BY <2>1, <3>3 DEF x, v
  <2>2. CASE s \notin Reaped(r)
    BY <1>0, <2>2, DrainFields
  <2> QED
    BY <2>1, <2>2
<1>5. \A s \in Slot : IdOf(d, s) = IdOf(r, s) /\ (d.req[s].state = "free" <=> r.req[s].state = "free")
                      /\ (d.req[s].state = "pending" => r.req[s].state = "pending")
  BY <1>3, <1>4 DEF IdOf
<1>6. \A id \in Handle : /\ Live(d, id) <=> Live(r, id)
                         /\ Pending(d, id) => Pending(r, id)
  BY <1>0, <1>1, <1>5, Identified
<1> HIDE DEF d
<1>7. GensOK(d, h)
  BY <1>0, <1>1, <1>4, <1>5 DEF GensOK
<1>8. EntriesOK(d, h, a)
  <2> SUFFICES ASSUME NEW e \in r.sq \cup r.kernel
               PROVE  h[e.user] = e.id /\ Pending(d, e.id) /\ a[e.user] = "none"
    BY <1>0, <1>1 DEF EntriesOK
  <2>1. /\ h[e.user] = e.id /\ Pending(r, e.id) /\ a[e.user] = "none" /\ e.user \in User /\ e.id \in Handle
    BY <1>0, RingFields DEF EntriesOK, Entry
  <2>2. e.id.slot \notin Reaped(r)
    <3> SUFFICES ASSUME e.id.slot \in Reaped(r)
                 PROVE  FALSE
      OBVIOUS
    <3>1. PICK c \in r.cq : c.id = IdOf(r, e.id.slot)
      BY <1>3
    <3>2. c.id = e.id
      BY <1>0, <2>1, <3>1, Identified
    <3> QED
      BY <1>2, <2>1, <3>2 DEF Answer
  <2> QED
    BY <1>0, <1>1, <1>4, <1>5, <2>1, <2>2, Identified
<1>9. CompletionsOK(d, h, a)
  BY <1>1 DEF CompletionsOK
<1>10. RequestsOK(d, h, a)
  <2>1. ASSUME NEW s \in Slot, d.req[s].state = "pending"
        PROVE  Given(d, IdOf(d, s)) \/ \E e \in d.sq : e.id = IdOf(d, s)
    <3>1. s \notin Reaped(r) /\ r.req[s].state = "pending"
      BY <1>4, <1>5, <2>1
    <3>2. ~\E e \in r.cq : e.id = IdOf(r, s)
      BY <3>1 DEF Reaped
    <3>3. Given(r, IdOf(r, s)) \/ \E e \in r.sq : e.id = IdOf(r, s)
      BY <1>0, <3>1 DEF RequestsOK
    <3> QED
      BY <1>1, <1>5, <3>2, <3>3 DEF Given
  <2>2. ASSUME NEW s \in Slot, d.req[s].state = "done", NEW u \in User, h[u] = IdOf(d, s)
        PROVE  a[u] = d.req[s].result /\ a[u] \in Answer
    <3>1. CASE s \in Reaped(r)
      <4>1. PICK e \in r.cq : e.id = IdOf(r, s) /\ ResultIn(r, s) = e.res
        BY <1>3, <3>1
      <4> QED
        BY <1>2, <1>4, <1>5, <2>2, <3>1, <4>1
    <3>2. CASE s \notin Reaped(r)
      BY <1>0, <1>4, <1>5, <2>2, <3>2 DEF RequestsOK
    <3> QED
      BY <3>1, <3>2
  <2> QED
    BY <1>0, <2>1, <2>2 DEF RequestsOK
<1>11. SlotsOK(d)
  <2> DEFINE P == {s \in Slot : r.req[s].state = "pending"}
             Q == {s \in Slot : d.req[s].state = "pending"}
  <2>1. Q = P \ Reaped(r) /\ P \cap Reaped(r) = Reaped(r)
    BY <1>3, <1>4
  <2>2. IsFiniteSet(P) /\ IsFiniteSet(Reaped(r)) /\ Cardinality(P) \in Nat /\ Cardinality(Reaped(r)) \in Nat
    BY SlotsFinite DEF Reaped
  <2> HIDE DEF P, Q
  <2>3. Cardinality(Q) = Cardinality(P) - Cardinality(Reaped(r))
    <3>1. Cardinality(P \ Reaped(r)) = Cardinality(P) - Cardinality(P \cap Reaped(r))
      BY <2>2, FS_Difference
    <3> QED
      BY <2>1, <3>1
  <2>4. d.inflight = Cardinality(Q)
    BY <1>0, <1>1, <2>3 DEF SlotsOK, P
  <2> QED
    BY <1>0, <1>1, <1>5, <2>4 DEF SlotsOK, Q
<1>12. \A s \in Slot : d.req[s].state = "pending" /\ Given(r, IdOf(r, s)) => Given(d, IdOf(r, s))
  <2> SUFFICES ASSUME NEW s \in Slot, d.req[s].state = "pending", Given(r, IdOf(r, s))
               PROVE  Given(d, IdOf(r, s))
    OBVIOUS
  <2>1. s \notin Reaped(r) /\ r.req[s].state = "pending"
    BY <1>4, <1>5
  <2>2. ~\E e \in r.cq : e.id = IdOf(r, s)
    BY <2>1 DEF Reaped
  <2> QED
    BY <1>1, <2>2 DEF Given
<1> QED
  BY <1>0, <1>1, <1>4, <1>5, <1>6, <1>7, <1>8, <1>9, <1>10, <1>11, <1>12 DEF RingOK, d

LEMMA SentOK ==
    ASSUME NEW r, NEW h, NEW a, RingOK(r, h, a)
    PROVE  /\ RingOK(Sent(r), h, a)
           /\ Sent(r).req = r.req
           /\ \A s \in Slot : IdOf(Sent(r), s) = IdOf(r, s)
           /\ \A id \in Handle : Live(Sent(r), id) <=> Live(r, id)
           /\ \A id \in Handle : Pending(Sent(r), id) <=> Pending(r, id)
           /\ \A s \in Slot : r.req[s].state = "pending" => Given(Sent(r), IdOf(r, s))
           /\ \A id \in Handle : Pending(r, id) => Given(Sent(r), id)
<1> DEFINE d == Sent(r)
<1>0. /\ r \in Ring /\ h \in [User -> Handle] /\ a \in [User -> Answer \cup {"none"}]
      /\ GensOK(r, h) /\ EntriesOK(r, h, a) /\ CompletionsOK(r, h, a)
      /\ RequestsOK(r, h, a) /\ SlotsOK(r)
  BY DEF RingOK
<1>1. /\ d.free = r.free /\ d.gen = r.gen /\ d.req = r.req /\ d.sq = {} /\ d.kernel = r.kernel \cup r.sq
      /\ d.cq = r.cq /\ d.inflight = r.inflight /\ d \in Ring
  BY <1>0, SentFields
<1> HIDE DEF d
<1>2. \A s \in Slot : IdOf(d, s) = IdOf(r, s)
  BY <1>1 DEF IdOf
<1>3. \A id : (Live(d, id) <=> Live(r, id)) /\ (Pending(d, id) <=> Pending(r, id))
  BY <1>1 DEF Live, Pending
<1>4. \A s \in Slot : r.req[s].state = "pending" => Given(d, IdOf(r, s))
  BY <1>0, <1>1 DEF RequestsOK, Given
<1>5. \A id \in Handle : Pending(r, id) => Given(d, id)
  BY <1>0, <1>4, Identified
<1>6. GensOK(d, h)
  BY <1>0, <1>1, <1>2 DEF GensOK
<1>7. EntriesOK(d, h, a)
  BY <1>0, <1>1, <1>3 DEF EntriesOK
<1>8. CompletionsOK(d, h, a)
  BY <1>0, <1>1, <1>3 DEF CompletionsOK
<1>9. RequestsOK(d, h, a)
  BY <1>0, <1>1, <1>2, <1>4 DEF RequestsOK
<1>10. SlotsOK(d)
  BY <1>0, <1>1 DEF SlotsOK
<1> QED
  BY <1>0, <1>1, <1>2, <1>3, <1>4, <1>5, <1>6, <1>7, <1>8, <1>9, <1>10 DEF RingOK, d

\* A function but for one value.
Put(f, x, y) == [f EXCEPT ![x] = y]

\* A new request takes the head of the free list; all else is as it was.
LEMMA PushedOK ==
    ASSUME NEW r, NEW h, NEW a, RingOK(r, h, a), HasFree(r),
           NEW u \in User, NEW k \in User \cup {NoUser}, h[u] = NoHandle,
           NEW g, g = Put(h, u, NextHandle(r)), NEW d, d = Pushed(r, u, k)
    PROVE  /\ RingOK(d, g, a)
           /\ Live(d, g[u]) /\ g[u] # NoHandle /\ ~Live(r, h[u]) /\ d.req[g[u].slot].task = k
           /\ \A v \in User : v # u =>
                 /\ g[v] = h[v]
                 /\ Live(d, g[v]) <=> Live(r, h[v])
                 /\ Live(r, h[v]) => d.req[h[v].slot] = r.req[h[v].slot]
<1> DEFINE n == NextHandle(r)
           hd == Head(r.free)
           y == [gen |-> r.gen + 1, state |-> "pending", result |-> "none", task |-> k]
           e == [id |-> n, user |-> u]
<1>0. /\ r \in Ring /\ h \in [User -> Handle] /\ a \in [User -> Answer \cup {"none"}]
      /\ GensOK(r, h) /\ EntriesOK(r, h, a) /\ CompletionsOK(r, h, a)
      /\ RequestsOK(r, h, a) /\ SlotsOK(r)
  BY DEF RingOK
<1>1. /\ d.free = Tail(r.free) /\ d.gen = r.gen + 1 /\ d.sq = r.sq \cup {e}
      /\ d.kernel = r.kernel /\ d.cq = r.cq /\ d.inflight = r.inflight + 1
      /\ d.req[hd] = y /\ \A s \in Slot : s # hd => d.req[s] = r.req[s]
      /\ hd \in Slot /\ n \in Handle /\ n.slot = hd /\ n.gen = r.gen + 1 /\ d \in Ring
  BY <1>0, PushedFields
<1>2. /\ y.gen = r.gen + 1 /\ y.state = "pending" /\ y.result = "none" /\ y.task = k
      /\ e.id = n /\ e.user = u /\ r.gen \in Nat
  BY <1>0, RingFields
<1> HIDE DEF n, hd, y, e
<1>3. /\ r.free \in Seq(Slot) /\ r.free # <<>> /\ Len(r.free) \in Nat \ {0} /\ hd = r.free[1]
      /\ Len(d.free) = Len(r.free) - 1
      /\ \A i \in 1 .. Len(r.free) - 1 : d.free[i] = r.free[i + 1]
  BY <1>0, <1>1, RingFields DEF HasFree, hd
<1>4. r.req[hd].state = "free"
  BY <1>0, <1>1, <1>3 DEF SlotsOK
<1>5. /\ g \in [User -> Handle] /\ g[u] = n /\ \A v \in User : v # u => g[v] = h[v]
  BY <1>0, <1>1 DEF n, Put
<1>6. /\ IdOf(d, hd) = n /\ \A s \in Slot : s # hd => IdOf(d, s) = IdOf(r, s)
  <2>1. n = [slot |-> hd, gen |-> r.gen + 1]
    BY DEF n, NextHandle, hd
  <2> QED
    BY <1>1, <1>2, <2>1 DEF IdOf
<1>7. \A v \in User : /\ h[v] \in Handle /\ h[v].slot \in Slot /\ h[v].gen \in Nat
                      /\ h[v].gen =< r.gen /\ h[v].gen # r.gen + 1 /\ h[v] # n
  BY <1>0, <1>1, <1>2, Identified DEF GensOK
\* What was live is in another slot, and what was dead stays so.
<1>8. \A id \in Handle : id.gen =< r.gen =>
         /\ Live(d, id) <=> Live(r, id)
         /\ Pending(d, id) <=> Pending(r, id)
         /\ Live(r, id) => id.slot # hd
  <2> SUFFICES ASSUME NEW id \in Handle, id.gen =< r.gen
               PROVE  /\ Live(d, id) <=> Live(r, id)
                      /\ Pending(d, id) <=> Pending(r, id)
                      /\ Live(r, id) => id.slot # hd
    OBVIOUS
  <2>1. id.slot \in Slot /\ id.gen \in Nat
    BY DEF Handle
  <2>2. CASE id.slot = hd
    BY <1>1, <1>2, <1>4, <2>1, <2>2 DEF Live, Pending
  <2>3. CASE id.slot # hd
    BY <1>1, <2>1, <2>3 DEF Live, Pending
  <2> QED
    BY <2>2, <2>3
<1>9. Live(d, n) /\ Pending(d, n) /\ d.req[n.slot].task = k
  BY <1>1, <1>2 DEF Live, Pending
<1>10. ~Live(r, NoHandle) /\ n # NoHandle /\ NoHandle \in Handle /\ NoHandle.gen = 0
  <2>1. NoHandle.slot = 0 /\ NoHandle.gen = 0 /\ 0 \in Slot /\ NoHandle \in Handle
    BY MaxInflightPositive DEF NoHandle, Slot, Handle
  <2> QED
    BY <1>0, <1>1, <1>2, <2>1 DEF Live, GensOK
<1>11. GensOK(d, g)
  <2>1. \A s \in Slot : d.req[s].gen =< d.gen
    <3>1. \A s \in Slot : r.req[s].gen \in Nat /\ r.req[s].gen =< r.gen
      BY <1>0, RingFields DEF GensOK
    <3> QED
      BY <1>1, <1>2, <3>1
  <2>2. \A v \in User : g[v].gen =< d.gen
    BY <1>1, <1>2, <1>5, <1>7
  <2>3. \A v \in User : g[v].gen = 0 => g[v] = NoHandle
    BY <1>0, <1>1, <1>2, <1>5 DEF GensOK
  <2>4. \A v, w \in User : g[v].gen = g[w].gen /\ g[v].gen # 0 => v = w
    BY <1>0, <1>1, <1>5, <1>7 DEF GensOK
  <2>5. \A s \in Slot : d.req[s].state # "free" => d.req[s].gen # 0 /\ \E v \in User : g[v] = IdOf(d, s)
    <3> SUFFICES ASSUME NEW s \in Slot, d.req[s].state # "free"
                 PROVE  d.req[s].gen # 0 /\ \E v \in User : g[v] = IdOf(d, s)
      OBVIOUS
    <3>1. CASE s = hd
      BY <1>1, <1>2, <1>5, <1>6, <3>1
    <3>2. CASE s # hd
      <4>1. r.req[s].gen # 0 /\ \E v \in User : h[v] = IdOf(r, s)
        BY <1>0, <1>1, <3>2 DEF GensOK
      <4>2. PICK v \in User : h[v] = IdOf(r, s)
        BY <4>1
      <4>3. v # u
        BY <1>0, <4>1, <4>2, <1>10, Identified
      <4> QED
        BY <1>1, <1>5, <1>6, <3>2, <4>1, <4>2, <4>3
    <3> QED
      BY <3>1, <3>2
  <2> QED
    BY <2>1, <2>2, <2>3, <2>4, <2>5 DEF GensOK
<1>12. EntriesOK(d, g, a)
  <2>1. ASSUME NEW x \in r.sq \cup r.kernel
        PROVE  /\ g[x.user] = x.id /\ Pending(d, x.id) /\ a[x.user] = "none" /\ x # e
    <3>1. /\ x.user \in User /\ x.id \in Handle /\ h[x.user] = x.id /\ Pending(r, x.id) /\ a[x.user] = "none"
      BY <1>0, RingFields DEF EntriesOK, Entry
    <3>2. x.id.gen =< r.gen /\ x.id # n /\ Live(r, x.id)
      BY <1>7, <3>1 DEF Pending
    <3>3. x.user # u
      BY <1>10, <3>1, <3>2
    <3> QED
      BY <1>2, <1>5, <1>8, <3>1, <3>2, <3>3
  <2>2. /\ g[e.user] = e.id /\ Pending(d, e.id) /\ a[e.user] = "none"
    BY <1>0, <1>2, <1>5, <1>9 DEF RequestsOK
  <2> QED
    BY <1>0, <1>1, <2>1, <2>2 DEF EntriesOK
<1>13. CompletionsOK(d, g, a)
  <2> SUFFICES ASSUME NEW x \in r.cq
               PROVE  Pending(d, x.id) /\ \E v \in User : g[v] = x.id /\ a[v] = x.res
    BY <1>1 DEF CompletionsOK
  <2>1. x.id \in Handle /\ Pending(r, x.id)
    BY <1>0, RingFields DEF CompletionsOK, Completion
  <2>2. PICK v \in User : h[v] = x.id /\ a[v] = x.res
    BY <1>0 DEF CompletionsOK
  <2>3. v # u
    BY <1>10, <2>1, <2>2 DEF Pending
  <2> QED
    BY <1>5, <1>7, <1>8, <2>1, <2>2, <2>3
<1>14. RequestsOK(d, g, a)
  <2>1. ASSUME NEW s \in Slot, d.req[s].state = "pending"
        PROVE  Given(d, IdOf(d, s)) \/ \E x \in d.sq : x.id = IdOf(d, s)
    <3>1. CASE s = hd
      BY <1>1, <1>2, <1>6, <3>1
    <3>2. CASE s # hd
      <4>1. Given(r, IdOf(r, s)) \/ \E x \in r.sq : x.id = IdOf(r, s)
        BY <1>0, <1>1, <2>1, <3>2 DEF RequestsOK
      <4> QED
        BY <1>1, <1>6, <3>2, <4>1 DEF Given
    <3> QED
      BY <3>1, <3>2
  <2>2. ASSUME NEW s \in Slot, d.req[s].state = "done", NEW v \in User, g[v] = IdOf(d, s)
        PROVE  a[v] = d.req[s].result /\ a[v] \in Answer
    <3>1. s # hd /\ r.req[s].state = "done" /\ d.req[s] = r.req[s]
      BY <1>1, <1>2, <2>2
    <3>2. v # u
      BY <1>0, <1>1, <1>5, <1>6, <2>2, <3>1, Identified
    <3> QED
      BY <1>0, <1>5, <1>6, <2>2, <3>1, <3>2 DEF RequestsOK
  <2>3. \A v \in User : g[v] = NoHandle => a[v] = "none"
    BY <1>0, <1>5, <1>10 DEF RequestsOK
  <2> QED
    BY <2>1, <2>2, <2>3 DEF RequestsOK
<1>15. SlotsOK(d)
  <2>1. ASSUME NEW i \in 1 .. Len(d.free), NEW j \in 1 .. Len(d.free), d.free[i] = d.free[j]
        PROVE  i = j
    <3>1. i \in 1 .. Len(r.free) - 1 /\ j \in 1 .. Len(r.free) - 1
      BY <1>3
    <3>2. /\ i + 1 \in 1 .. Len(r.free) /\ j + 1 \in 1 .. Len(r.free)
          /\ r.free[i + 1] = r.free[j + 1]
      BY <1>3, <2>1, <3>1
    <3>3. i + 1 = j + 1
      BY <1>0, <3>2 DEF SlotsOK
    <3> QED
      BY <3>1, <3>3
  <2>2. ASSUME NEW s \in Slot
        PROVE  d.req[s].state = "free" <=> \E i \in 1 .. Len(d.free) : d.free[i] = s
    <3>1. CASE s = hd
      <4>1. ASSUME NEW i \in 1 .. Len(r.free) - 1, r.free[i + 1] = r.free[1]
            PROVE  FALSE
        <5>1. i + 1 \in 1 .. Len(r.free) /\ 1 \in 1 .. Len(r.free) /\ i + 1 # 1
          BY <1>3
        <5> QED
          BY <1>0, <4>1, <5>1 DEF SlotsOK
      <4> QED
        BY <1>1, <1>2, <1>3, <3>1, <4>1
    <3>2. CASE s # hd
      <4>1. d.req[s].state = "free" <=> \E i \in 1 .. Len(r.free) : r.free[i] = s
        BY <1>0, <1>1, <3>2 DEF SlotsOK
      <4>2. ASSUME NEW i \in 1 .. Len(r.free), r.free[i] = s
            PROVE  \E j \in 1 .. Len(r.free) - 1 : r.free[j + 1] = s
        <5>1. i - 1 \in 1 .. Len(r.free) - 1 /\ (i - 1) + 1 = i
          BY <1>3, <3>2, <4>2
        <5> QED
          BY <4>2, <5>1
      <4>3. ASSUME NEW j \in 1 .. Len(r.free) - 1, r.free[j + 1] = s
            PROVE  \E i \in 1 .. Len(r.free) : r.free[i] = s
        <5>1. j + 1 \in 1 .. Len(r.free)
          BY <1>3
        <5> QED
          BY <4>3, <5>1
      <4> QED
        BY <1>3, <4>1, <4>2, <4>3
    <3> QED
      BY <3>1, <3>2
  <2>3. d.inflight = Cardinality({s \in Slot : d.req[s].state = "pending"})
    <3> DEFINE P == {s \in Slot : r.req[s].state = "pending"}
               Q == {s \in Slot : d.req[s].state = "pending"}
    <3>1. Q = P \cup {hd} /\ hd \notin P
      BY <1>1, <1>2, <1>4
    <3>2. IsFiniteSet(P) /\ Cardinality(P) \in Nat
      BY SlotsFinite
    <3> HIDE DEF P, Q
    <3>3. Cardinality(Q) = Cardinality(P) + 1
      BY <3>1, <3>2, FS_AddElement
    <3>4. r.inflight = Cardinality(P)
      BY <1>0 DEF SlotsOK, P
    <3> QED
      BY <1>1, <3>3, <3>4 DEF Q
  <2> QED
    BY <2>1, <2>2, <2>3 DEF SlotsOK
<1>16. \A v \in User : v # u =>
          /\ g[v] = h[v]
          /\ Live(d, g[v]) <=> Live(r, h[v])
          /\ Live(r, h[v]) => d.req[h[v].slot] = r.req[h[v].slot]
  BY <1>1, <1>5, <1>7, <1>8
<1> QED
  BY <1>0, <1>1, <1>5, <1>9, <1>10, <1>11, <1>12, <1>13, <1>14, <1>15, <1>16 DEF RingOK

\* Requests that are done give their slots back; all else is as it was.
LEMMA ReleasedOK ==
    ASSUME NEW r, NEW h, NEW a, RingOK(r, h, a), NEW n \in Nat, NEW ids \in Handles(n),
           \A i \in 1 .. n : Live(r, ids[i]) /\ ~Pending(r, ids[i]),
           \A i, j \in 1 .. n : ids[i] = ids[j] => i = j,
           NEW d, d = Released(r, ids)
    PROVE  /\ RingOK(d, h, a)
           /\ n # 0 => HasFree(d)
           /\ \A id \in Handle : Live(d, id) <=> Live(r, id) /\ \A i \in 1 .. n : ids[i] # id
           /\ \A id \in Handle : Live(d, id) => d.req[id.slot] = r.req[id.slot]
<1> DEFINE Gone(s) == \E i \in 1 .. n : ids[i].slot = s
<1>0. /\ r \in Ring /\ h \in [User -> Handle] /\ a \in [User -> Answer \cup {"none"}]
      /\ GensOK(r, h) /\ EntriesOK(r, h, a) /\ CompletionsOK(r, h, a)
      /\ RequestsOK(r, h, a) /\ SlotsOK(r)
  BY DEF RingOK
<1>1. /\ d.gen = r.gen /\ d.sq = r.sq /\ d.kernel = r.kernel /\ d.cq = r.cq
      /\ d.inflight = r.inflight /\ d \in Ring
      /\ Len(d.free) = n + Len(r.free)
      /\ \A i \in 1 .. n : n - i + 1 \in 1 .. n /\ d.free[i] = ids[n - i + 1].slot
      /\ \A i \in n + 1 .. n + Len(r.free) : d.free[i] = r.free[i - n]
      /\ \A s \in Slot : IF Gone(s) THEN d.req[s].gen = r.req[s].gen /\ d.req[s].state = "free"
                                    ELSE d.req[s] = r.req[s]
  <2>1. /\ d.gen = r.gen /\ d.sq = r.sq /\ d.kernel = r.kernel /\ d.cq = r.cq
        /\ d.inflight = r.inflight /\ d \in Ring
        /\ Len(d.free) = n + Len(r.free)
    BY <1>0, ReleasedFields
  <2>2. \A i \in 1 .. n : n - i + 1 \in 1 .. n /\ d.free[i] = ids[n - i + 1].slot
    BY <1>0, ReleasedFields
  <2>3. \A i \in n + 1 .. n + Len(r.free) : d.free[i] = r.free[i - n]
    BY <1>0, ReleasedFields
  <2>4. \A s \in Slot : IF Gone(s) THEN d.req[s].gen = r.req[s].gen /\ d.req[s].state = "free"
                                    ELSE d.req[s] = r.req[s]
    BY <1>0, ReleasedFields
  <2> QED
    BY <2>1, <2>2, <2>3, <2>4
<1>2. \A s \in Slot : /\ Gone(s) => d.req[s].gen = r.req[s].gen /\ d.req[s].state = "free"
                      /\ ~Gone(s) => d.req[s] = r.req[s]
  BY <1>1
<1>3. \A i \in 1 .. n : /\ ids[i] \in Handle /\ ids[i].slot \in Slot
                        /\ r.req[ids[i].slot].state = "done" /\ IdOf(r, ids[i].slot) = ids[i]
  <2> SUFFICES ASSUME NEW i \in 1 .. n
               PROVE  /\ ids[i] \in Handle /\ ids[i].slot \in Slot
                      /\ r.req[ids[i].slot].state = "done" /\ IdOf(r, ids[i].slot) = ids[i]
    OBVIOUS
  <2>1. ids[i] \in Handle /\ Live(r, ids[i]) /\ ~Pending(r, ids[i])
    BY DEF Handles
  <2>2. ids[i].slot \in Slot /\ IdOf(r, ids[i].slot) = ids[i] /\ r.req[ids[i].slot].state \notin {"free", "pending"}
    BY <1>0, <2>1, Identified
  <2>3. r.req[ids[i].slot].state \in {"free", "pending", "done"}
    BY <1>0, <2>2, RingFields
  <2> QED
    BY <2>1, <2>2, <2>3
<1>4. \A s \in Slot : Gone(s) => r.req[s].state = "done"
  BY <1>3
<1>5. \A s \in Slot : IdOf(d, s) = IdOf(r, s)
  BY <1>2 DEF IdOf
<1>6. \A id \in Handle : id.slot \in Slot /\
         (Live(d, id) <=> Live(r, id) /\ ~Gone(id.slot)) /\ (Pending(d, id) <=> Pending(r, id))
  <2> SUFFICES ASSUME NEW id \in Handle
               PROVE  id.slot \in Slot /\
                      (Live(d, id) <=> Live(r, id) /\ ~Gone(id.slot)) /\ (Pending(d, id) <=> Pending(r, id))
    OBVIOUS
  <2>1. id.slot \in Slot
    BY DEF Handle
  <2>2. CASE Gone(id.slot)
    <3>1. d.req[id.slot].state = "free" /\ r.req[id.slot].state = "done"
      BY <1>2, <1>4, <2>1, <2>2
    <3> QED
      BY <2>1, <2>2, <3>1 DEF Live, Pending
  <2>3. CASE ~Gone(id.slot)
    <3>1. d.req[id.slot] = r.req[id.slot]
      BY <1>2, <2>1, <2>3
    <3> QED
      BY <2>1, <2>3, <3>1 DEF Live, Pending
  <2> QED
    BY <2>2, <2>3
<1>7. \A id \in Handle : Live(r, id) => (Gone(id.slot) <=> \E i \in 1 .. n : ids[i] = id)
  <2> SUFFICES ASSUME NEW id \in Handle, Live(r, id)
               PROVE  Gone(id.slot) <=> \E i \in 1 .. n : ids[i] = id
    OBVIOUS
  <2>1. IdOf(r, id.slot) = id
    BY <1>0, Identified
  <2> QED
    BY <1>3, <2>1
<1>8. GensOK(d, h)
  <2>1. \A s \in Slot : d.req[s].gen = r.req[s].gen
    BY <1>2
  <2>2. \A s \in Slot : d.req[s].state # "free" => r.req[s].state # "free"
    BY <1>2
  <2> QED
    BY <1>0, <1>1, <1>5, <2>1, <2>2 DEF GensOK
<1>9. EntriesOK(d, h, a)
  <2>1. \A e \in r.sq \cup r.kernel : e.id \in Handle
    BY <1>0, RingFields DEF Entry
  <2> QED
    BY <1>0, <1>1, <1>6, <2>1 DEF EntriesOK
<1>10. CompletionsOK(d, h, a)
  <2>1. \A e \in r.cq : e.id \in Handle
    BY <1>0, RingFields DEF Completion
  <2> QED
    BY <1>0, <1>1, <1>6, <2>1 DEF CompletionsOK
<1>11. RequestsOK(d, h, a)
  <2>1. \A s \in Slot : /\ d.req[s].state = "pending" => r.req[s].state = "pending"
                        /\ d.req[s].state = "done" => r.req[s].state = "done" /\ d.req[s] = r.req[s]
    BY <1>2
  <2>2. \A id : Given(d, id) <=> Given(r, id)
    BY <1>1 DEF Given
  <2>3. ASSUME NEW s \in Slot, d.req[s].state = "done", NEW u \in User, h[u] = IdOf(d, s)
        PROVE  a[u] = d.req[s].result /\ a[u] \in Answer
    BY <1>0, <1>5, <2>1, <2>3 DEF RequestsOK
  <2>4. ASSUME NEW s \in Slot, d.req[s].state = "pending"
        PROVE  Given(d, IdOf(d, s)) \/ \E e \in d.sq : e.id = IdOf(d, s)
    BY <1>0, <1>1, <1>5, <2>1, <2>2, <2>4 DEF RequestsOK
  <2> QED
    BY <1>0, <2>3, <2>4 DEF RequestsOK
<1>12. r.free \in Seq(Slot) /\ Len(r.free) \in Nat /\ \A i \in 1 .. Len(r.free) : r.free[i] \in Slot
  BY <1>0, RingFields
<1>13. SlotsOK(d)
  <2>1. \A i \in 1 .. n : r.req[d.free[i]].state = "done"
    <3> TAKE i \in 1 .. n
    <3>1. n - i + 1 \in 1 .. n /\ d.free[i] = ids[n - i + 1].slot
      BY <1>1
    <3> QED
      BY <1>3, <3>1
  <2>2. \A i \in n + 1 .. n + Len(r.free) :
           i - n \in 1 .. Len(r.free) /\ d.free[i] = r.free[i - n] /\ d.free[i] \in Slot
    BY <1>1, <1>12
  <2>3. \A i \in n + 1 .. n + Len(r.free) : r.req[d.free[i]].state = "free"
    <3> TAKE i \in n + 1 .. n + Len(r.free)
    <3>1. i - n \in 1 .. Len(r.free) /\ d.free[i] = r.free[i - n] /\ d.free[i] \in Slot
      BY <2>2
    <3> QED
      BY <1>0, <3>1 DEF SlotsOK
  <2>4. \A i \in 1 .. Len(d.free) : i \in 1 .. n \/ i \in n + 1 .. n + Len(r.free)
    BY <1>1, <1>12
  <2>5. ASSUME NEW i \in 1 .. Len(d.free), NEW j \in 1 .. Len(d.free), d.free[i] = d.free[j]
        PROVE  i = j
    <3>1. CASE i \in 1 .. n /\ j \in 1 .. n
      <4>1. n - i + 1 \in 1 .. n /\ n - j + 1 \in 1 .. n
            /\ ids[n - i + 1].slot = ids[n - j + 1].slot
        BY <1>1, <2>5, <3>1
      <4>2. n - i + 1 = n - j + 1
        BY <1>3, <4>1
      <4> QED
        BY <3>1, <4>2
    <3>2. CASE i \in n + 1 .. n + Len(r.free) /\ j \in n + 1 .. n + Len(r.free)
      <4>1. /\ i - n \in 1 .. Len(r.free) /\ j - n \in 1 .. Len(r.free)
            /\ r.free[i - n] = r.free[j - n]
        BY <2>2, <2>5, <3>2
      <4>2. i - n = j - n
        BY <1>0, <4>1 DEF SlotsOK
      <4> QED
        BY <1>12, <3>2, <4>2
    <3> QED
      BY <2>1, <2>3, <2>4, <2>5, <3>1, <3>2
  <2>8. ASSUME NEW s \in Slot
        PROVE  d.req[s].state = "free" <=> \E i \in 1 .. Len(d.free) : d.free[i] = s
    <3>1. CASE Gone(s)
      <4>1. PICK i \in 1 .. n : ids[i].slot = s
        BY <3>1
      <4>2. /\ n - i + 1 \in 1 .. n /\ n - i + 1 \in 1 .. Len(d.free)
            /\ n - (n - i + 1) + 1 = i
        BY <1>1, <1>12
      <4>3. d.free[n - i + 1] = ids[n - (n - i + 1) + 1].slot
        BY <1>1, <4>2
      <4> QED
        BY <1>2, <3>1, <4>1, <4>2, <4>3
    <3>2. CASE ~Gone(s)
      <4>1. \A i \in 1 .. n : d.free[i] # s
        <5> TAKE i \in 1 .. n
        <5>1. n - i + 1 \in 1 .. n /\ d.free[i] = ids[n - i + 1].slot
          BY <1>1
        <5> QED
          BY <3>2, <5>1
      <4>2. ASSUME NEW j \in 1 .. Len(r.free), r.free[j] = s
            PROVE  \E i \in 1 .. Len(d.free) : d.free[i] = s
        <5>1. /\ n + j \in n + 1 .. n + Len(r.free) /\ (n + j) - n = j
              /\ n + j \in 1 .. Len(d.free)
          BY <1>1, <1>12
        <5> QED
          BY <2>2, <4>2, <5>1
      <4>3. d.req[s].state = "free" <=> \E j \in 1 .. Len(r.free) : r.free[j] = s
        BY <1>0, <1>2, <3>2 DEF SlotsOK
      <4> QED
        BY <2>2, <2>4, <4>1, <4>2, <4>3
    <3> QED
      BY <3>1, <3>2
  <2>6. \A s \in Slot : d.req[s].state = "pending" <=> r.req[s].state = "pending"
    BY <1>2, <1>4
  <2>7. {s \in Slot : d.req[s].state = "pending"} = {s \in Slot : r.req[s].state = "pending"}
    BY <2>6
  <2> QED
    BY <1>0, <1>1, <2>5, <2>7, <2>8 DEF SlotsOK
<1>14. n # 0 => HasFree(d)
  <2>1. n # 0 => Len(d.free) # 0
    BY <1>1, <1>12
  <2> QED
    BY <2>1 DEF HasFree
<1>15. \A id \in Handle : /\ Live(d, id) <=> Live(r, id) /\ \A i \in 1 .. n : ids[i] # id
                          /\ Live(d, id) => d.req[id.slot] = r.req[id.slot]
  BY <1>2, <1>6, <1>7
<1> QED
  BY <1>0, <1>1, <1>8, <1>9, <1>10, <1>11, <1>13, <1>14, <1>15 DEF RingOK

\* No request has the failure value for its handle.
LEMMA NoHandleDead ==
    ASSUME NEW r, NEW h, NEW a, RingOK(r, h, a)
    PROVE  NoHandle \in Handle /\ ~Live(r, NoHandle)
<1>1. NoHandle.slot = 0 /\ NoHandle.gen = 0 /\ 0 \in Slot /\ NoHandle \in Handle
  BY MaxInflightPositive DEF NoHandle, Slot, Handle
<1> QED
  BY <1>1 DEF Live, RingOK, GensOK

\* A request that is done has its user's answer.
LEMMA DoneIsAnswered ==
    ASSUME NEW r, NEW h, NEW a, RingOK(r, h, a), NEW u \in User, Live(r, h[u]), ~Pending(r, h[u])
    PROVE  ResultOf(r, h[u]) = a[u] /\ a[u] \in Answer
<1>1. r \in Ring /\ h[u] \in Handle /\ RequestsOK(r, h, a)
  BY DEF RingOK
<1>2. /\ h[u].slot \in Slot /\ IdOf(r, h[u].slot) = h[u]
      /\ r.req[h[u].slot].state \notin {"free", "pending"}
  BY <1>1, Identified
<1>3. r.req[h[u].slot].state = "done"
  BY <1>1, <1>2, RingFields
<1> QED
  BY <1>1, <1>2, <1>3 DEF RequestsOK, ResultOf

\* Two users with the same live handle are one.
LEMMA HandlesDiffer ==
    ASSUME NEW r, NEW h, NEW a, RingOK(r, h, a), NEW u \in User, NEW v \in User,
           Live(r, h[u]), h[u] = h[v]
    PROVE  u = v
<1>1. r \in Ring /\ h[u] \in Handle /\ GensOK(r, h)
  BY DEF RingOK
<1>2. h[u].slot \in Slot /\ r.req[h[u].slot].state # "free" /\ r.req[h[u].slot].gen = h[u].gen
  BY <1>1, Identified DEF Live
<1> QED
  BY <1>1, <1>2 DEF GensOK

\* fasync_ready and fasync_req_wait are a drain or a send, or nothing.
LEMMA CheckedOK ==
    ASSUME NEW r, NEW h, NEW a, RingOK(r, h, a), NEW id \in Handle
    PROVE  /\ RingOK(Checked(r, id), h, a)
           /\ \A s \in Slot : Checked(r, id).req[s].task = r.req[s].task
           /\ \A i \in Handle : Live(Checked(r, id), i) <=> Live(r, i)
  BY DrainOK DEF Checked

LEMMA AwaitedOK ==
    ASSUME NEW r, NEW h, NEW a, RingOK(r, h, a), NEW id \in Handle
    PROVE  /\ RingOK(Awaited(r, id), h, a)
           /\ \A s \in Slot : Awaited(r, id).req[s].task = r.req[s].task
           /\ \A i \in Handle : Live(Awaited(r, id), i) <=> Live(r, i)
           /\ Pending(Awaited(r, id), id) => Given(Awaited(r, id), id)
<1>1. CASE Pending(r, id)
  <2>1. Awaited(r, id) = Sent(r)
    BY <1>1 DEF Awaited
  <2> QED
    BY <1>1, <2>1, SentOK
<1>2. CASE ~Pending(r, id)
  BY <1>2 DEF Awaited
<1> QED
  BY <1>1, <1>2

\* The kernel answers the user of an entry it has, and nobody else.
Answered(r, e, v) == [r EXCEPT !.kernel = @ \ {e}, !.cq = @ \cup {[id |-> e.id, res |-> v]}]

LEMMA AnsweredOK ==
    ASSUME NEW r, NEW h, NEW a, RingOK(r, h, a), NEW e \in r.kernel, NEW v \in Answer,
           NEW d, d = Answered(r, e, v),
           NEW b, b = Put(a, e.user, v)
    PROVE  /\ RingOK(d, h, b)
           /\ d.req = r.req
           /\ a[e.user] = "none" /\ \A u \in User : u # e.user => b[u] = a[u]
           /\ \A id : Given(r, id) => Given(d, id)
<1> DEFINE c == [id |-> e.id, res |-> v]
<1>0. /\ r \in Ring /\ h \in [User -> Handle] /\ a \in [User -> Answer \cup {"none"}]
      /\ GensOK(r, h) /\ EntriesOK(r, h, a) /\ CompletionsOK(r, h, a)
      /\ RequestsOK(r, h, a) /\ SlotsOK(r)
  BY DEF RingOK
<1>1. /\ e.user \in User /\ e.id \in Handle /\ h[e.user] = e.id /\ Pending(r, e.id) /\ a[e.user] = "none"
  BY <1>0, RingFields DEF EntriesOK, Entry
<1>2. c \in Completion /\ c.id = e.id /\ c.res = v
  BY <1>1 DEF Completion
<1> HIDE DEF c
<1>3. /\ d.req = r.req /\ d.free = r.free /\ d.gen = r.gen /\ d.sq = r.sq /\ d.inflight = r.inflight
      /\ d.kernel = r.kernel \ {e} /\ d.cq = r.cq \cup {c} /\ d \in Ring
  BY <1>0, <1>2 DEF Ring, Answered, c
<1>4. b \in [User -> Answer \cup {"none"}] /\ b[e.user] = v /\ \A u \in User : u # e.user => b[u] = a[u]
  BY <1>0, <1>1 DEF Put
<1>5. /\ \A s \in Slot : IdOf(d, s) = IdOf(r, s)
      /\ \A id : (Live(d, id) <=> Live(r, id)) /\ (Pending(d, id) <=> Pending(r, id))
  BY <1>3 DEF IdOf, Live, Pending
\* Only this user has this handle, and nothing else is in its name.
<1>6. \A u \in User : h[u] = e.id => u = e.user
  BY <1>0, <1>1, HandlesDiffer DEF Pending
<1>7. \A x \in r.sq \cup (r.kernel \ {e}) : x.user \in User /\ x.user # e.user
  <2> SUFFICES ASSUME NEW x \in r.sq \cup r.kernel, x.user = e.user
               PROVE  x = e
    BY <1>0, RingFields DEF EntriesOK, Entry
  <2>1. x \in Entry /\ e \in Entry /\ x.id = e.id
    BY <1>0, RingFields DEF EntriesOK
  <2> QED
    BY <2>1 DEF Entry
<1>8. GensOK(d, h)
  BY <1>0, <1>3, <1>5 DEF GensOK
<1>9. EntriesOK(d, h, b)
  BY <1>0, <1>3, <1>4, <1>5, <1>7 DEF EntriesOK
<1>10. CompletionsOK(d, h, b)
  <2>1. ASSUME NEW x \in r.cq
        PROVE  Pending(d, x.id) /\ \E u \in User : h[u] = x.id /\ b[u] = x.res
    <3>1. PICK u \in User : h[u] = x.id /\ a[u] = x.res
      BY <1>0 DEF CompletionsOK
    <3>2. x.res \in Answer
      BY <1>0, RingFields DEF Completion
    <3>3. u # e.user
      BY <1>1, <3>1, <3>2 DEF Answer
    <3> QED
      BY <1>0, <1>4, <1>5, <3>1, <3>3 DEF CompletionsOK
  <2>2. Pending(d, c.id) /\ h[e.user] = c.id /\ b[e.user] = c.res
    BY <1>1, <1>2, <1>4, <1>5
  <2> QED
    BY <1>1, <1>3, <2>1, <2>2 DEF CompletionsOK
<1>11. \A id : Given(r, id) => Given(d, id)
  BY <1>2, <1>3 DEF Given
<1>12. RequestsOK(d, h, b)
  <2>1. ASSUME NEW s \in Slot, d.req[s].state = "done", NEW u \in User, h[u] = IdOf(d, s)
        PROVE  b[u] = d.req[s].result /\ b[u] \in Answer
    <3>1. a[u] = d.req[s].result /\ a[u] \in Answer
      BY <1>0, <1>3, <1>5, <2>1 DEF RequestsOK
    <3>2. u # e.user
      BY <1>1, <3>1 DEF Answer
    <3> QED
      BY <1>4, <3>1, <3>2
  <2>2. ASSUME NEW s \in Slot, d.req[s].state = "pending"
        PROVE  Given(d, IdOf(d, s)) \/ \E x \in d.sq : x.id = IdOf(d, s)
    BY <1>0, <1>3, <1>5, <1>11, <2>2 DEF RequestsOK
  <2>3. ASSUME NEW u \in User, h[u] = NoHandle
        PROVE  b[u] = "none"
    <3>1. e.id # NoHandle
      BY <1>1, NoHandleDead DEF Pending
    <3> QED
      BY <1>0, <1>1, <1>4, <2>3, <3>1 DEF RequestsOK
  <2> QED
    BY <2>1, <2>2, <2>3 DEF RequestsOK
<1>13. SlotsOK(d)
  BY <1>0, <1>3 DEF SlotsOK
<1> QED
  BY <1>0, <1>1, <1>3, <1>4, <1>8, <1>9, <1>10, <1>11, <1>12, <1>13 DEF RingOK

-----------------------------------------------------------------------------
(* The list of calls in flight *)

LEMMA TailFacts ==
    ASSUME NEW l \in Seq(Call), NEW n \in 0 .. Len(l), NEW m, m = SubSeq(l, n + 1, Len(l))
    PROVE  /\ m \in Seq(Call) /\ Len(m) = Len(l) - n
           /\ \A i \in 1 .. Len(l) - n : m[i] = l[n + i]
  OBVIOUS

LEMMA UnlinkedFacts ==
    ASSUME NEW l \in Seq(Call), Once(l), NEW c, Listed(l, c), NEW m, m = Unlinked(l, c)
    PROVE  m \in Seq(Call) /\ Once(m) /\ \A d : Listed(m, d) <=> Listed(l, d) /\ d # c
<1> DEFINE k == CHOOSE i \in DOMAIN l : l[i] = c
<1>1. Len(l) \in Nat /\ DOMAIN l = 1 .. Len(l) /\ \A i \in 1 .. Len(l) : l[i] \in Call
  OBVIOUS
<1>2. k \in 1 .. Len(l) /\ l[k] = c
  BY <1>1 DEF Listed
<1> DEFINE x == SubSeq(l, 1, k - 1)
           y == SubSeq(l, k + 1, Len(l))
<1>3. m = x \o y
  BY DEF Unlinked
<1> HIDE DEF k
<1>4. x \in Seq(Call) /\ Len(x) = k - 1 /\ \A i \in 1 .. k - 1 : x[i] = l[i]
  BY <1>1, <1>2
<1>5. y \in Seq(Call) /\ Len(y) = Len(l) - k /\ \A i \in 1 .. Len(l) - k : y[i] = l[k + i]
  <2>1. k \in 0 .. Len(l)
    BY <1>2
  <2> QED
    BY <2>1, TailFacts
<1> HIDE DEF x, y
<1>6. m \in Seq(Call) /\ Len(m) = Len(l) - 1
  <2>1. x \in Seq(Call) /\ y \in Seq(Call)
    BY <1>4, <1>5
  <2>2. m \in Seq(Call) /\ Len(m) = Len(x) + Len(y)
    BY <1>3, <2>1
  <2> QED
    BY <1>1, <1>2, <1>4, <1>5, <2>2
<1>7. \A i \in 1 .. k - 1 : m[i] = l[i]
  <2>1. \A i \in 1 .. Len(x) : m[i] = x[i]
    BY <1>3, <1>4, <1>5
  <2> QED
    BY <1>4, <2>1
<1>8. \A i \in k .. Len(l) - 1 : m[i] = l[i + 1]
  <2> TAKE i \in k .. Len(l) - 1
  <2>1. i - (k - 1) \in 1 .. Len(l) - k /\ k + (i - (k - 1)) = i + 1
    BY <1>1, <1>2
  <2>2. \A j \in Len(x) + 1 .. Len(x) + Len(y) : m[j] = y[j - Len(x)]
    BY <1>3, <1>4, <1>5
  <2>3. m[i] = y[i - (k - 1)]
    BY <1>1, <1>2, <1>4, <1>5, <2>2
  <2> QED
    BY <1>5, <2>1, <2>3
<1>9. \A i \in 1 .. Len(l) - 1 : \E j \in 1 .. Len(l) :
         j # k /\ m[i] = l[j] /\ j = (IF i < k THEN i ELSE i + 1)
  BY <1>1, <1>2, <1>7, <1>8
<1>10. \A j \in 1 .. Len(l) : j # k => \E i \in 1 .. Len(l) - 1 : m[i] = l[j]
  <2> TAKE j \in 1 .. Len(l)
  <2>1. CASE j < k
    <3>1. j \in 1 .. k - 1 /\ j \in 1 .. Len(l) - 1
      BY <1>1, <1>2, <2>1
    <3> QED
      BY <1>7, <3>1
  <2>2. CASE j > k
    <3>1. j - 1 \in k .. Len(l) - 1 /\ j - 1 \in 1 .. Len(l) - 1 /\ (j - 1) + 1 = j
      BY <1>1, <1>2, <2>2
    <3> QED
      BY <1>8, <3>1
  <2> QED
    BY <1>1, <1>2, <2>1, <2>2
<1>11. Once(m)
  <2> SUFFICES ASSUME NEW i \in 1 .. Len(l) - 1, NEW j \in 1 .. Len(l) - 1, m[i] = m[j]
               PROVE  i = j
    BY <1>6 DEF Once
  <2>1. PICK p \in 1 .. Len(l) : m[i] = l[p] /\ p = (IF i < k THEN i ELSE i + 1)
    BY <1>9
  <2>2. PICK q \in 1 .. Len(l) : m[j] = l[q] /\ q = (IF j < k THEN j ELSE j + 1)
    BY <1>9
  <2>3. p = q
    BY <2>1, <2>2 DEF Once
  <2> QED
    BY <1>1, <1>2, <2>1, <2>2, <2>3
<1>12. ASSUME NEW d
       PROVE  Listed(m, d) <=> Listed(l, d) /\ d # c
  <2>1. ASSUME NEW i \in 1 .. Len(l) - 1, m[i] = d
        PROVE  Listed(l, d) /\ d # c
    <3>1. PICK j \in 1 .. Len(l) : j # k /\ m[i] = l[j]
      BY <1>9
    <3> QED
      BY <1>2, <2>1, <3>1 DEF Listed, Once
  <2>2. ASSUME NEW j \in 1 .. Len(l), l[j] = d, d # c
        PROVE  Listed(m, d)
    BY <1>2, <1>6, <1>10, <2>2 DEF Listed
  <2> QED
    BY <1>6, <2>1, <2>2 DEF Listed
<1> QED
  BY <1>6, <1>11, <1>12

\* reclaim takes the oldest calls off.
Dropped(l, n, m) == \A d : Listed(m, d) <=> Listed(l, d) /\ \A i \in 1 .. n : l[i] # d

LEMMA DroppedFacts ==
    ASSUME NEW l \in Seq(Call), Once(l), NEW n \in 0 .. Len(l),
           NEW m, m = SubSeq(l, n + 1, Len(l))
    PROVE  m \in Seq(Call) /\ Once(m) /\ Dropped(l, n, m)
<1>1. Len(l) \in Nat /\ n \in Nat /\ n =< Len(l) /\ \A i \in 1 .. Len(l) : l[i] \in Call
  OBVIOUS
<1>2. /\ m \in Seq(Call) /\ Len(m) = Len(l) - n
      /\ \A i \in 1 .. Len(l) - n : m[i] = l[n + i]
  BY TailFacts
<1>3. \A i \in 1 .. Len(l) - n : n + i \in 1 .. Len(l)
  BY <1>1
<1>4. Once(m)
  <2> SUFFICES ASSUME NEW i \in 1 .. Len(l) - n, NEW j \in 1 .. Len(l) - n, m[i] = m[j]
               PROVE  i = j
    BY <1>2 DEF Once
  <2>1. n + i = n + j
    BY <1>2, <1>3 DEF Once
  <2> QED
    BY <1>1, <2>1
<1>5. ASSUME NEW d
      PROVE  Listed(m, d) <=> Listed(l, d) /\ \A i \in 1 .. n : l[i] # d
  <2>1. ASSUME NEW i \in 1 .. Len(l) - n, m[i] = d
        PROVE  Listed(l, d) /\ \A j \in 1 .. n : l[j] # d
    <3>1. n + i \in 1 .. Len(l) /\ l[n + i] = d
      BY <1>2, <1>3, <2>1
    <3>2. ASSUME NEW j \in 1 .. n, l[j] = d
          PROVE  FALSE
      <4>1. j \in 1 .. Len(l) /\ j # n + i
        BY <1>1
      <4> QED
        BY <3>1, <3>2, <4>1 DEF Once
    <3> QED
      BY <3>1, <3>2 DEF Listed
  <2>2. ASSUME NEW j \in 1 .. Len(l), l[j] = d, \A i \in 1 .. n : l[i] # d
        PROVE  Listed(m, d)
    <3>1. j - n \in 1 .. Len(l) - n /\ n + (j - n) = j
      BY <1>1, <2>2
    <3> QED
      BY <1>2, <2>2, <3>1 DEF Listed
  <2> QED
    BY <1>2, <2>1, <2>2 DEF Listed
<1> QED
  BY <1>2, <1>4, <1>5 DEF Dropped

LEMMA AppendedFacts ==
    ASSUME NEW l \in Seq(Call), Once(l), NEW c \in Call, ~Listed(l, c), NEW m, m = Append(l, c)
    PROVE  m \in Seq(Call) /\ Once(m) /\ \A d : Listed(m, d) <=> Listed(l, d) \/ d = c
<1>1. /\ Len(l) \in Nat /\ m \in Seq(Call) /\ Len(m) = Len(l) + 1 /\ m[Len(l) + 1] = c
      /\ \A i \in 1 .. Len(l) : m[i] = l[i]
  OBVIOUS
<1>2. \A i \in 1 .. Len(l) + 1 : i \in 1 .. Len(l) \/ i = Len(l) + 1
  BY <1>1
<1>3. Len(l) + 1 \in 1 .. Len(m) /\ \A i \in 1 .. Len(l) : i \in 1 .. Len(m)
  BY <1>1
<1>4. Once(m)
  BY <1>1, <1>2 DEF Once, Listed
<1> QED
  BY <1>1, <1>2, <1>3, <1>4 DEF Listed

-----------------------------------------------------------------------------
(* Steps of the runtime *)

LEMMA FrameFacts ==
    ASSUME FramesTyped, NEW t \in Thread
    PROVE  /\ pc[t] \in Frame
           /\ pc[t].op \in {"poll", "progress", "finish"} => pc[t].user \in Polled
           /\ pc[t].op = "poll" => pc[t].mode \in Mode
           /\ pc[t].op = "reclaim" => pc[t].user \in Call /\ pc[t].for \in Call
           /\ pc[t].op = "result" => pc[t].user \in User \ Call
           /\ Polled \subseteq User
  BY UserKinds DEF FramesTyped, Frame, Idle, Polled

\* Frames a thread may go to.
LEMMA FrameTypes ==
    /\ Idle \in Frame /\ Idle.op = "idle"
    /\ \A u \in Polled, m \in Mode : [op |-> "poll", user |-> u, mode |-> m] \in Frame
    /\ \A u \in Polled : /\ [op |-> "progress", user |-> u] \in Frame
                         /\ [op |-> "finish", user |-> u] \in Frame
    /\ \A u, c \in Call : [op |-> "reclaim", user |-> u, for |-> c] \in Frame
    /\ \A u \in User \ Call : [op |-> "result", user |-> u] \in Frame
    /\ [op |-> "all"] \in Frame
  BY DEF Frame, Idle

\* What is needed for a thread's frame is trivial for one without the lock.
LEMMA FreeFrame ==
    ASSUME NEW f, f.op \notin Holding
    PROVE  HolderOK(f) /\ WaiterOK(f)
  BY DEF Holding, HolderOK, WaiterOK

\* A step that works on the rings only: every request lives as before.
LEMMA QuietStep ==
    ASSUME UringInv, RingOK(ring', handle, answer),
           \A id \in Handle : Live(ring', id) <=> Live(ring, id),
           \A s \in Slot : ring'.req[s].task = ring.req[s].task,
           UNCHANGED <<profile, answer, handle, task, result, published, list, collected>>,
           finished \subseteq finished'
    PROVE  RingOK(ring, handle, answer)' /\ UsersOK'
<1>1. \A u \in User : handle[u] \in Handle /\ handle[u].slot \in Slot
  BY DEF UringInv, RingOK, Handle
<1>2. \A u \in User : Live(ring', handle[u]) <=> Live(ring, handle[u])
  BY <1>1
<1>3. Ignored' = Ignored
  BY DEF Ignored
<1>4. CallsOK'
  BY <1>2, <1>3, UserKinds DEF UringInv, UsersOK, CallsOK
<1>5. ExplicitOK'
  BY <1>1, <1>2, UserKinds DEF UringInv, UsersOK, ExplicitOK
<1>6. ResultsOK'
  BY <1>3 DEF UringInv, UsersOK, ResultsOK
<1>7. ListOK'
  BY <1>2, UserKinds DEF UringInv, UsersOK, ListOK
<1> QED
  BY <1>4, <1>5, <1>6, <1>7 DEF UsersOK

\* A thread that has the lock, or takes it, goes on to f.
LEMMA LockedStep ==
    ASSUME UringInv, NEW t \in Thread, \A x \in Thread : x # t => pc[x].op \notin Holding,
           NEW f \in Frame, pc' = [pc EXCEPT ![t] = f], HolderOK(f)', WaiterOK(f)'
    PROVE  pc' \in [Thread -> Frame] /\ LockOK' /\ HoldersOK' /\ WaitsForKernel'
<1>1. /\ pc' \in [Thread -> Frame] /\ pc'[t] = f
      /\ \A x \in Thread : x # t => pc'[x] = pc[x] /\ pc'[x].op \notin Holding
  BY DEF UringInv, FramesTyped
<1>2. LockOK'
  BY <1>1 DEF LockOK
<1>3. HoldersOK'
  <2> SUFFICES ASSUME NEW x \in Thread
               PROVE  HolderOK(pc[x])'
    BY DEF HoldersOK
  <2>1. CASE x = t
    BY <1>1, <2>1 DEF HolderOK
  <2>2. CASE x # t
    <3>1. pc'[x].op \notin Holding
      BY <1>1, <2>2
    <3> QED
      BY <3>1 DEF HolderOK, Holding
  <2> QED
    BY <2>1, <2>2
<1>4. WaitsForKernel'
  <2> SUFFICES ASSUME NEW x \in Thread
               PROVE  WaiterOK(pc[x])'
    BY DEF WaitsForKernel, WaiterOK
  <2>1. CASE x = t
    BY <1>1, <2>1 DEF WaiterOK
  <2>2. CASE x # t
    <3>1. pc'[x].op \notin Holding
      BY <1>1, <2>2
    <3> QED
      BY <3>1 DEF WaiterOK, Holding
  <2> QED
    BY <2>1, <2>2
<1> QED
  BY <1>1, <1>2, <1>3, <1>4

LEMMA IdleStep ==
    ASSUME UringInv, NEW t \in Thread, \A x \in Thread : x # t => pc[x].op \notin Holding,
           pc' = [pc EXCEPT ![t] = Idle]
    PROVE  pc' \in [Thread -> Frame] /\ LockOK' /\ HoldersOK' /\ WaitsForKernel'
<1>1. PICK f \in Frame : f = Idle /\ f.op = "idle"
  BY FrameTypes
<1>2. HolderOK(f)' /\ WaiterOK(f)'
  BY <1>1 DEF HolderOK, WaiterOK
<1> QED
  BY <1>1, <1>2, LockedStep

LEMMA OutsideStep ==
    ASSUME UringInv, LockFree, UNCHANGED pc
    PROVE  pc' \in [Thread -> Frame] /\ LockOK' /\ HoldersOK' /\ WaitsForKernel'
<1>1. \A t \in Thread : pc'[t].op \notin Holding
  BY DEF LockFree
<1>2. HoldersOK'
  BY <1>1 DEF HoldersOK, HolderOK, Holding
<1>3. WaitsForKernel'
  BY <1>1 DEF WaitsForKernel, Holding
<1> QED
  BY <1>1, <1>2, <1>3 DEF UringInv, FramesTyped, LockOK

LEMMA HandleTypes ==
    ASSUME UringInv
    PROVE  /\ \A u \in User : handle[u] \in Handle
           /\ Call \subseteq User /\ Read \subseteq User /\ Polled \subseteq User
           /\ RingOK(ring, handle, answer)
  BY UserKinds DEF UringInv, RingOK, Polled

LEMMA SubmitAllInv ==
    ASSUME UringInv, UNCHANGED profile, NEW t \in Thread, SubmitAll(t)
    PROVE  UringInv'
<1>1. /\ LockFree /\ ring' = Sent(ring) /\ UNCHANGED <<answer, pc, callVars>>
  BY DEF SubmitAll, Enters
<1>2. RingOK(ring, handle, answer)' /\ UsersOK'
  BY <1>1, QuietStep, SentOK, HandleTypes DEF callVars
<1> QED
  BY <1>1, <1>2, OutsideStep DEF UringInv, FramesTyped, callVars

LEMMA IsReadyInv ==
    ASSUME UringInv, UNCHANGED profile, NEW t \in Thread, NEW u \in User, IsReady(t, u)
    PROVE  UringInv'
<1>1. /\ LockFree /\ ring' = Checked(ring, handle[u]) /\ UNCHANGED <<answer, pc, callVars>>
  BY DEF IsReady, Enters
<1>2. RingOK(ring, handle, answer)' /\ UsersOK'
  BY <1>1, QuietStep, CheckedOK, HandleTypes DEF callVars
<1> QED
  BY <1>1, <1>2, OutsideStep DEF UringInv, FramesTyped, callVars

LEMMA ResultCalledInv ==
    ASSUME UringInv, UNCHANGED profile, NEW t \in Thread, NEW u \in User, ResultCalled(t, u)
    PROVE  UringInv'
<1>1. /\ LockFree /\ ring' = Awaited(ring, handle[u]) /\ UNCHANGED <<answer, callVars>>
      /\ pc' = [pc EXCEPT ![t] = [op |-> "result", user |-> u]] /\ u \notin Call
      /\ Live(ring, handle[u])
  BY DEF ResultCalled, Enters, Goes
<1>2. /\ RingOK(ring', handle, answer) /\ \A id \in Handle : Live(ring', id) <=> Live(ring, id)
      /\ \A s \in Slot : ring'.req[s].task = ring.req[s].task
      /\ Pending(ring', handle[u]) => Given(ring', handle[u])
  BY <1>1, AwaitedOK, HandleTypes
<1>3. RingOK(ring, handle, answer)' /\ UsersOK'
  BY <1>1, <1>2, QuietStep DEF callVars
<1>4. PICK f \in Frame : f = [op |-> "result", user |-> u]
  BY <1>1, FrameTypes
<1>5. HolderOK(f)' /\ WaiterOK(f)'
  BY <1>1, <1>2, <1>4, HandleTypes DEF HolderOK, WaiterOK, callVars
<1>6. pc' \in [Thread -> Frame] /\ LockOK' /\ HoldersOK' /\ WaitsForKernel'
  BY <1>1, <1>4, <1>5, LockedStep DEF LockFree
<1> QED
  BY <1>1, <1>3, <1>6 DEF UringInv, FramesTyped, callVars

LEMMA WaitAllCalledInv ==
    ASSUME UringInv, UNCHANGED profile, NEW t \in Thread, WaitAllCalled(t)
    PROVE  UringInv'
<1>1. /\ LockFree /\ ring' = Sent(ring) /\ UNCHANGED <<answer, callVars>>
      /\ pc' = [pc EXCEPT ![t] = [op |-> "all"]]
  BY DEF WaitAllCalled, Enters, Goes
<1>2. RingOK(ring, handle, answer)' /\ UsersOK'
  BY <1>1, QuietStep, SentOK, HandleTypes DEF callVars
<1>3. PICK f \in Frame : f = [op |-> "all"]
  BY FrameTypes
<1>4. \A s \in Slot : ring'.req[s].state = "pending" => Given(ring', IdOf(ring', s))
  BY <1>1, SentOK, HandleTypes
<1>5. HolderOK(f)' /\ WaiterOK(f)'
  BY <1>3, <1>4 DEF HolderOK, WaiterOK
<1>6. pc' \in [Thread -> Frame] /\ LockOK' /\ HoldersOK' /\ WaitsForKernel'
  BY <1>1, <1>3, <1>5, LockedStep DEF LockFree
<1> QED
  BY <1>1, <1>2, <1>6 DEF UringInv, FramesTyped, callVars

LEMMA WaitAllReturnsInv ==
    ASSUME UringInv, UNCHANGED profile, NEW t \in Thread, WaitAllReturns(t)
    PROVE  UringInv'
<1>1. /\ UNCHANGED <<ring, answer, callVars>> /\ pc' = [pc EXCEPT ![t] = Idle]
      /\ pc[t].op \in Holding
  BY DEF WaitAllReturns, Goes, Holding
<1>2. RingOK(ring, handle, answer)' /\ UsersOK'
  BY <1>1, QuietStep, HandleTypes DEF callVars
<1>3. pc' \in [Thread -> Frame] /\ LockOK' /\ HoldersOK' /\ WaitsForKernel'
  BY <1>1, IdleStep DEF UringInv, LockOK
<1> QED
  BY <1>1, <1>2, <1>3 DEF UringInv, FramesTyped, callVars

LEMMA WaitDrainsInv ==
    ASSUME UringInv, UNCHANGED profile, NEW t \in Thread, WaitDrains(t)
    PROVE  UringInv'
<1>1. /\ ring' = Drain(ring) /\ UNCHANGED <<answer, pc, callVars>> /\ pc[t].op \in Holding
  BY DEF WaitDrains, Holding
<1>2. /\ RingOK(ring', handle, answer) /\ \A id \in Handle : Live(ring', id) <=> Live(ring, id)
      /\ \A id \in Handle : Pending(ring', id) => Pending(ring, id)
      /\ \A s \in Slot : /\ ring'.req[s].task = ring.req[s].task
                         /\ ring'.req[s].state = "pending" => ring.req[s].state = "pending"
                         /\ IdOf(ring', s) = IdOf(ring, s)
      /\ \A s \in Slot : ring'.req[s].state = "pending" /\ Given(ring, IdOf(ring, s))
                            => Given(ring', IdOf(ring, s))
  BY <1>1, DrainOK, HandleTypes
<1>3. RingOK(ring, handle, answer)' /\ UsersOK'
  BY <1>1, <1>2, QuietStep DEF callVars
<1>4. PICK f \in Frame : f = pc[t]
  BY FrameFacts DEF UringInv
<1>5. HolderOK(f) /\ WaiterOK(f)
  BY <1>4 DEF UringInv, HoldersOK, WaitsForKernel, WaiterOK
<1>6. f.op \in {"progress", "finish", "reclaim", "result"} => f.user \in User
  BY <1>4, FrameFacts, HandleTypes DEF UringInv
<1>7. HolderOK(f)'
  <2>1. Ignored' = Ignored
    BY DEF Ignored
  <2> QED
    BY <1>1, <1>2, <1>5, <1>6, <2>1, HandleTypes DEF HolderOK, callVars
<1>8. WaiterOK(f)'
  <2>1. ASSUME f.op \in {"finish", "reclaim", "result"}, Pending(ring', handle[f.user])
        PROVE  Given(ring', handle[f.user])
    <3> DEFINE id == handle[f.user]
    <3>1. id \in Handle /\ ring \in Ring /\ ring' \in Ring
      BY <1>2, <1>6, <2>1, HandleTypes DEF RingOK
    <3>2. Pending(ring, id) /\ Given(ring, id)
      BY <1>2, <1>5, <2>1, <3>1 DEF WaiterOK
    <3> HIDE DEF id
    <3>3. id.slot \in Slot /\ IdOf(ring, id.slot) = id
      BY <3>1, <3>2, Identified
    <3>4. ring'.req[id.slot].state = "pending"
      BY <2>1 DEF Pending, id
    <3>5. Given(ring', id)
      BY <1>2, <3>2, <3>3, <3>4
    <3> QED
      BY <3>5 DEF id
  <2>2. ASSUME f.op = "all", NEW s \in Slot, ring'.req[s].state = "pending"
        PROVE  Given(ring', IdOf(ring', s))
    BY <1>2, <1>5, <2>2 DEF WaiterOK
  <2> QED
    BY <1>1, <2>1, <2>2 DEF WaiterOK, callVars
<1>9. pc' = [pc EXCEPT ![t] = f]
  BY <1>1, <1>4 DEF UringInv, FramesTyped
<1>10. pc' \in [Thread -> Frame] /\ LockOK' /\ HoldersOK' /\ WaitsForKernel'
  BY <1>1, <1>7, <1>8, <1>9, LockedStep DEF UringInv, LockOK
<1> QED
  BY <1>1, <1>3, <1>10 DEF UringInv, FramesTyped, callVars

-----------------------------------------------------------------------------
(* Polls *)

LEMMA PollCalledInv ==
    ASSUME UringInv, UNCHANGED profile, NEW t \in Thread, NEW u \in Polled, NEW m \in Mode,
           PollCalled(t, u, m)
    PROVE  UringInv'
<1>1. /\ pc[t] = Idle /\ UNCHANGED <<ring, answer, callVars>>
      /\ pc' = [pc EXCEPT ![t] = [op |-> "poll", user |-> u, mode |-> m]]
  BY DEF PollCalled, Goes
<1>2. RingOK(ring, handle, answer)' /\ UsersOK'
  BY <1>1, QuietStep, HandleTypes DEF callVars
<1>3. PICK f \in Frame : f = [op |-> "poll", user |-> u, mode |-> m] /\ f.op = "poll"
  BY FrameTypes
<1>4. /\ pc' \in [Thread -> Frame] /\ pc'[t] = f
      /\ \A x \in Thread : x # t => pc'[x] = pc[x]
      /\ \A x \in Thread : pc'[x].op \in Holding => pc'[x] = pc[x]
  BY <1>1, <1>3 DEF UringInv, FramesTyped, Holding
<1>5. LockOK'
  BY <1>4 DEF UringInv, LockOK
<1>6. HoldersOK'
  <2> SUFFICES ASSUME NEW x \in Thread
               PROVE  HolderOK(pc[x])'
    BY DEF HoldersOK
  <2>1. Ignored' = Ignored
    BY DEF Ignored
  <2>2. CASE pc'[x].op \in Holding
    <3>1. HolderOK(pc[x]) /\ pc'[x] = pc[x]
      BY <1>4, <2>2 DEF UringInv, HoldersOK
    <3> QED
      BY <1>1, <2>1, <3>1 DEF HolderOK, callVars
  <2>3. CASE pc'[x].op \notin Holding
    BY <2>3 DEF HolderOK, Holding
  <2> QED
    BY <2>2, <2>3
<1>7. WaitsForKernel'
  <2> SUFFICES ASSUME NEW x \in Thread
               PROVE  WaiterOK(pc[x])'
    BY DEF WaitsForKernel, WaiterOK
  <2>1. CASE pc'[x].op \in Holding
    <3>1. WaiterOK(pc[x]) /\ pc'[x] = pc[x]
      BY <1>4, <2>1 DEF UringInv, WaitsForKernel, WaiterOK
    <3> QED
      BY <1>1, <3>1 DEF WaiterOK, callVars
  <2>2. CASE pc'[x].op \notin Holding
    BY <2>2 DEF WaiterOK, Holding
  <2> QED
    BY <2>1, <2>2
<1> QED
  BY <1>1, <1>2, <1>4, <1>5, <1>6, <1>7 DEF UringInv, FramesTyped, callVars

\* A request a poll looks at: a call's is live until the call is finished.
LEMMA PollRequestInv ==
    ASSUME UringInv, UNCHANGED profile, NEW t \in Thread, LockFree, NEW u \in Polled,
           u \in published \ finished, u \notin Ignored, NEW m, PollRequest(t, u, m),
           UNCHANGED <<answer, handle, task, result, published, list, collected>>
    PROVE  UringInv'
<1> DEFINE r == Checked(ring, handle[u])
<1>1. u \in User /\ handle[u] \in Handle /\ RingOK(ring, handle, answer)
  BY HandleTypes
<1>2. /\ RingOK(r, handle, answer) /\ \A s \in Slot : r.req[s].task = ring.req[s].task
      /\ \A i \in Handle : Live(r, i) <=> Live(ring, i)
  BY <1>1, CheckedOK
<1>3. u \in Call => Live(ring, handle[u])
  BY DEF UringInv, UsersOK, CallsOK
<1>4. Ignored' = Ignored
  BY DEF Ignored
<1> HIDE DEF r
<1>5. CASE /\ Ready(r, handle[u]) \/ m = "BLOCK"
           /\ ring' = IF Ready(r, handle[u]) THEN r ELSE Awaited(Sent(r), handle[u])
           /\ finished' = finished \cup {u}
           /\ pc' = [pc EXCEPT ![t] = [op |-> "finish", user |-> u]]
  <2>1. /\ RingOK(ring', handle, answer) /\ \A s \in Slot : ring'.req[s].task = ring.req[s].task
        /\ \A i \in Handle : Live(ring', i) <=> Live(ring, i)
        /\ Pending(ring', handle[u]) => Given(ring', handle[u])
    <3>1. CASE Ready(r, handle[u])
      BY <1>2, <1>5, <3>1 DEF Ready
    <3>2. CASE ~Ready(r, handle[u])
      <4> DEFINE q == Sent(r)
      <4>1. /\ RingOK(q, handle, answer) /\ q.req = r.req
            /\ \A i \in Handle : Live(q, i) <=> Live(r, i)
        BY <1>2, SentOK
      <4>2. ring' = Awaited(q, handle[u])
        BY <1>5, <3>2
      <4> HIDE DEF q
      <4> QED
        BY <1>1, <1>2, <4>1, <4>2, AwaitedOK
    <3> QED
      BY <3>1, <3>2
  <2>2. RingOK(ring, handle, answer)' /\ UsersOK'
    BY <1>5, <2>1, QuietStep
  <2>3. PICK f \in Frame : f = [op |-> "finish", user |-> u]
    BY FrameTypes
  <2>4. f.op = "finish" /\ f.user = u
    BY <2>3
  <2>5. HolderOK(f)' /\ WaiterOK(f)'
    BY <1>1, <1>3, <1>4, <1>5, <2>1, <2>4 DEF HolderOK, WaiterOK
  <2>6. pc' \in [Thread -> Frame] /\ LockOK' /\ HoldersOK' /\ WaitsForKernel'
    BY <1>5, <2>3, <2>5, LockedStep DEF LockFree
  <2> QED
    BY <1>5, <2>2, <2>6 DEF UringInv, FramesTyped
<1>6. CASE /\ ring' = Sent(r) /\ UNCHANGED finished
           /\ pc' = [pc EXCEPT ![t] = [op |-> "progress", user |-> u]]
  <2>1. /\ RingOK(ring', handle, answer) /\ \A s \in Slot : ring'.req[s].task = ring.req[s].task
        /\ \A i \in Handle : Live(ring', i) <=> Live(ring, i)
    BY <1>2, <1>6, SentOK
  <2>2. RingOK(ring, handle, answer)' /\ UsersOK'
    BY <1>6, <2>1, QuietStep
  <2>3. PICK f \in Frame : f = [op |-> "progress", user |-> u]
    BY FrameTypes
  <2>4. f.op = "progress" /\ f.user = u
    BY <2>3
  <2>5. HolderOK(f)' /\ WaiterOK(f)'
    BY <1>1, <1>3, <1>4, <1>6, <2>1, <2>4 DEF HolderOK, WaiterOK
  <2>6. pc' \in [Thread -> Frame] /\ LockOK' /\ HoldersOK' /\ WaitsForKernel'
    BY <1>6, <2>3, <2>5, LockedStep DEF LockFree
  <2> QED
    BY <1>6, <2>2, <2>6 DEF UringInv, FramesTyped
<1>7. CASE ring' = r /\ UNCHANGED finished /\ pc' = [pc EXCEPT ![t] = Idle]
  <2>1. RingOK(ring, handle, answer)' /\ UsersOK'
    BY <1>2, <1>7, QuietStep
  <2>2. pc' \in [Thread -> Frame] /\ LockOK' /\ HoldersOK' /\ WaitsForKernel'
    BY <1>7, IdleStep DEF LockFree
  <2> QED
    BY <1>7, <2>1, <2>2 DEF UringInv, FramesTyped
<1> QED
  BY <1>5, <1>6, <1>7 DEF PollRequest, Goes, r

LEMMA PollInv ==
    ASSUME UringInv, UNCHANGED profile, NEW t \in Thread, Poll(t)
    PROVE  UringInv'
<1>0. PICK u \in Polled : u = pc[t].user
  BY FrameFacts DEF Poll, UringInv
<1>1. LockFree /\ UNCHANGED <<answer, handle, published, list, collected>> /\ u \in User
  BY HandleTypes DEF Poll
<1>2. CASE pc' = [pc EXCEPT ![t] = Idle] /\ UNCHANGED <<ring, task, result, finished>>
  <2>1. RingOK(ring, handle, answer)' /\ UsersOK'
    BY <1>1, <1>2, QuietStep, HandleTypes
  <2>2. pc' \in [Thread -> Frame] /\ LockOK' /\ HoldersOK' /\ WaitsForKernel'
    BY <1>1, <1>2, IdleStep DEF LockFree
  <2> QED
    BY <1>1, <1>2, <2>1, <2>2 DEF UringInv, FramesTyped
<1>3. CASE /\ u \in published \ finished /\ u \in Ignored
           /\ Complete({u}, [v \in User |-> "EOPNOTSUPP"])
           /\ finished' = finished \cup {u} /\ pc' = [pc EXCEPT ![t] = Idle] /\ UNCHANGED ring
  <2>1. /\ task' \in [User -> {"none", "running", "done"}] /\ result' \in [User -> Outcome]
        /\ \A v \in User : v # u => task'[v] = task[v] /\ result'[v] = result[v]
        /\ task[u] # "none" => task'[u] # "none"
    BY <1>1, <1>3 DEF Complete, UringInv, FramesTyped, Outcome
  <2>2. Ignored' = Ignored /\ u \in Call
    BY <1>3 DEF Ignored
  <2>3. handle[u] = NoHandle /\ ~Live(ring, handle[u])
    BY <1>3, <2>2, NoHandleDead DEF UringInv, UsersOK, CallsOK
  <2>4. CallsOK'
    BY <1>1, <1>3, <2>1, <2>2, <2>3, HandleTypes DEF UringInv, UsersOK, CallsOK
  <2>5. ExplicitOK'
    <3>1. u \notin Read
      BY <2>2, UserKinds
    <3> QED
      BY <1>1, <1>3, <2>1, <3>1, HandleTypes DEF UringInv, UsersOK, ExplicitOK
  <2>6. ResultsOK'
    BY <1>1, <1>3, <2>1, <2>2 DEF UringInv, UsersOK, ResultsOK
  <2>7. ListOK'
    BY <1>1, <1>3 DEF UringInv, UsersOK, ListOK
  <2>8. pc' \in [Thread -> Frame] /\ LockOK' /\ HoldersOK' /\ WaitsForKernel'
    BY <1>1, <1>3, IdleStep DEF LockFree
  <2> QED
    BY <1>1, <1>3, <2>1, <2>4, <2>5, <2>6, <2>7, <2>8 DEF UringInv, FramesTyped, UsersOK
<1>4. CASE /\ u \in published \ finished /\ u \notin Ignored
           /\ PollRequest(t, u, pc[t].mode) /\ UNCHANGED <<task, result>>
  <2>1. PICK m : m = pc[t].mode
    OBVIOUS
  <2> QED
    BY <1>1, <1>4, <2>1, PollRequestInv
<1> QED
  BY <1>0, <1>2, <1>3, <1>4 DEF Poll, Goes

LEMMA ProgressLooksInv ==
    ASSUME UringInv, UNCHANGED profile, NEW t \in Thread, ProgressLooks(t)
    PROVE  UringInv'
<1>0. PICK u \in Polled : u = pc[t].user
  BY FrameFacts DEF ProgressLooks, UringInv
<1>1. /\ UNCHANGED <<answer, handle, task, result, published, list, collected>>
      /\ pc[t].op = "progress" /\ pc[t].op \in Holding /\ ring' = Checked(ring, handle[u])
      /\ u \in User /\ handle[u] \in Handle
  BY <1>0, HandleTypes DEF ProgressLooks, Holding
<1>2. HolderOK(pc[t])
  BY DEF UringInv, HoldersOK
<1>3. u \in published \ Ignored /\ (u \in Call => Live(ring, handle[u]))
  BY <1>0, <1>1, <1>2 DEF HolderOK
<1>4. /\ RingOK(ring', handle, answer) /\ \A s \in Slot : ring'.req[s].task = ring.req[s].task
      /\ \A i \in Handle : Live(ring', i) <=> Live(ring, i)
  BY <1>1, CheckedOK, HandleTypes
<1>5. \A x \in Thread : x # t => pc[x].op \notin Holding
  BY <1>1 DEF UringInv, LockOK
<1>6. CASE /\ Ready(ring', handle[u]) /\ finished' = finished \cup {u}
           /\ pc' = [pc EXCEPT ![t] = [op |-> "finish", user |-> u]]
  <2>1. RingOK(ring, handle, answer)' /\ UsersOK'
    BY <1>1, <1>4, <1>6, QuietStep
  <2>2. PICK f \in Frame : f = [op |-> "finish", user |-> u]
    BY FrameTypes
  <2>3. f.op = "finish" /\ f.user = u /\ Ignored' = Ignored
    BY <2>2 DEF Ignored
  <2>4. HolderOK(f)' /\ WaiterOK(f)'
    BY <1>1, <1>3, <1>4, <1>6, <2>3 DEF HolderOK, WaiterOK, Ready
  <2>5. pc' \in [Thread -> Frame] /\ LockOK' /\ HoldersOK' /\ WaitsForKernel'
    BY <1>5, <1>6, <2>2, <2>4, LockedStep
  <2> QED
    BY <1>1, <1>3, <1>6, <2>1, <2>5 DEF UringInv, FramesTyped
<1>7. CASE UNCHANGED finished /\ pc' = [pc EXCEPT ![t] = Idle]
  <2>1. RingOK(ring, handle, answer)' /\ UsersOK'
    BY <1>1, <1>4, <1>7, QuietStep
  <2>2. pc' \in [Thread -> Frame] /\ LockOK' /\ HoldersOK' /\ WaitsForKernel'
    BY <1>5, <1>7, IdleStep
  <2> QED
    BY <1>1, <1>7, <2>1, <2>2 DEF UringInv, FramesTyped
<1> QED
  BY <1>0, <1>1, <1>6, <1>7 DEF ProgressLooks, Goes

-----------------------------------------------------------------------------
(* The kernel, and steps that need no lock *)

LEMMA BeginInv ==
    ASSUME UringInv, UNCHANGED profile, NEW c \in Call, Begin(c)
    PROVE  UringInv'
<1>1. /\ task[c] = "none" /\ task' = [task EXCEPT ![c] = "running"] /\ c \in User
      /\ UNCHANGED <<ring, answer, pc, handle, result, published, finished, list, collected>>
  BY HandleTypes DEF Begin
<1>2. /\ task' \in [User -> {"none", "running", "done"}] /\ task'[c] = "running"
      /\ \A v \in User : v # c => task'[v] = task[v]
  BY <1>1 DEF UringInv, FramesTyped
<1>3. Ignored' = Ignored /\ c \notin published
  BY <1>1 DEF Ignored, UringInv, UsersOK, CallsOK
<1>4. CallsOK'
  BY <1>1, <1>2, <1>3, HandleTypes DEF UringInv, UsersOK, CallsOK
<1>5. ExplicitOK'
  BY <1>1, <1>2, UserKinds DEF UringInv, UsersOK, ExplicitOK
<1>6. ResultsOK'
  BY <1>1, <1>2, <1>3 DEF UringInv, UsersOK, ResultsOK
<1>7. ListOK'
  BY <1>1 DEF UringInv, UsersOK, ListOK
<1>8. HoldersOK'
  <2> SUFFICES ASSUME NEW x \in Thread
               PROVE  HolderOK(pc[x])'
    BY DEF HoldersOK
  <2>1. HolderOK(pc[x]) /\ (pc[x].op = "reclaim" => pc[x].for \in User)
    BY FrameFacts, HandleTypes DEF UringInv, HoldersOK
  <2> QED
    BY <1>1, <1>2, <1>3, <2>1 DEF HolderOK
<1>9. LockOK' /\ WaitsForKernel'
  BY <1>1 DEF UringInv, LockOK, WaitsForKernel
<1> QED
  BY <1>1, <1>2, <1>4, <1>5, <1>6, <1>7, <1>8, <1>9 DEF UringInv, FramesTyped, UsersOK

LEMMA KernelInv ==
    ASSUME UringInv, UNCHANGED profile, NEW u \in User, KernelCompletes(u), UNCHANGED <<pc, callVars>>
    PROVE  UringInv'
<1>1. PICK e \in ring.kernel, v \in Answer :
         e.user = u /\ ring' = Answered(ring, e, v) /\ answer' = Put(answer, e.user, v)
  BY DEF KernelCompletes, Answered, Put
<1>2. /\ RingOK(ring', handle, answer') /\ ring'.req = ring.req
      /\ answer[u] = "none" /\ \A w \in User : w # u => answer'[w] = answer[w]
      /\ \A id : Given(ring, id) => Given(ring', id)
  <2>1. RingOK(ring, handle, answer)
    BY HandleTypes
  <2>2. RingOK(ring', handle, answer')
    BY <1>1, <2>1, AnsweredOK
  <2>3. ring'.req = ring.req /\ answer[u] = "none"
    BY <1>1, <2>1, AnsweredOK
  <2>4. \A w \in User : w # u => answer'[w] = answer[w]
    BY <1>1, <2>1, AnsweredOK
  <2>5. \A id : Given(ring, id) => Given(ring', id)
    BY <1>1, <2>1, AnsweredOK
  <2> QED
    BY <2>2, <2>3, <2>4, <2>5
<1>3. /\ \A id : (Live(ring', id) <=> Live(ring, id)) /\ (Pending(ring', id) <=> Pending(ring, id))
      /\ \A s : IdOf(ring', s) = IdOf(ring, s)
  BY <1>2 DEF Live, Pending, IdOf
<1>4. Ignored' = Ignored
  BY DEF Ignored
<1>5. CallsOK'
  BY <1>3, <1>4 DEF UringInv, UsersOK, CallsOK, callVars
<1>6. ExplicitOK'
  BY <1>2, <1>3 DEF UringInv, UsersOK, ExplicitOK, callVars
<1>7. ResultsOK'
  <2>1. "none" \notin Answer
    BY DEF Answer
  <2>2. ResultsOK
    BY DEF UringInv, UsersOK
  <2> QED
    BY <1>2, <1>4, <2>1, <2>2 DEF ResultsOK, callVars
<1>8. ListOK'
  BY <1>3 DEF UringInv, UsersOK, ListOK, callVars
<1>9. HoldersOK'
  BY <1>3, <1>4 DEF UringInv, HoldersOK, HolderOK, callVars
<1>10. WaitsForKernel'
  BY <1>2, <1>3 DEF UringInv, WaitsForKernel, callVars
<1>11. LockOK' /\ FramesTyped'
  BY DEF UringInv, LockOK, FramesTyped, callVars
<1> QED
  BY <1>2, <1>5, <1>6, <1>7, <1>8, <1>9, <1>10, <1>11 DEF UringInv, UsersOK, callVars

-----------------------------------------------------------------------------
(* Steps that give a slot or take one *)

LEMMA IssueInv ==
    ASSUME UringInv, UNCHANGED profile, NEW t \in Thread, NEW u \in User, Issue(t, u)
    PROVE  UringInv'
<1> DEFINE k == IF u \in Read THEN u ELSE NoUser
<1>1. /\ LockFree /\ u \notin Call /\ handle[u] = NoHandle /\ HasFree(ring)
      /\ ring' = Pushed(ring, u, k)
      /\ handle' = Put(handle, u, NextHandle(ring))
      /\ task' = [task EXCEPT ![u] = IF u \in Read THEN "running" ELSE @]
      /\ published' = published \cup ({u} \cap Read)
      /\ UNCHANGED <<answer, pc, result, finished, list, collected>>
  BY DEF Issue, Enters, Put
<1>2. k \in User \cup {NoUser}
  OBVIOUS
<1> HIDE DEF k
<1>3. /\ RingOK(ring', handle', answer) /\ Live(ring', handle'[u]) /\ handle'[u] # NoHandle
      /\ ~Live(ring, handle[u]) /\ ring'.req[handle'[u].slot].task = k
      /\ \A v \in User : v # u =>
            /\ handle'[v] = handle[v]
            /\ Live(ring', handle'[v]) <=> Live(ring, handle[v])
            /\ Live(ring, handle[v]) => ring'.req[handle[v].slot] = ring.req[handle[v].slot]
  <2>0. RingOK(ring, handle, answer)
    BY HandleTypes
  <2>1. RingOK(ring', handle', answer)
    BY <1>1, <1>2, <2>0, PushedOK
  <2>3. Live(ring', handle'[u]) /\ handle'[u] # NoHandle /\ ~Live(ring, handle[u])
    BY <1>1, <1>2, <2>0, PushedOK
  <2>4. ring'.req[handle'[u].slot].task = k
    BY <1>1, <1>2, <2>0, PushedOK
  <2>2. \A v \in User : v # u =>
           /\ handle'[v] = handle[v]
           /\ Live(ring', handle'[v]) <=> Live(ring, handle[v])
           /\ Live(ring, handle[v]) => ring'.req[handle[v].slot] = ring.req[handle[v].slot]
    BY <1>1, <1>2, PushedOK, HandleTypes
  <2> QED
    BY <2>1, <2>2, <2>3, <2>4
<1>4. /\ task' \in [User -> {"none", "running", "done"}]
      /\ u \in Read => task'[u] = "running"
      /\ u \notin Read => task' = task
      /\ \A v \in User : v # u => task'[v] = task[v]
  BY <1>1 DEF UringInv, FramesTyped
<1>5. Ignored' = Ignored /\ u \notin published
  BY <1>1 DEF Ignored, UringInv, UsersOK, ExplicitOK
<1>6. /\ published' \subseteq User
      /\ \A v \in User : v # u => (v \in published' <=> v \in published)
      /\ u \in published' <=> u \in Read
  BY <1>1, <1>5 DEF UringInv, FramesTyped
<1>7. CallsOK'
  <2> SUFFICES ASSUME NEW c \in Call
               PROVE  (/\ c \notin published => handle[c] = NoHandle
                       /\ c \in published /\ c \in Ignored => handle[c] = NoHandle
                       /\ c \in published => task[c] # "none"
                       /\ Live(ring, handle[c]) => task[c] = "running"
                       /\ c \in published \ Ignored /\ ~Live(ring, handle[c]) =>
                             c \in finished /\ task[c] = "done")'
    BY DEF CallsOK
  <2>1. c \in User /\ c # u
    BY <1>1, HandleTypes
  <2> QED
    BY <1>1, <1>3, <1>4, <1>5, <1>6, <2>1 DEF UringInv, UsersOK, CallsOK
<1>8. ExplicitOK'
  <2>1. \A v \in User \ Call : v \in published' <=> v \in Read /\ handle'[v] # NoHandle
    BY <1>3, <1>6 DEF UringInv, UsersOK, ExplicitOK
  <2>2. \A v \in Read : v \in published' =>
           task'[v] # "none" /\ (~Live(ring', handle'[v]) => task'[v] = "done")
    BY <1>3, <1>4, <1>6, HandleTypes DEF UringInv, UsersOK, ExplicitOK
  <2>3. \A v \in User : Live(ring', handle'[v]) =>
           ring'.req[handle'[v].slot].task = (IF v \in Read THEN v ELSE NoUser)
    BY <1>3 DEF UringInv, UsersOK, ExplicitOK, k
  <2> QED
    BY <2>1, <2>2, <2>3 DEF ExplicitOK
<1>9. ResultsOK'
  BY <1>1, <1>4, <1>5, <1>6 DEF UringInv, UsersOK, ResultsOK
<1>10. ListOK'
  BY <1>1, <1>3, HandleTypes DEF UringInv, UsersOK, ListOK
<1>11. LockOK' /\ HoldersOK' /\ WaitsForKernel'
  BY <1>1, OutsideStep
<1>12. FramesTyped'
  BY <1>1, <1>4, <1>6 DEF UringInv, FramesTyped
<1> QED
  BY <1>1, <1>3, <1>7, <1>8, <1>9, <1>10, <1>11, <1>12 DEF UringInv, UsersOK

LEMMA ReleasedOne ==
    ASSUME NEW r, NEW h, NEW a, RingOK(r, h, a), NEW u \in User, Live(r, h[u]), ~Pending(r, h[u]),
           NEW d, d = Released(r, <<h[u]>>)
    PROVE  /\ RingOK(d, h, a) /\ HasFree(d)
           /\ \A v \in User : Live(d, h[v]) <=> Live(r, h[v]) /\ v # u
           /\ \A v \in User : Live(d, h[v]) => d.req[h[v].slot] = r.req[h[v].slot]
<1> DEFINE ids == <<h[u]>>
<1>1. \A v \in User : h[v] \in Handle
  BY DEF RingOK
<1>2. ids \in Handles(1) /\ ids[1] = h[u]
  BY <1>1 DEF Handles
<1>3. \A i \in 1 .. 1 : i = 1
  OBVIOUS
<1> HIDE DEF ids
<1>4. /\ \A i \in 1 .. 1 : Live(r, ids[i]) /\ ~Pending(r, ids[i])
      /\ \A i, j \in 1 .. 1 : ids[i] = ids[j] => i = j
      /\ d = Released(r, ids)
  BY <1>2, <1>3 DEF ids
<1>5. RingOK(d, h, a) /\ HasFree(d)
  BY <1>2, <1>4, ReleasedOK
<1>6. \A id \in Handle : Live(d, id) <=> Live(r, id) /\ \A i \in 1 .. 1 : ids[i] # id
  BY <1>2, <1>4, ReleasedOK
<1>7. \A id \in Handle : Live(d, id) => d.req[id.slot] = r.req[id.slot]
  BY <1>2, <1>4, ReleasedOK
<1>8. \A v \in User : Live(r, h[v]) => (h[v] = h[u] <=> v = u)
  BY HandlesDiffer
<1> QED
  BY <1>1, <1>2, <1>3, <1>5, <1>6, <1>7, <1>8

LEMMA FinishReadInv ==
    ASSUME UringInv, UNCHANGED profile, NEW t \in Thread, FinishRead(t)
    PROVE  UringInv'
<1>0. PICK u \in Read : u = pc[t].user
  BY DEF FinishRead
<1> DEFINE v == IF Live(ring, handle[u]) THEN ResultOf(ring, handle[u]) ELSE "EINVAL"
<1>1. /\ ~Pending(ring, handle[u]) /\ Complete({u}, [w \in User |-> v])
      /\ pc' = [pc EXCEPT ![t] = Idle] /\ pc[t].op = "finish" /\ pc[t].op \in Holding /\ u \in User
      /\ UNCHANGED <<ring, answer, handle, published, finished, list, collected>>
  BY <1>0, HandleTypes DEF FinishRead, Goes, Holding
<1>2. HolderOK(pc[t])
  BY DEF UringInv, HoldersOK
<1>3. u \in published
  BY <1>0, <1>1, <1>2 DEF HolderOK, UringInv, FramesTyped
\* A read that runs still has its request.
<1>4. task[u] = "running" => v = answer[u] /\ answer[u] \in Answer
  <2>1. task[u] = "running" => Live(ring, handle[u])
    BY <1>3 DEF UringInv, UsersOK, ExplicitOK
  <2> QED
    BY <1>1, <2>1, DoneIsAnswered, HandleTypes
<1> HIDE DEF v
<1>5. /\ \A w \in User : w # u => task'[w] = task[w] /\ result'[w] = result[w]
      /\ task[u] = "running" => task'[u] = "done" /\ result'[u] = v
      /\ task[u] # "running" => task'[u] = task[u] /\ result'[u] = result[u]
      /\ task' \in [User -> {"none", "running", "done"}]
  BY <1>1 DEF Complete, UringInv, FramesTyped
<1>6. result' \in [User -> Outcome]
  <2>1. \A w \in User : result'[w] \in Outcome
    BY <1>4, <1>5 DEF UringInv, FramesTyped, Outcome
  <2>2. result' = [w \in User |-> result'[w]]
    BY <1>1 DEF Complete
  <2> QED
    BY <2>1, <2>2
<1>7. Ignored' = Ignored /\ u \notin Call
  BY UserKinds DEF Ignored
<1>8. CallsOK'
  BY <1>1, <1>5, <1>7, HandleTypes DEF UringInv, UsersOK, CallsOK
<1>9. ExplicitOK'
  BY <1>1, <1>5, HandleTypes DEF UringInv, UsersOK, ExplicitOK
<1>10. ResultsOK'
  BY <1>1, <1>4, <1>5, <1>7 DEF UringInv, UsersOK, ResultsOK
<1>11. ListOK'
  BY <1>1 DEF UringInv, UsersOK, ListOK
<1>12. pc' \in [Thread -> Frame] /\ LockOK' /\ HoldersOK' /\ WaitsForKernel'
  BY <1>1, IdleStep DEF UringInv, LockOK
<1> QED
  BY <1>1, <1>5, <1>6, <1>8, <1>9, <1>10, <1>11, <1>12 DEF UringInv, FramesTyped, UsersOK

LEMMA ResultReturnsInv ==
    ASSUME UringInv, UNCHANGED profile, NEW t \in Thread, ResultReturns(t)
    PROVE  UringInv'
<1>0. PICK u \in User \ Call : u = pc[t].user
  BY FrameFacts DEF ResultReturns, UringInv
<1> DEFINE owner == ring.req[handle[u].slot].task
           v == ResultOf(ring, handle[u])
<1>1. /\ ~Pending(ring, handle[u]) /\ Complete({owner} \cap User, [w \in User |-> v])
      /\ ring' = Released(ring, <<handle[u]>>)
      /\ collected' = [collected EXCEPT ![u] = v]
      /\ pc' = [pc EXCEPT ![t] = Idle] /\ pc[t].op = "result" /\ pc[t].op \in Holding
      /\ UNCHANGED <<answer, handle, published, finished, list>>
  BY <1>0 DEF ResultReturns, Goes, Holding
<1>2. Live(ring, handle[u])
  <2>1. HolderOK(pc[t])
    BY DEF UringInv, HoldersOK
  <2> QED
    BY <1>0, <1>1, <2>1 DEF HolderOK
<1>3. v = answer[u] /\ answer[u] \in Answer
  BY <1>1, <1>2, DoneIsAnswered, HandleTypes
<1>4. {owner} \cap User = {u} \cap Read
  <2>1. owner = (IF u \in Read THEN u ELSE NoUser)
    BY <1>2 DEF UringInv, UsersOK, ExplicitOK
  <2> QED
    BY <2>1, NoUserIsNot
<1>5. /\ RingOK(ring', handle, answer)
      /\ \A w \in User : Live(ring', handle[w]) <=> Live(ring, handle[w]) /\ w # u
      /\ \A w \in User : Live(ring', handle[w]) => ring'.req[handle[w].slot] = ring.req[handle[w].slot]
  BY <1>1, <1>2, ReleasedOne, HandleTypes
<1> HIDE DEF v, owner
<1>6. /\ \A w \in User : w # u => task'[w] = task[w] /\ result'[w] = result[w]
      /\ u \in Read /\ task[u] = "running" => task'[u] = "done" /\ result'[u] = v
      /\ u \notin Read \/ task[u] # "running" => task'[u] = task[u] /\ result'[u] = result[u]
      /\ task' \in [User -> {"none", "running", "done"}]
      /\ result' = [w \in User |-> result'[w]]
  BY <1>1, <1>4 DEF Complete, UringInv, FramesTyped
<1>7. result' \in [User -> Outcome]
  <2>1. \A w \in User : result'[w] \in Outcome
    BY <1>3, <1>6 DEF UringInv, FramesTyped, Outcome
  <2> QED
    BY <1>6, <2>1
<1>8. /\ collected' \in [User -> Answer \cup {"none"}] /\ collected'[u] = answer[u]
      /\ \A w \in User : w # u => collected'[w] = collected[w]
  BY <1>1, <1>3 DEF UringInv, FramesTyped
<1>9. Ignored' = Ignored /\ Ignored \subseteq Call
  BY DEF Ignored
<1>10. CallsOK'
  BY <1>1, <1>5, <1>6, <1>9, HandleTypes DEF UringInv, UsersOK, CallsOK
<1>11. ExplicitOK'
  <2>1. u \in Read /\ u \in published => task'[u] = "done"
    <3>1. u \in Read /\ u \in published => task[u] \in {"running", "done"}
      BY DEF UringInv, UsersOK, ExplicitOK, FramesTyped
    <3> QED
      BY <1>6, <3>1
  <2>2. \A w \in Read : w \in published => task'[w] # "none"
    BY <1>6, <2>1, HandleTypes DEF UringInv, UsersOK, ExplicitOK
  <2>3. \A w \in Read : w \in published /\ ~Live(ring', handle[w]) => task'[w] = "done"
    BY <1>5, <1>6, <2>1, HandleTypes DEF UringInv, UsersOK, ExplicitOK
  <2>4. \A w \in User : Live(ring', handle[w]) =>
           ring'.req[handle[w].slot].task = (IF w \in Read THEN w ELSE NoUser)
    BY <1>5 DEF UringInv, UsersOK, ExplicitOK
  <2> QED
    BY <1>1, <2>2, <2>3, <2>4 DEF UringInv, UsersOK, ExplicitOK
<1>12. ResultsOK'
  <2>1. task'[u] = "done" /\ u \in published => result'[u] = answer[u]
    BY <1>0, <1>3, <1>6, <1>9 DEF UringInv, UsersOK, ResultsOK
  <2> QED
    BY <1>1, <1>3, <1>6, <1>8, <1>9, <2>1 DEF UringInv, UsersOK, ResultsOK
<1>13. ListOK'
  BY <1>1, <1>5, HandleTypes DEF UringInv, UsersOK, ListOK
<1>14. pc' \in [Thread -> Frame] /\ LockOK' /\ HoldersOK' /\ WaitsForKernel'
  BY <1>1, IdleStep DEF UringInv, LockOK
<1> QED
  BY <1>1, <1>5, <1>6, <1>7, <1>8, <1>10, <1>11, <1>12, <1>13, <1>14 DEF UringInv, FramesTyped, UsersOK

\* A call with a request runs, is published, and is not op=ignore.
LEMMA LiveCalls ==
    ASSUME UringInv, NEW c \in Call, Live(ring, handle[c])
    PROVE  c \in published /\ c \notin Ignored /\ task[c] = "running" /\ c \in User
<1>1. ~Live(ring, NoHandle)
  BY NoHandleDead, HandleTypes
<1> QED
  BY <1>1, HandleTypes DEF UringInv, UsersOK, CallsOK

LEMMA FinishCallInv ==
    ASSUME UringInv, UNCHANGED profile, NEW t \in Thread, FinishCall(t)
    PROVE  UringInv'
<1>0. PICK c \in Call : c = pc[t].user
  BY DEF FinishCall
<1> DEFINE v == ResultOf(ring, handle[c])
<1>1. /\ ~Pending(ring, handle[c]) /\ Complete({c}, [w \in User |-> v])
      /\ ring' = Released(ring, <<handle[c]>>) /\ list' = Unlinked(list, c)
      /\ pc' = [pc EXCEPT ![t] = Idle] /\ pc[t].op = "finish" /\ pc[t].op \in Holding
      /\ UNCHANGED <<answer, handle, published, finished, collected>>
  BY <1>0 DEF FinishCall, Goes, Holding
<1>2. Live(ring, handle[c]) /\ c \in finished
  <2>1. HolderOK(pc[t])
    BY DEF UringInv, HoldersOK
  <2> QED
    BY <1>0, <1>1, <2>1 DEF HolderOK
<1>3. c \in published /\ c \notin Ignored /\ task[c] = "running" /\ c \in User
  BY <1>2, LiveCalls
<1>4. v = answer[c] /\ answer[c] \in Answer
  BY <1>1, <1>2, <1>3, DoneIsAnswered, HandleTypes
<1>5. /\ RingOK(ring', handle, answer)
      /\ \A w \in User : Live(ring', handle[w]) <=> Live(ring, handle[w]) /\ w # c
      /\ \A w \in User : Live(ring', handle[w]) => ring'.req[handle[w].slot] = ring.req[handle[w].slot]
  BY <1>1, <1>2, <1>3, ReleasedOne, HandleTypes
<1> HIDE DEF v
<1>6. /\ task'[c] = "done" /\ result'[c] = v
      /\ \A w \in User : w # c => task'[w] = task[w] /\ result'[w] = result[w]
      /\ task' \in [User -> {"none", "running", "done"}]
      /\ result' = [w \in User |-> result'[w]]
  BY <1>1, <1>3 DEF Complete, UringInv, FramesTyped
<1>7. result' \in [User -> Outcome]
  <2>1. \A w \in User : result'[w] \in Outcome
    BY <1>4, <1>6 DEF UringInv, FramesTyped, Outcome
  <2> QED
    BY <1>6, <2>1
<1>8. /\ list' \in Seq(Call) /\ Once(list')
      /\ \A d : Listed(list', d) <=> Listed(list, d) /\ d # c
  <2>1. list \in Seq(Call) /\ Once(list) /\ Listed(list, c)
    BY <1>2 DEF UringInv, FramesTyped, UsersOK, ListOK
  <2> QED
    BY <1>1, <2>1, UnlinkedFacts
<1>9. Ignored' = Ignored /\ c \notin Read
  BY UserKinds DEF Ignored
<1>10. CallsOK'
  BY <1>1, <1>2, <1>3, <1>5, <1>6, <1>9, HandleTypes DEF UringInv, UsersOK, CallsOK
<1>11. ExplicitOK'
  <2>1. \A w \in Read : w \in User /\ w # c
    BY <1>9, HandleTypes
  <2> QED
    BY <1>1, <1>5, <1>6, <2>1 DEF UringInv, UsersOK, ExplicitOK
<1>12. ResultsOK'
  BY <1>1, <1>4, <1>6, <1>9 DEF UringInv, UsersOK, ResultsOK
<1>13. ListOK'
  BY <1>1, <1>5, <1>8, HandleTypes DEF UringInv, UsersOK, ListOK
<1>14. pc' \in [Thread -> Frame] /\ LockOK' /\ HoldersOK' /\ WaitsForKernel'
  BY <1>1, IdleStep DEF UringInv, LockOK
<1> QED
  BY <1>1, <1>5, <1>6, <1>7, <1>8, <1>10, <1>11, <1>12, <1>13, <1>14 DEF UringInv, FramesTyped, UsersOK

(* A call takes a slot of r, which is the ring once the calls in gone have *)
(* given theirs back and have been completed.                              *)
LEMMA QueuedStep ==
    ASSUME UringInv, UNCHANGED <<profile, answer, collected>>,
           NEW c \in Call, c \notin published, c \notin Ignored, task[c] = "running",
           NEW r, RingOK(r, handle, answer), HasFree(r),
           NEW l \in Seq(Call), Once(l), NEW gone \in SUBSET Call,
           \A u \in User : Live(r, handle[u]) <=> Live(ring, handle[u]) /\ u \notin gone,
           \A u \in User : Live(r, handle[u]) =>
              r.req[handle[u].slot].task = ring.req[handle[u].slot].task,
           \A d \in Call : Listed(l, d) <=> Live(r, handle[d]),
           \A d \in gone : Live(ring, handle[d]) /\ answer[d] \in Answer,
           Queued(c, r, l),
           finished' = finished \cup gone,
           task' \in [User -> {"none", "running", "done"}], result' \in [User -> Outcome],
           \A u \in User : IF u \in gone THEN task'[u] = "done" /\ result'[u] = answer[u]
                                         ELSE task'[u] = task[u] /\ result'[u] = result[u],
           pc' \in [Thread -> Frame]
    PROVE  RingOK(ring, handle, answer)' /\ UsersOK' /\ FramesTyped'
<1>1. /\ ring' = Pushed(r, c, NoUser) /\ handle' = Put(handle, c, NextHandle(r))
      /\ list' = Append(l, c) /\ published' = published \cup {c}
  BY DEF Queued, Put
<1>2. c \in User /\ handle[c] = NoHandle /\ NoUser \in User \cup {NoUser}
  BY HandleTypes DEF UringInv, UsersOK, CallsOK
<1>3. RingOK(ring', handle', answer)
  BY <1>1, <1>2, PushedOK
<1>4. /\ Live(ring', handle'[c]) /\ handle'[c] # NoHandle /\ ~Live(r, handle[c])
      /\ ring'.req[handle'[c].slot].task = NoUser
  BY <1>1, <1>2, PushedOK
<1>5. \A u \in User : u # c =>
         /\ handle'[u] = handle[u]
         /\ Live(ring', handle'[u]) <=> Live(r, handle[u])
         /\ Live(r, handle[u]) => ring'.req[handle[u].slot] = r.req[handle[u].slot]
  BY <1>1, <1>2, PushedOK
<1>6. \A u \in User : u # c =>
         /\ Live(ring', handle'[u]) <=> Live(ring, handle[u]) /\ u \notin gone
         /\ Live(ring', handle'[u]) =>
               ring'.req[handle'[u].slot].task = ring.req[handle[u].slot].task
  BY <1>5
<1>7. Ignored' = Ignored /\ c \notin gone
  <2>1. ~Live(ring, handle[c])
    BY <1>2, NoHandleDead, HandleTypes
  <2> QED
    BY <2>1 DEF Ignored
<1>8. \A d \in gone : d \in published /\ d \notin Ignored /\ d \in User
  BY LiveCalls
<1>9. CallsOK'
  <2> SUFFICES ASSUME NEW d \in Call
               PROVE  (/\ d \notin published => handle[d] = NoHandle
                       /\ d \in published /\ d \in Ignored => handle[d] = NoHandle
                       /\ d \in published => task[d] # "none"
                       /\ Live(ring, handle[d]) => task[d] = "running"
                       /\ d \in published \ Ignored /\ ~Live(ring, handle[d]) =>
                             d \in finished /\ task[d] = "done")'
    BY DEF CallsOK
  <2>1. CASE d = c
    BY <1>1, <1>2, <1>4, <1>7, <2>1
  <2>2. CASE d # c
    <3>1. /\ d \in User /\ handle'[d] = handle[d] /\ (d \in published' <=> d \in published)
          /\ Live(ring', handle'[d]) <=> Live(ring, handle[d]) /\ d \notin gone
      BY <1>1, <1>5, <1>6, <2>2, HandleTypes
    <3>2. CASE d \in gone
      <4>1. task'[d] = "done" /\ d \in published /\ d \notin Ignored /\ d \in finished'
        BY <1>8, <3>1, <3>2
      <4> QED
        BY <1>7, <3>1, <3>2, <4>1
    <3>3. CASE d \notin gone
      <4>1. task'[d] = task[d] /\ (d \in finished => d \in finished')
        BY <3>1, <3>3
      <4>2. CallsOK
        BY DEF UringInv, UsersOK
      <4> QED
        BY <1>7, <3>1, <3>3, <4>1, <4>2 DEF CallsOK
    <3> QED
      BY <3>2, <3>3
  <2> QED
    BY <2>1, <2>2
<1>10. ExplicitOK'
  <2>1. \A u \in User \ Call : /\ u # c /\ u \notin gone /\ handle'[u] = handle[u]
                               /\ (u \in published' <=> u \in published)
                               /\ task'[u] = task[u]
                               /\ Live(ring', handle'[u]) <=> Live(ring, handle[u])
    BY <1>1, <1>5, <1>6
  <2>2. \A u \in Read : u \in User \ Call
    BY UserKinds
  <2>3. \A u \in User : Live(ring', handle'[u]) =>
           ring'.req[handle'[u].slot].task = (IF u \in Read THEN u ELSE NoUser)
    <3> SUFFICES ASSUME NEW u \in User, Live(ring', handle'[u])
                 PROVE  ring'.req[handle'[u].slot].task = (IF u \in Read THEN u ELSE NoUser)
      OBVIOUS
    <3>1. CASE u = c
      BY <1>4, <2>2, <3>1
    <3>2. CASE u # c
      BY <1>6, <3>2 DEF UringInv, UsersOK, ExplicitOK
    <3> QED
      BY <3>1, <3>2
  <2>4. \A u \in User \ Call : u \in published' <=> u \in Read /\ handle'[u] # NoHandle
    BY <2>1 DEF UringInv, UsersOK, ExplicitOK
  <2>5. \A u \in Read : u \in published' =>
           task'[u] # "none" /\ (~Live(ring', handle'[u]) => task'[u] = "done")
    BY <2>1, <2>2 DEF UringInv, UsersOK, ExplicitOK
  <2> QED
    BY <2>3, <2>4, <2>5 DEF ExplicitOK
<1>11. ResultsOK'
  <2> SUFFICES ASSUME NEW u \in User
               PROVE  (/\ collected[u] # "none" => collected[u] = answer[u]
                       /\ task[u] = "done" /\ u \in published \ Ignored =>
                             result[u] = answer[u] /\ answer[u] \in Answer)'
    BY DEF ResultsOK
  <2>1. collected[u] # "none" => collected[u] = answer[u]
    BY DEF UringInv, UsersOK, ResultsOK
  <2>2. CASE u \in gone
    BY <2>1, <2>2
  <2>3. CASE u \notin gone
    <3>1. task'[u] = task[u] /\ result'[u] = result[u]
      BY <2>3
    <3>2. task[u] = "done" => (u \in published' => u \in published)
      BY <1>1
    <3> QED
      BY <1>7, <2>1, <3>1, <3>2 DEF UringInv, UsersOK, ResultsOK
  <2> QED
    BY <2>2, <2>3
<1>12. /\ list' \in Seq(Call) /\ Once(list') /\ \A d : Listed(list', d) <=> Listed(l, d) \/ d = c
  <2>1. ~Listed(l, c)
    BY <1>4
  <2> QED
    BY <1>1, <2>1, AppendedFacts
<1>13. ListOK'
  <2>1. \A d \in Call : Listed(list', d) <=> Live(ring', handle'[d])
    BY <1>4, <1>5, <1>12, HandleTypes
  <2> QED
    BY <1>12, <2>1 DEF ListOK
<1>14. FramesTyped'
  <2>1. published' \subseteq User /\ finished' \subseteq published'
    BY <1>1, <1>2, <1>8 DEF UringInv, FramesTyped
  <2> QED
    BY <1>12, <2>1 DEF UringInv, FramesTyped
<1> QED
  BY <1>3, <1>9, <1>10, <1>11, <1>13, <1>14 DEF UsersOK

LEMMA ReclaimEndsInv ==
    ASSUME UringInv, UNCHANGED profile, NEW t \in Thread, ReclaimEnds(t)
    PROVE  UringInv'
<1>0. PICK old \in Call, c \in Call : old = pc[t].user /\ c = pc[t].for
  BY FrameFacts DEF ReclaimEnds, UringInv
<1>1. PICK r, l : r = Released(ring, <<handle[old]>>) /\ l = Unlinked(list, old)
  OBVIOUS
<1> DEFINE v == ResultOf(ring, handle[old])
<1>2. /\ ~Pending(ring, handle[old]) /\ Complete({old}, [w \in User |-> v]) /\ Queued(c, r, l)
      /\ pc' = [pc EXCEPT ![t] = Idle] /\ pc[t].op = "reclaim" /\ pc[t].op \in Holding
      /\ UNCHANGED <<answer, finished, collected>>
  BY <1>0, <1>1 DEF ReclaimEnds, Goes, Holding
<1>3. /\ Live(ring, handle[old]) /\ old \in finished
      /\ c \notin published /\ c \notin Ignored /\ task[c] = "running"
  <2>1. HolderOK(pc[t])
    BY DEF UringInv, HoldersOK
  <2> QED
    BY <1>0, <1>2, <2>1 DEF HolderOK
<1>4. old \in User /\ task[old] = "running"
  BY <1>3, LiveCalls
<1>5. v = answer[old] /\ answer[old] \in Answer
  BY <1>2, <1>3, <1>4, DoneIsAnswered, HandleTypes
<1>6. /\ RingOK(r, handle, answer) /\ HasFree(r)
      /\ \A w \in User : Live(r, handle[w]) <=> Live(ring, handle[w]) /\ w # old
      /\ \A w \in User : Live(r, handle[w]) => r.req[handle[w].slot] = ring.req[handle[w].slot]
  BY <1>1, <1>2, <1>3, <1>4, ReleasedOne, HandleTypes
<1>7. /\ l \in Seq(Call) /\ Once(l) /\ \A d : Listed(l, d) <=> Listed(list, d) /\ d # old
  <2>1. list \in Seq(Call) /\ Once(list) /\ Listed(list, old)
    BY <1>3 DEF UringInv, FramesTyped, UsersOK, ListOK
  <2> QED
    BY <1>1, <2>1, UnlinkedFacts
<1>8. \A d \in Call : Listed(l, d) <=> Live(r, handle[d])
  BY <1>6, <1>7, HandleTypes DEF UringInv, UsersOK, ListOK
<1> HIDE DEF v
<1>9. /\ task'[old] = "done" /\ result'[old] = v
      /\ \A w \in User : w # old => task'[w] = task[w] /\ result'[w] = result[w]
      /\ task' \in [User -> {"none", "running", "done"}]
      /\ result' = [w \in User |-> result'[w]]
  BY <1>2, <1>4 DEF Complete, UringInv, FramesTyped
<1>10. result' \in [User -> Outcome]
  <2>1. \A w \in User : result'[w] \in Outcome
    BY <1>5, <1>9 DEF UringInv, FramesTyped, Outcome
  <2> QED
    BY <1>9, <2>1
<1>11. pc' \in [Thread -> Frame] /\ LockOK' /\ HoldersOK' /\ WaitsForKernel'
  BY <1>2, IdleStep DEF UringInv, LockOK
<1>12. PICK gone \in SUBSET Call : gone = {old}
  OBVIOUS
<1>13. finished' = finished \cup gone
  BY <1>2, <1>3, <1>12
<1>14. /\ \A u \in User : Live(r, handle[u]) <=> Live(ring, handle[u]) /\ u \notin gone
       /\ \A u \in User : Live(r, handle[u]) =>
             r.req[handle[u].slot].task = ring.req[handle[u].slot].task
       /\ \A d \in gone : Live(ring, handle[d]) /\ answer[d] \in Answer
       /\ \A u \in User : IF u \in gone THEN task'[u] = "done" /\ result'[u] = answer[u]
                                        ELSE task'[u] = task[u] /\ result'[u] = result[u]
  BY <1>3, <1>5, <1>6, <1>9, <1>12
<1>15. RingOK(ring, handle, answer)' /\ UsersOK' /\ FramesTyped'
  BY <1>2, <1>3, <1>6, <1>7, <1>8, <1>9, <1>10, <1>11, <1>13, <1>14, QueuedStep
<1> QED
  BY <1>11, <1>15 DEF UringInv

-----------------------------------------------------------------------------
(* uring_submit *)

LEMMA SubmitIgnoredInv ==
    ASSUME UringInv, UNCHANGED profile, LockFree, NEW c \in Call, task[c] = "running",
           c \notin published, c \in Ignored, published' = published \cup {c},
           UNCHANGED <<ring, answer, pc, handle, task, result, finished, list, collected>>
    PROVE  UringInv'
<1>1. Ignored' = Ignored /\ c \in User /\ handle[c] = NoHandle
  BY HandleTypes DEF Ignored, UringInv, UsersOK, CallsOK
<1>2. ~Live(ring, handle[c])
  BY <1>1, NoHandleDead, HandleTypes
<1>3. CallsOK'
  BY <1>1, <1>2 DEF UringInv, UsersOK, CallsOK
<1>4. ExplicitOK'
  BY UserKinds DEF UringInv, UsersOK, ExplicitOK
<1>5. ResultsOK'
  BY <1>1 DEF UringInv, UsersOK, ResultsOK
<1>6. ListOK'
  BY DEF UringInv, UsersOK, ListOK
<1>7. pc' \in [Thread -> Frame] /\ LockOK' /\ HoldersOK' /\ WaitsForKernel'
  BY OutsideStep
<1> QED
  BY <1>1, <1>3, <1>4, <1>5, <1>6, <1>7 DEF UringInv, FramesTyped, UsersOK

\* A call that is turned down has no request, and never gets one.
LEMMA SubmitRefusedInv ==
    ASSUME UringInv, UNCHANGED profile, LockFree, NEW c \in Call, task[c] = "running",
           c \notin published, NEW v \in Outcome, Complete({c}, [u \in User |-> v]),
           UNCHANGED <<ring, answer, pc, handle, published, finished, list, collected>>
    PROVE  UringInv'
<1>1. Ignored' = Ignored /\ c \in User /\ handle[c] = NoHandle
  BY HandleTypes DEF Ignored, UringInv, UsersOK, CallsOK
<1>2. ~Live(ring, handle[c])
  BY <1>1, NoHandleDead, HandleTypes
<1>3. /\ \A w \in User : w # c => task'[w] = task[w] /\ result'[w] = result[w]
      /\ task' \in [User -> {"none", "running", "done"}] /\ result' \in [User -> Outcome]
  BY <1>1 DEF Complete, UringInv, FramesTyped
<1>4. CallsOK'
  BY <1>1, <1>2, <1>3, HandleTypes DEF UringInv, UsersOK, CallsOK
<1>5. ExplicitOK'
  <2>1. \A u \in Read : u \in User /\ u # c
    BY UserKinds
  <2> QED
    BY <1>3, <2>1 DEF UringInv, UsersOK, ExplicitOK
<1>6. ResultsOK'
  BY <1>1, <1>3 DEF UringInv, UsersOK, ResultsOK
<1>7. ListOK'
  BY DEF UringInv, UsersOK, ListOK
<1>8. pc' \in [Thread -> Frame] /\ LockOK' /\ HoldersOK' /\ WaitsForKernel'
  BY OutsideStep
<1> QED
  BY <1>3, <1>4, <1>5, <1>6, <1>7, <1>8 DEF UringInv, FramesTyped, UsersOK

LEMMA SubmitQueuedInv ==
    ASSUME UringInv, UNCHANGED profile, LockFree, NEW c \in Call, task[c] = "running",
           c \notin published, c \notin Ignored, HasFree(ring), Queued(c, ring, list),
           UNCHANGED <<answer, pc, task, result, finished, collected>>
    PROVE  UringInv'
<1>1. PICK r, l : r = ring /\ l = list
  OBVIOUS
<1>2. PICK gone \in SUBSET Call : gone = {}
  OBVIOUS
<1>3. l \in Seq(Call) /\ Once(l) /\ \A d \in Call : Listed(l, d) <=> Live(r, handle[d])
  BY <1>1 DEF UringInv, FramesTyped, UsersOK, ListOK
<1>4. pc' \in [Thread -> Frame] /\ LockOK' /\ HoldersOK' /\ WaitsForKernel'
  BY OutsideStep
<1>5. task' \in [User -> {"none", "running", "done"}] /\ result' \in [User -> Outcome]
  BY DEF UringInv, FramesTyped
<1>6. /\ RingOK(r, handle, answer) /\ HasFree(r) /\ Queued(c, r, l)
      /\ finished' = finished \cup gone
  BY <1>1, <1>2, HandleTypes
<1>7. /\ \A u \in User : Live(r, handle[u]) <=> Live(ring, handle[u]) /\ u \notin gone
      /\ \A u \in User : Live(r, handle[u]) =>
            r.req[handle[u].slot].task = ring.req[handle[u].slot].task
      /\ \A d \in gone : Live(ring, handle[d]) /\ answer[d] \in Answer
      /\ \A u \in User : IF u \in gone THEN task'[u] = "done" /\ result'[u] = answer[u]
                                       ELSE task'[u] = task[u] /\ result'[u] = result[u]
  BY <1>1, <1>2
<1>8. RingOK(ring, handle, answer)' /\ UsersOK' /\ FramesTyped'
  BY <1>3, <1>4, <1>5, <1>6, <1>7, QueuedStep
<1> QED
  BY <1>4, <1>8 DEF UringInv

LEMMA DrainedOK ==
    ASSUME UringInv
    PROVE  /\ RingOK(Drained, handle, answer)
           /\ \A s \in Slot : Drained.req[s].task = ring.req[s].task
           /\ \A id \in Handle : Live(Drained, id) <=> Live(ring, id)
<1>1. RingOK(ring, handle, answer)
  BY HandleTypes
<1> QED
  BY <1>1, DrainOK DEF Drained

LEMMA ReclaimReadyInv ==
    ASSUME UringInv, UNCHANGED profile, LockFree, NEW c \in Call, task[c] = "running",
           c \notin published, c \notin Ignored, NEW n \in 0 .. Len(list), n # 0,
           ReadyPrefix(Drained, n), ReclaimReady(c, n), UNCHANGED <<answer, pc, collected>>
    PROVE  UringInv'
<1>0. /\ list \in Seq(Call) /\ Once(list) /\ Len(list) \in Nat /\ n \in Nat
      /\ \A d \in Call : Listed(list, d) <=> Live(ring, handle[d])
      /\ \A i \in 1 .. n : i \in 1 .. Len(list) /\ list[i] \in Call
  BY DEF UringInv, FramesTyped, UsersOK, ListOK
<1> DEFINE ids == [i \in 1 .. n |-> handle[SubSeq(list, 1, n)[i]]]
           out == ToSet(SubSeq(list, 1, n))
<1>1. PICK r, l : r = Released(Drained, ids) /\ l = SubSeq(list, n + 1, Len(list))
  OBVIOUS
<1>2. PICK gone \in SUBSET Call : gone = {list[i] : i \in 1 .. n}
  BY <1>0
<1>3. \A i \in 1 .. n : SubSeq(list, 1, n)[i] = list[i]
  BY <1>0
<1>4. out = gone
  <2>1. DOMAIN SubSeq(list, 1, n) = 1 .. n
    BY <1>0
  <2> QED
    BY <1>2, <1>3, <2>1 DEF ToSet
<1>5. /\ Queued(c, r, l) /\ finished' = finished \cup gone
      /\ Complete(gone, [u \in User |-> ResultOf(Drained, handle[u])])
  BY <1>1, <1>4 DEF ReclaimReady
\* The calls that go are ready, and in different slots.
<1>6. \A i \in 1 .. n : Live(ring, handle[list[i]]) /\ list[i] \in User
  BY <1>0, HandleTypes DEF Listed
<1>7. \A i \in 1 .. n : ids[i] = handle[list[i]] /\ ids[i] \in Handle
  BY <1>3, <1>6, HandleTypes
<1>8. ids \in Handles(n)
  BY <1>7 DEF Handles
<1> HIDE DEF ids, out
<1>9. \A i \in 1 .. n : Live(Drained, ids[i]) /\ ~Pending(Drained, ids[i])
  BY <1>7 DEF ReadyPrefix, Ready
<1>10. \A i, j \in 1 .. n : ids[i] = ids[j] => i = j
  <2> SUFFICES ASSUME NEW i \in 1 .. n, NEW j \in 1 .. n, ids[i] = ids[j]
               PROVE  i = j
    OBVIOUS
  <2>1. list[i] = list[j]
    BY <1>6, <1>7, HandlesDiffer, HandleTypes
  <2> QED
    BY <1>0, <2>1 DEF Once
<1>11. RingOK(Drained, handle, answer)
  BY DrainedOK
<1>12. RingOK(r, handle, answer) /\ HasFree(r)
  BY <1>0, <1>1, <1>8, <1>9, <1>10, <1>11, ReleasedOK
<1>13. \A id \in Handle : Live(r, id) <=> Live(Drained, id) /\ \A i \in 1 .. n : ids[i] # id
  BY <1>0, <1>1, <1>8, <1>9, <1>10, <1>11, ReleasedOK
<1>14. \A id \in Handle : Live(r, id) => r.req[id.slot] = Drained.req[id.slot]
  BY <1>0, <1>1, <1>8, <1>9, <1>10, <1>11, ReleasedOK
<1>15. ASSUME NEW u \in User
       PROVE  /\ Live(r, handle[u]) <=> Live(ring, handle[u]) /\ u \notin gone
              /\ Live(r, handle[u]) => r.req[handle[u].slot].task = ring.req[handle[u].slot].task
  <2>1. handle[u] \in Handle /\ handle[u].slot \in Slot
    BY HandleTypes DEF Handle
  <2>2. Live(Drained, handle[u]) <=> Live(ring, handle[u])
    BY <2>1, DrainedOK
  <2>3. Live(ring, handle[u]) => (u \in gone <=> \E i \in 1 .. n : ids[i] = handle[u])
    BY <1>2, <1>6, <1>7, HandlesDiffer, HandleTypes
  <2> QED
    BY <1>13, <1>14, <2>1, <2>2, <2>3, DrainedOK
<1>16. \A d \in gone : /\ d \in User /\ Live(ring, handle[d]) /\ task[d] = "running"
                       /\ ResultOf(Drained, handle[d]) = answer[d] /\ answer[d] \in Answer
  <2> SUFFICES ASSUME NEW i \in 1 .. n, NEW d, d = list[i]
               PROVE  /\ d \in User /\ Live(ring, handle[d]) /\ task[d] = "running"
                      /\ ResultOf(Drained, handle[d]) = answer[d] /\ answer[d] \in Answer
    BY <1>2
  <2>1. d \in User /\ d \in Call /\ Live(ring, handle[d])
    BY <1>0, <1>6
  <2>2. Live(Drained, handle[d]) /\ ~Pending(Drained, handle[d])
    BY <1>7, <1>9
  <2> QED
    BY <1>11, <2>1, <2>2, LiveCalls, DoneIsAnswered
<1>17. /\ task' \in [User -> {"none", "running", "done"}]
       /\ result' = [u \in User |-> result'[u]]
       /\ \A u \in User : IF u \in gone THEN task'[u] = "done" /\ result'[u] = answer[u]
                                        ELSE task'[u] = task[u] /\ result'[u] = result[u]
  <2>1. task \in [User -> {"none", "running", "done"}]
    BY DEF UringInv, FramesTyped
  <2> QED
    BY <1>5, <1>16, <2>1 DEF Complete
<1>18. result' \in [User -> Outcome]
  <2>1. \A u \in User : result'[u] \in Outcome
    BY <1>16, <1>17 DEF UringInv, FramesTyped, Outcome
  <2> QED
    BY <1>17, <2>1
<1>19. /\ l \in Seq(Call) /\ Once(l)
       /\ \A d : Listed(l, d) <=> Listed(list, d) /\ \A i \in 1 .. n : list[i] # d
  <2>0. list \in Seq(Call) /\ Once(list) /\ l = SubSeq(list, n + 1, Len(list))
    BY <1>0, <1>1
  <2>1. l \in Seq(Call) /\ Once(l) /\ Dropped(list, n, l)
    BY <2>0, DroppedFacts
  <2> QED
    BY <2>1 DEF Dropped
<1>20. \A d \in Call : Listed(l, d) <=> Live(r, handle[d])
  BY <1>0, <1>2, <1>15, <1>19, HandleTypes
<1>21. pc' \in [Thread -> Frame] /\ LockOK' /\ HoldersOK' /\ WaitsForKernel'
  BY OutsideStep
<1>22. RingOK(ring, handle, answer)' /\ UsersOK' /\ FramesTyped'
  <2>1. \A u \in User : Live(r, handle[u]) <=> Live(ring, handle[u]) /\ u \notin gone
    BY <1>15
  <2>2. \A u \in User : Live(r, handle[u]) =>
           r.req[handle[u].slot].task = ring.req[handle[u].slot].task
    BY <1>15
  <2>3. \A d \in gone : Live(ring, handle[d]) /\ answer[d] \in Answer
    BY <1>16
  <2>4. /\ task' \in [User -> {"none", "running", "done"}]
        /\ \A u \in User : IF u \in gone THEN task'[u] = "done" /\ result'[u] = answer[u]
                                         ELSE task'[u] = task[u] /\ result'[u] = result[u]
    BY <1>17
  <2>5. Queued(c, r, l) /\ finished' = finished \cup gone /\ l \in Seq(Call) /\ Once(l)
    BY <1>5, <1>19
  <2>6. pc' \in [Thread -> Frame]
    BY <1>21
  <2> QED
    BY <1>12, <1>18, <1>20, <2>1, <2>2, <2>3, <2>4, <2>5, <2>6, QueuedStep
<1> QED
  BY <1>21, <1>22 DEF UringInv

LEMMA ReclaimWaitsInv ==
    ASSUME UringInv, UNCHANGED profile, NEW t \in Thread, LockFree, NEW c \in Call,
           task[c] = "running", c \notin published, c \notin Ignored, list # <<>>,
           ring' = Awaited(Sent(Drained), handle[list[1]]),
           finished' = finished \cup {list[1]},
           pc' = [pc EXCEPT ![t] = [op |-> "reclaim", user |-> list[1], for |-> c]],
           UNCHANGED <<answer, handle, task, result, published, list, collected>>
    PROVE  UringInv'
<1>1. PICK old \in Call : old = list[1] /\ Live(ring, handle[old])
  <2>1. list \in Seq(Call) /\ 1 \in 1 .. Len(list) /\ list[1] \in Call
    BY DEF UringInv, FramesTyped
  <2> QED
    BY <2>1 DEF UringInv, UsersOK, ListOK, Listed
<1>2. PICK q : q = Sent(Drained)
  OBVIOUS
<1>3. handle[old] \in Handle /\ old \in User /\ old \in published
  BY <1>1, LiveCalls, HandleTypes
<1>4. /\ RingOK(q, handle, answer)
      /\ \A s \in Slot : q.req[s].task = ring.req[s].task
      /\ \A id \in Handle : Live(q, id) <=> Live(ring, id)
  BY <1>2, DrainedOK, SentOK
<1>5. /\ RingOK(ring', handle, answer)
      /\ \A s \in Slot : ring'.req[s].task = ring.req[s].task
      /\ \A id \in Handle : Live(ring', id) <=> Live(ring, id)
      /\ Pending(ring', handle[old]) => Given(ring', handle[old])
  BY <1>1, <1>2, <1>3, <1>4, AwaitedOK
<1>6. RingOK(ring, handle, answer)' /\ UsersOK'
  BY <1>5, QuietStep
<1>7. PICK f \in Frame : f = [op |-> "reclaim", user |-> old, for |-> c]
  BY FrameTypes
<1>8. f.op = "reclaim" /\ f.user = old /\ f.for = c /\ Ignored' = Ignored
  BY <1>7 DEF Ignored
<1>9. HolderOK(f)' /\ WaiterOK(f)'
  BY <1>1, <1>3, <1>5, <1>8 DEF HolderOK, WaiterOK
<1>10. pc' \in [Thread -> Frame] /\ LockOK' /\ HoldersOK' /\ WaitsForKernel'
  BY <1>1, <1>7, <1>9, LockedStep DEF LockFree
<1> QED
  BY <1>1, <1>3, <1>6, <1>10 DEF UringInv, FramesTyped

LEMMA SubmitInv ==
    ASSUME UringInv, UNCHANGED profile, NEW t \in Thread, NEW c \in Call, Submit(t, c)
    PROVE  UringInv'
<1>1. LockFree /\ task[c] = "running" /\ c \notin published /\ UNCHANGED <<answer, collected>>
  BY DEF Submit, Enters
<1>2. CASE /\ c \in Ignored /\ published' = published \cup {c}
           /\ UNCHANGED <<ring, pc, handle, task, result, finished, list>>
  BY <1>1, <1>2, SubmitIgnoredInv
<1>3. CASE \E v \in {"EINVAL", "EAGAIN"} :
              /\ Complete({c}, [u \in User |-> v])
              /\ UNCHANGED <<ring, pc, handle, published, finished, list>>
  <2>1. PICK v \in Outcome : Complete({c}, [u \in User |-> v])
    BY <1>3 DEF Outcome
  <2> QED
    BY <1>1, <1>3, <2>1, SubmitRefusedInv
<1>4. CASE /\ c \notin Ignored /\ HasFree(ring) /\ Queued(c, ring, list)
           /\ UNCHANGED <<pc, task, result, finished>>
  BY <1>1, <1>4, SubmitQueuedInv
<1>5. CASE c \notin Ignored /\ list # <<>> /\ Reclaim(t, c)
  <2>1. PICK n \in 0 .. Len(list) :
           /\ ReadyPrefix(Drained, n)
           /\ \/ /\ n = 0
                 /\ ring' = Awaited(Sent(Drained), handle[list[1]])
                 /\ finished' = finished \cup {list[1]}
                 /\ pc' = [pc EXCEPT ![t] = [op |-> "reclaim", user |-> list[1], for |-> c]]
                 /\ UNCHANGED <<handle, task, result, published, list>>
              \/ /\ n # 0
                 /\ ReclaimReady(c, n)
                 /\ UNCHANGED pc
    BY <1>5 DEF Reclaim, Goes
  <2>2. CASE n = 0
    BY <1>1, <1>5, <2>1, <2>2, ReclaimWaitsInv
  <2>3. CASE n # 0
    BY <1>1, <1>5, <2>1, <2>3, ReclaimReadyInv
  <2> QED
    BY <2>2, <2>3
<1> QED
  BY <1>2, <1>3, <1>4, <1>5 DEF Submit

-----------------------------------------------------------------------------
LEMMA UringInit ==
    ASSUME Init
    PROVE  UringInv
<1> USE DEF Init, RingInit
<1>1. 0 \in Slot /\ \A i \in 1 .. MaxInflight : i - 1 \in Slot
  BY MaxInflightPositive DEF Slot
<1>2. /\ ring.req \in [Slot -> Request] /\ \A s \in Slot : ring.req[s] = FreeRequest
      /\ ring.free \in Seq(Slot) /\ Len(ring.free) = MaxInflight
      /\ \A i \in 1 .. MaxInflight : ring.free[i] = i - 1
      /\ ring.gen = 0 /\ ring.sq = {} /\ ring.kernel = {} /\ ring.cq = {} /\ ring.inflight = 0
  <2>1. FreeRequest \in Request
    BY DEF FreeRequest, Request
  <2>2. [i \in 1 .. MaxInflight |-> i - 1] \in Seq(Slot)
    BY <1>1, MaxInflightPositive
  <2> QED
    BY <2>1, <2>2, MaxInflightPositive DEF EmptyRing
<1>3. ring \in Ring
  BY <1>2 DEF Ring, EmptyRing
<1>4. FreeRequest.gen = 0 /\ FreeRequest.state = "free"
  BY DEF FreeRequest
<1>5. NoHandle \in Handle /\ NoHandle.gen = 0
  BY <1>1 DEF NoHandle, Handle
<1>6. GensOK(ring, handle)
  BY <1>2, <1>4, <1>5 DEF GensOK
<1>7. EntriesOK(ring, handle, answer) /\ CompletionsOK(ring, handle, answer)
  BY <1>2 DEF EntriesOK, CompletionsOK
<1>8. RequestsOK(ring, handle, answer)
  BY <1>2, <1>4 DEF RequestsOK
<1>9. SlotsOK(ring)
  <2>1. \A s \in Slot : s + 1 \in 1 .. MaxInflight /\ (s + 1) - 1 = s
    BY MaxInflightPositive DEF Slot
  <2>2. \A i, j \in 1 .. MaxInflight : i - 1 = j - 1 => i = j
    BY MaxInflightPositive
  <2>3. {s \in Slot : ring.req[s].state = "pending"} = {}
    BY <1>2, <1>4
  <2>4. \A s \in Slot : \E i \in 1 .. MaxInflight : ring.free[i] = s
    BY <1>2, <2>1
  <2>5. \A i, j \in 1 .. Len(ring.free) : ring.free[i] = ring.free[j] => i = j
    BY <1>2, <2>2
  <2>6. \A s \in Slot : ring.req[s].state = "free" <=> \E i \in 1 .. Len(ring.free) : ring.free[i] = s
    BY <1>2, <1>4, <2>4
  <2>7. ring.inflight = Cardinality({s \in Slot : ring.req[s].state = "pending"})
    BY <1>2, <2>3, FS_EmptySet
  <2> QED
    BY <2>5, <2>6, <2>7 DEF SlotsOK
<1>10. RingOK(ring, handle, answer)
  BY <1>3, <1>5, <1>6, <1>7, <1>8, <1>9 DEF RingOK
<1>11. \A u \in User : ~Live(ring, handle[u])
  BY <1>10, NoHandleDead
<1>12. FramesTyped
  BY FrameTypes DEF FramesTyped, Outcome
<1>13. UsersOK
  <2>1. CallsOK
    BY <1>11, UserKinds DEF CallsOK
  <2>2. ExplicitOK
    BY <1>11 DEF ExplicitOK
  <2>3. ResultsOK
    BY DEF ResultsOK
  <2>4. ListOK
    BY <1>11, UserKinds DEF ListOK, Listed, Once
  <2> QED
    BY <2>1, <2>2, <2>3, <2>4 DEF UsersOK
<1>14. \A t \in Thread : pc[t].op \notin Holding
  BY FrameTypes DEF Holding
<1>15. LockOK /\ HoldersOK /\ WaitsForKernel
  BY <1>14 DEF LockOK, HoldersOK, HolderOK, WaitsForKernel, Holding
<1> QED
  BY <1>10, <1>12, <1>13, <1>15 DEF UringInv

LEMMA UringStep ==
    ASSUME UringInv, Next
    PROVE  UringInv'
<1>0. UNCHANGED profile
  BY DEF Next
<1>1. CASE \E c \in Call : Begin(c)
  BY <1>0, <1>1, BeginInv
<1>2. CASE \E t \in Thread, c \in Call : Submit(t, c)
  BY <1>0, <1>2, SubmitInv
<1>3. CASE \E t \in Thread, u \in Call \cup Read, m \in Mode : PollCalled(t, u, m)
  BY <1>0, <1>3, PollCalledInv DEF Polled
<1>4. ASSUME NEW t \in Thread, Poll(t) \/ Continues(t) \/ SubmitAll(t) \/ WaitAllCalled(t)
      PROVE  UringInv'
  BY <1>0, <1>4, PollInv, ProgressLooksInv, WaitDrainsInv, FinishCallInv, FinishReadInv,
     ReclaimEndsInv, ResultReturnsInv, WaitAllReturnsInv, SubmitAllInv, WaitAllCalledInv
     DEF Continues
<1>5. ASSUME NEW t \in Thread, NEW u \in User, Issue(t, u) \/ IsReady(t, u) \/ ResultCalled(t, u)
      PROVE  UringInv'
  BY <1>0, <1>5, IssueInv, IsReadyInv, ResultCalledInv
<1>6. CASE \E u \in User : KernelCompletes(u) /\ UNCHANGED <<pc, callVars>>
  BY <1>0, <1>6, KernelInv
<1> QED
  BY <1>1, <1>2, <1>3, <1>4, <1>5, <1>6 DEF Next

LEMMA UringStutter ==
    ASSUME UringInv, UNCHANGED vars
    PROVE  UringInv'
<1> USE DEF vars, callVars
<1>1. RingOK(ring, handle, answer)' /\ FramesTyped' /\ LockOK'
  BY DEF UringInv, FramesTyped, LockOK
<1>2. Ignored' = Ignored
  BY DEF Ignored
<1>3. UsersOK'
  BY <1>2 DEF UringInv, UsersOK, CallsOK, ExplicitOK, ResultsOK, ListOK
<1>4. HoldersOK' /\ WaitsForKernel'
  BY <1>2 DEF UringInv, HoldersOK, HolderOK, WaitsForKernel
<1> QED
  BY <1>1, <1>3, <1>4 DEF UringInv

(* What UringInv says of the runtime always holds. *)
THEOREM UringInvariant == Spec => []UringInv
<1>1. Init => UringInv
  BY UringInit
<1>2. UringInv /\ [Next]_vars => UringInv'
  BY UringStep, UringStutter
<1> QED
  BY <1>1, <1>2, PTL DEF Spec

(* A result reported to the framework or given to the program is what the  *)
(* kernel did for that very request, whatever slots are reused, handles    *)
(* gone stale and polls late, for any number of threads and requests.      *)
THEOREM ResultsAreOwn == Spec => []OwnAnswer
<1>1. UringInv => OwnAnswer
  BY DEF UringInv, UsersOK, ResultsOK, OwnAnswer
<1> QED
  BY <1>1, UringInvariant, PTL

(* Whoever waits for the kernel with the runtime's lock waits for what the *)
(* kernel has: no wait in reclaim, finish, fasync_result or fasync_wait_all *)
(* hangs on an entry left in the queue.                                    *)
THEOREM WaitsAreServed == Spec => []WaitsForKernel
<1>1. UringInv => WaitsForKernel
  BY DEF UringInv
<1> QED
  BY <1>1, UringInvariant, PTL

(* The request table, its free list, g_inflight and the list of calls in   *)
(* flight agree, whatever the size of the table.                           *)
THEOREM SlotsAgree == Spec => []SlotsAccounted
<1>1. UringInv => SlotsAccounted
  <2> SUFFICES ASSUME UringInv
               PROVE  SlotsAccounted
    OBVIOUS
  <2>1. UringTypeOK
    BY DEF UringInv, RingOK, FramesTyped, UringTypeOK
  <2>2. SlotsOK(ring) /\ ring \in Ring
    BY DEF UringInv, RingOK
  <2>3. ring.free \in Seq(Slot) /\ Len(ring.free) \in Nat /\ DOMAIN ring.free = 1 .. Len(ring.free)
    BY <2>2, RingFields
  <2>4. ToSet(ring.free) = {s \in Slot : ring.req[s].state = "free"}
    BY <2>2, <2>3 DEF ToSet, SlotsOK
  <2>5. Len(ring.free) = Cardinality(ToSet(ring.free))
    <3>1. ring.free \in Bijection(1 .. Len(ring.free), ToSet(ring.free))
      BY <2>2, <2>3 DEF ToSet, SlotsOK, Bijection, Injection, Surjection, IsInjective
    <3> QED
      BY <2>3, <3>1, FS_CountingElements DEF ExistsBijection
  <2>6. list \in Seq(Call) /\ DOMAIN list = 1 .. Len(list)
    BY DEF UringInv, FramesTyped
  <2>7. \A i, j \in DOMAIN list : list[i] = list[j] => i = j
    BY <2>6 DEF UringInv, UsersOK, ListOK, Once
  <2>8. \A c \in Call : (\E i \in DOMAIN list : list[i] = c) <=> c \in published /\ Live(ring, handle[c])
    BY <2>6, LiveCalls DEF UringInv, UsersOK, ListOK, Listed
  <2>9. \A u, v \in User : Live(ring, handle[u]) /\ handle[u] = handle[v] => u = v
    BY HandlesDiffer, HandleTypes
  <2> QED
    BY <2>1, <2>2, <2>4, <2>5, <2>7, <2>8, <2>9 DEF SlotsAccounted, SlotsOK
<1> QED
  BY <1>1, UringInvariant, PTL

-----------------------------------------------------------------------------
(* Calls that are refused for want of a slot. *)

\* filc_async_complete changes the result of a task that it completes.
LEMMA Reported ==
    ASSUME UringInv, NEW S, NEW res, Complete(S, res), NEW c \in User, result'[c] # result[c]
    PROVE  c \in S /\ task'[c] = "done" /\ result'[c] = res[c]
  BY DEF Complete, UringInv, FramesTyped

\* A call with a request is given the kernel's answer.
LEMMA QueuedNotRefused ==
    ASSUME UringInv', NEW c \in Call, task'[c] = "done", c \in published', c \notin Ignored'
    PROVE  result'[c] # "EAGAIN"
<1>1. result'[c] = answer'[c] /\ answer'[c] \in Answer
  BY UserKinds DEF UringInv, UsersOK, ResultsOK
<1> QED
  BY <1>1 DEF Answer

LEMMA SubmitRefused ==
    ASSUME UringInv, UringInv', UNCHANGED profile, NEW t \in Thread, NEW d \in Call, Submit(t, d),
           NEW c \in Call, result'[c] = "EAGAIN", result[c] # "EAGAIN"
    PROVE  ~HasFree(ring) /\ list = <<>>
<1>0. c \in User /\ result'[c] # result[c] /\ Ignored' = Ignored
  BY UserKinds DEF Ignored
<1>1. CASE d \in Invalid /\ Complete({d}, [u \in User |-> "EINVAL"])
  BY <1>0, <1>1, Reported
<1>2. CASE ~HasFree(ring) /\ list # <<>> /\ Reclaim(t, d)
  <2>1. PICK n \in 0 .. Len(list) : ReclaimReady(d, n)
    BY <1>0, <1>2 DEF Reclaim
  <2> DEFINE gone == ToSet(SubSeq(list, 1, n))
  <2>2. Complete(gone, [u \in User |-> ResultOf(Drained, handle[u])]) /\ published \subseteq published'
    BY <2>1 DEF ReclaimReady, Queued
  <2>3. c \in gone /\ task'[c] = "done"
    BY <1>0, <2>2, Reported
  <2>4. list \in Seq(Call) /\ n \in 0 .. Len(list)
    BY DEF UringInv, FramesTyped
  <2>5. Listed(list, c)
    BY <2>3, <2>4 DEF ToSet, Listed
  <2>6. Live(ring, handle[c])
    BY <2>5 DEF UringInv, UsersOK, ListOK
  <2> QED
    BY <1>0, <2>2, <2>3, <2>6, LiveCalls, QueuedNotRefused
<1> QED
  BY <1>0, <1>1, <1>2 DEF Submit

LEMMA PollRefused ==
    ASSUME UringInv, NEW t \in Thread, Poll(t), NEW c \in Call
    PROVE  result'[c] = result[c] \/ result'[c] = "EOPNOTSUPP"
<1>1. PICK u : u = pc[t].user
  OBVIOUS
<1>2. UNCHANGED result \/ Complete({u}, [v \in User |-> "EOPNOTSUPP"])
  BY <1>1 DEF Poll
<1> QED
  BY <1>2, Reported, UserKinds

LEMMA ContinuesRefused ==
    ASSUME UringInv, UringInv', UNCHANGED profile, NEW t \in Thread, Continues(t),
           NEW c \in Call, result'[c] # result[c]
    PROVE  result'[c] # "EAGAIN"
<1>0. c \in User /\ Ignored' = Ignored
  BY UserKinds DEF Ignored
<1>1. PICK u : u = pc[t].user
  OBVIOUS
<1>2. HolderOK(pc[t])
  BY DEF UringInv, HoldersOK
<1>3. CASE FinishCall(t)
  <2>1. /\ Complete({u}, [w \in User |-> ResultOf(ring, handle[u])]) /\ published' = published
        /\ pc[t].op = "finish" /\ u \in Call
    BY <1>1, <1>3 DEF FinishCall
  <2>2. Live(ring, handle[u])
    BY <1>1, <1>2, <2>1 DEF HolderOK
  <2> QED
    BY <1>0, <2>1, <2>2, Reported, LiveCalls, QueuedNotRefused
<1>4. CASE FinishRead(t)
  <2>1. /\ Complete({u}, [w \in User |-> IF Live(ring, handle[u])
                                         THEN ResultOf(ring, handle[u]) ELSE "EINVAL"])
        /\ u \in Read
    BY <1>1, <1>4 DEF FinishRead
  <2> QED
    BY <1>0, <2>1, Reported, UserKinds
<1>5. CASE ReclaimEnds(t)
  <2>1. /\ Complete({u}, [w \in User |-> ResultOf(ring, handle[u])]) /\ published \subseteq published'
        /\ pc[t].op = "reclaim"
    BY <1>1, <1>5 DEF ReclaimEnds, Queued
  <2>2. Live(ring, handle[u])
    BY <1>1, <1>2, <2>1 DEF HolderOK
  <2> QED
    BY <1>0, <2>1, <2>2, Reported, LiveCalls, QueuedNotRefused
<1>6. CASE ResultReturns(t)
  <2>1. PICK owner : /\ owner = ring.req[handle[u].slot].task
                     /\ Complete({owner} \cap User, [v \in User |-> ResultOf(ring, handle[u])])
    BY <1>1, <1>6 DEF ResultReturns
  <2>2. u \in User \ Call /\ Live(ring, handle[u])
    BY <1>1, <1>2, <1>6, FrameFacts DEF ResultReturns, UringInv, HolderOK
  <2>3. owner \in {u, NoUser}
    BY <2>1, <2>2 DEF UringInv, UsersOK, ExplicitOK
  <2> QED
    BY <1>0, <2>1, <2>2, <2>3, NoUserIsNot, Reported
<1> QED
  BY <1>3, <1>4, <1>5, <1>6
     DEF Continues, ProgressLooks, WaitDrains, WaitAllReturns, callVars

LEMMA RefusedStep ==
    ASSUME UringInv, UringInv', Next, NEW c \in Call, result'[c] = "EAGAIN", result[c] # "EAGAIN"
    PROVE  ~HasFree(ring) /\ list = <<>>
<1>0. UNCHANGED profile /\ result'[c] # result[c]
  BY DEF Next
<1>1. CASE \E t \in Thread, d \in Call : Submit(t, d)
  BY <1>0, <1>1, SubmitRefused
<1>2. CASE \E t \in Thread : Poll(t) \/ Continues(t)
  BY <1>0, <1>2, PollRefused, ContinuesRefused
<1> QED
  BY <1>0, <1>1, <1>2 DEF Next, Begin, PollCalled, SubmitAll, WaitAllCalled, Issue, IsReady,
     ResultCalled, callVars

(* An annotated call is refused with -EAGAIN only when explicit requests   *)
(* hold every slot: as long as a call holds one, reclaim waits for it and  *)
(* the slot is found, for any size of the table.                           *)
THEOREM RefusedWhenExplicitFill == Spec => OnlyExplicitFill
<1>1. ASSUME UringInv, UringInv', Next, NEW c \in Call, result'[c] = "EAGAIN", result[c] # "EAGAIN"
      PROVE  /\ \A s \in Slot : ring.req[s].state # "free"
             /\ \A d \in Call : ~Live(ring, handle[d])
  <2>1. ~HasFree(ring) /\ list = <<>>
    BY <1>1, RefusedStep
  <2>2. ring.free = <<>> /\ SlotsOK(ring) /\ ListOK
    BY <1>1, <2>1 DEF HasFree, UringInv, RingOK, UsersOK
  <2> QED
    BY <2>1, <2>2 DEF SlotsOK, ListOK, Listed
<1>2. UringInv /\ UringInv' /\ [Next]_vars =>
        [\A c \in Call : result'[c] = "EAGAIN" /\ result[c] # "EAGAIN" =>
            /\ \A s \in Slot : ring.req[s].state # "free"
            /\ \A d \in Call : ~Live(ring, handle[d])]_vars
  BY <1>1
<1> QED
  BY <1>2, UringInvariant, PTL DEF Spec, OnlyExplicitFill

=============================================================================
