----------------------------- MODULE UringRuntime -----------------------------
(***************************************************************************)
(* The io_uring runtime (filc_async_uring.c) and the explicit API of       *)
(* fasync_syscalls.c over one ring, used by several threads.               *)
(*                                                                         *)
(* One recursive lock covers each operation from end to end, the waits for *)
(* the kernel included: a thread whose op is in Holding has it. Polls come *)
(* from the framework, which decides on one while the task still runs and  *)
(* gets the lock some time later; by then anything may have happened.      *)
(***************************************************************************)
EXTENDS Ring, SequencesExt

CONSTANTS
    Thread,
    Call,      \* annotated calls
    Profiles,  \* what the calls may be, together
    Read       \* explicit fasync_preads, each with a task of its own;
               \* every other user is an explicit request without one

ASSUME UserKinds == Call \subseteq User /\ Read \subseteq User /\ Call \cap Read = {}

\* A request, op=ignore, or one that queue() or the request layer turns down.
ASSUME CallKinds == Profiles \subseteq [Call -> {"request", "ignore", "invalid"}]

VARIABLES
    profile,   \* what each call is
    pc,        \* what each thread is doing
    handle,    \* the request of each user
    task,      \* the framework's task of each call and each explicit read
    result,    \* the result its completion reported
    published, \* the calls whose struct uring_call polls can find
    finished,  \* their finished flag
    list,      \* calls with a request in flight, oldest first
    collected  \* what fasync_result gave the program

callVars == <<handle, task, result, published, finished, list, collected>>
vars == <<profile, ring, answer, pc, callVars>>

Ignored == {c \in Call : profile[c] = "ignore"}
Invalid == {c \in Call : profile[c] = "invalid"}

Mode == {"CHECK", "PROGRESS", "BLOCK"}
Idle == [op |-> "idle"]

\* What a thread does with the lock held over more than one step.
Holding == {"progress", "finish", "reclaim", "result", "all"}

LockFree == \A t \in Thread : pc[t].op \notin Holding
Goes(t, x) == pc' = [pc EXCEPT ![t] = x]

\* A thread outside the runtime takes its lock.
Enters(t) == LockFree /\ pc[t] = Idle

(* filc_async_complete for the users in S, with results res: a task that   *)
(* has completed stays as it is.                                           *)
Complete(S, res) ==
    LET now == {u \in S : task[u] = "running"} IN
    /\ task' = [u \in User |-> IF u \in now THEN "done" ELSE task[u]]
    /\ result' = [u \in User |-> IF u \in now THEN res[u] ELSE result[u]]

-----------------------------------------------------------------------------
(* Submitting a call *)

\* The stub's filc_async_begin: from now on threads may poll the task.
Begin(c) ==
    /\ task[c] = "none"
    /\ task' = [task EXCEPT ![c] = "running"]
    /\ UNCHANGED <<ring, answer, pc, handle, result, published, finished, list, collected>>

\* queue() with a free slot in r: dispatch, list_add, publish.
Queued(c, r, l) ==
    /\ ring' = Pushed(r, c, NoUser)
    /\ handle' = [handle EXCEPT ![c] = NextHandle(r)]
    /\ list' = Append(l, c)
    /\ published' = published \cup {c}

\* reclaim, once the queue is drained, finds the n oldest calls ready.
ReadyPrefix(r, n) ==
    /\ \A i \in 1 .. n : Ready(r, handle[list[i]])
    /\ n < Len(list) => ~Ready(r, handle[list[n + 1]])

Drained == IF \E i \in DOMAIN list : Pending(ring, handle[list[i]])
           THEN Drain(ring) ELSE ring

\* reclaim finishes the n oldest calls; c then takes a slot that came free.
ReclaimReady(c, n) ==
    LET gone == SubSeq(list, 1, n) IN
    /\ Queued(c, Released(Drained, [i \in 1 .. n |-> handle[gone[i]]]),
              SubSeq(list, n + 1, Len(list)))
    /\ finished' = finished \cup ToSet(gone)
    /\ Complete(ToSet(gone), [u \in User |-> ResultOf(Drained, handle[u])])

\* Mutant: reclaim gives up when the oldest call is still running.
Reclaim_nowait(t, c) ==
    \E n \in 0 .. Len(list) :
        /\ ReadyPrefix(Drained, n)
        /\ \/ /\ n = 0
              /\ ring' = Sent(Drained)
              /\ Complete({c}, [u \in User |-> "EAGAIN"])
              /\ UNCHANGED <<pc, handle, published, finished, list>>
           \/ /\ n # 0
              /\ ReclaimReady(c, n)
              /\ UNCHANGED pc

(* reclaim: finishes the calls that are ready, or else sends the queue and *)
(* waits for the oldest.                                                   *)
Reclaim(t, c) ==
    \E n \in 0 .. Len(list) :
        /\ ReadyPrefix(Drained, n)
        /\ \/ /\ n = 0
              /\ ring' = Awaited(Sent(Drained), handle[list[1]])
              /\ finished' = finished \cup {list[1]}
              /\ Goes(t, [op |-> "reclaim", user |-> list[1], for |-> c])
              /\ UNCHANGED <<handle, task, result, published, list>>
           \/ /\ n # 0
              /\ ReclaimReady(c, n)
              /\ UNCHANGED pc

\* uring_submit once the body has run and the source is there.
Submit(t, c) ==
    /\ Enters(t)
    /\ task[c] = "running"
    /\ c \notin published
    /\ \/ /\ c \in Ignored
          /\ published' = published \cup {c}
          /\ UNCHANGED <<ring, pc, handle, task, result, finished, list>>
       \/ /\ c \in Invalid
          /\ Complete({c}, [u \in User |-> "EINVAL"])
          /\ UNCHANGED <<ring, pc, handle, published, finished, list>>
       \/ /\ c \notin Ignored \cup Invalid
          /\ HasFree(ring)
          /\ Queued(c, ring, list)
          /\ UNCHANGED <<pc, task, result, finished>>
       \/ /\ c \notin Ignored \cup Invalid
          /\ ~HasFree(ring)
          /\ list = <<>>
          /\ Complete({c}, [u \in User |-> "EAGAIN"])
          /\ UNCHANGED <<ring, pc, handle, published, finished, list>>
       \/ /\ c \notin Ignored \cup Invalid
          /\ ~HasFree(ring)
          /\ list # <<>>
          /\ Reclaim(t, c)
    /\ UNCHANGED <<answer, collected>>

-----------------------------------------------------------------------------
(* Polling *)

\* The framework has seen u running, and calls poll.
PollCalled(t, u, mode) ==
    /\ pc[t] = Idle
    /\ task[u] = "running"
    /\ Goes(t, [op |-> "poll", user |-> u, mode |-> mode])
    /\ UNCHANGED <<ring, answer, callVars>>

\* uring_poll with the lock, of a call that is there and not finished.
PollRequest(t, u, mode) ==
    LET r == Checked(ring, handle[u]) IN
    \/ /\ Ready(r, handle[u]) \/ mode = "BLOCK"
       /\ ring' = IF Ready(r, handle[u]) THEN r ELSE Awaited(Sent(r), handle[u])
       /\ finished' = finished \cup {u}
       /\ Goes(t, [op |-> "finish", user |-> u])
    \/ /\ ~Ready(r, handle[u])
       /\ mode = "PROGRESS"
       /\ ring' = Sent(r)
       /\ Goes(t, [op |-> "progress", user |-> u])
       /\ UNCHANGED finished
    \/ /\ ~Ready(r, handle[u])
       /\ mode = "CHECK"
       /\ ring' = r
       /\ Goes(t, Idle)
       /\ UNCHANGED finished

Poll(t) ==
    /\ pc[t].op = "poll"
    /\ LockFree
    /\ LET u == pc[t].user IN
       \/ /\ u \notin published \/ u \in finished
          /\ Goes(t, Idle)
          /\ UNCHANGED <<ring, task, result, finished>>
       \/ /\ u \in published \ finished
          /\ u \in Ignored
          /\ IF pc[t].mode = "CHECK"
             THEN UNCHANGED <<task, result, finished>>
             ELSE /\ Complete({u}, [v \in User |-> "EOPNOTSUPP"])
                  /\ finished' = finished \cup {u}
          /\ Goes(t, Idle)
          /\ UNCHANGED ring
       \/ /\ u \in published \ finished
          /\ u \notin Ignored
          /\ PollRequest(t, u, pc[t].mode)
          /\ UNCHANGED <<task, result>>
    /\ UNCHANGED <<answer, handle, published, list, collected>>

\* PROGRESS looks once more after it has sent the queue.
ProgressLooks(t) ==
    /\ pc[t].op = "progress"
    /\ LET u == pc[t].user
           r == Checked(ring, handle[u]) IN
       /\ ring' = r
       /\ \/ /\ Ready(r, handle[u])
             /\ finished' = finished \cup {u}
             /\ Goes(t, [op |-> "finish", user |-> u])
          \/ /\ ~Ready(r, handle[u])
             /\ Goes(t, Idle)
             /\ UNCHANGED finished
    /\ UNCHANGED <<answer, handle, task, result, published, list, collected>>

-----------------------------------------------------------------------------
(* Waiting for the kernel, with the lock held *)

\* The loop of fasync_req_wait, or of fasync_wait_all: the blocking enter
\* returns when there is something to drain.
WaitDrains(t) ==
    /\ \/ pc[t].op \in {"finish", "reclaim", "result"} /\ Pending(ring, handle[pc[t].user])
       \/ pc[t].op = "all" /\ ring.inflight # 0
    /\ ring.cq # {}
    /\ ring' = Drain(ring)
    /\ UNCHANGED <<answer, pc, callVars>>

\* list_remove
Unlinked(l, c) ==
    LET k == CHOOSE i \in DOMAIN l : l[i] = c
    IN  SubSeq(l, 1, k - 1) \o SubSeq(l, k + 1, Len(l))

\* The rest of finish() for an annotated call.
FinishCall(t) ==
    /\ pc[t].op = "finish"
    /\ pc[t].user \in Call
    /\ LET c == pc[t].user IN
       /\ ~Pending(ring, handle[c])
       /\ ring' = Released(ring, <<handle[c]>>)
       /\ list' = Unlinked(list, c)
       /\ Complete({c}, [u \in User |-> ResultOf(ring, handle[c])])
    /\ Goes(t, Idle)
    /\ UNCHANGED <<answer, handle, published, finished, collected>>

\* The rest of finish() for an explicit read: its caller collects the slot.
FinishRead(t) ==
    /\ pc[t].op = "finish"
    /\ pc[t].user \in Read
    /\ LET u == pc[t].user IN
       /\ ~Pending(ring, handle[u])
       /\ Complete({u}, [v \in User |-> IF Live(ring, handle[u])
                                        THEN ResultOf(ring, handle[u]) ELSE "EINVAL"])
    /\ Goes(t, Idle)
    /\ UNCHANGED <<ring, answer, handle, published, finished, list, collected>>

\* reclaim has waited for the oldest call; queue() goes round again.
ReclaimEnds(t) ==
    /\ pc[t].op = "reclaim"
    /\ LET old == pc[t].user IN
       /\ ~Pending(ring, handle[old])
       /\ Queued(pc[t].for, Released(ring, <<handle[old]>>), Unlinked(list, old))
       /\ Complete({old}, [u \in User |-> ResultOf(ring, handle[old])])
    /\ Goes(t, Idle)
    /\ UNCHANGED <<answer, finished, collected>>

-----------------------------------------------------------------------------
(* The explicit API. A request that finds the table full fails and changes *)
(* nothing.                                                                *)

\* fasync_pread with fasync_track_read; other requests have no task.
Issue(t, u) ==
    /\ Enters(t)
    /\ u \notin Call
    /\ handle[u] = NoHandle
    /\ HasFree(ring)
    /\ ring' = Pushed(ring, u, IF u \in Read THEN u ELSE NoUser)
    /\ handle' = [handle EXCEPT ![u] = NextHandle(ring)]
    /\ task' = [task EXCEPT ![u] = IF u \in Read THEN "running" ELSE @]
    /\ published' = published \cup ({u} \cap Read)
    /\ UNCHANGED <<answer, pc, result, finished, list, collected>>

\* fasync_ready
IsReady(t, u) ==
    /\ Enters(t)
    /\ u \notin Call
    /\ handle[u] # NoHandle
    /\ ring' = Checked(ring, handle[u])
    /\ UNCHANGED <<answer, pc, callVars>>

\* fasync_submit
SubmitAll(t) ==
    /\ Enters(t)
    /\ ring' = Sent(ring)
    /\ UNCHANGED <<answer, pc, callVars>>

(* fasync_result, which a program may call again: the handle is then dead, *)
(* and -EINVAL is all that comes of it.                                    *)
ResultCalled(t, u) ==
    /\ Enters(t)
    /\ u \notin Call
    /\ handle[u] # NoHandle
    /\ Live(ring, handle[u])
    /\ ring' = Awaited(ring, handle[u])
    /\ Goes(t, [op |-> "result", user |-> u])
    /\ UNCHANGED <<answer, callVars>>

\* Mutant: the task of a read is left to its next poll.
ResultReturns_unreported(t) ==
    /\ pc[t].op = "result"
    /\ LET u == pc[t].user IN
       /\ ~Pending(ring, handle[u])
       /\ ring' = Released(ring, <<handle[u]>>)
       /\ collected' = [collected EXCEPT ![u] = ResultOf(ring, handle[u])]
    /\ Goes(t, Idle)
    /\ UNCHANGED <<answer, handle, task, result, published, finished, list>>

ResultReturns(t) ==
    /\ pc[t].op = "result"
    /\ LET u == pc[t].user
           owner == ring.req[handle[u].slot].task IN
       /\ ~Pending(ring, handle[u])
       /\ Complete({owner} \cap User, [v \in User |-> ResultOf(ring, handle[u])])
       /\ ring' = Released(ring, <<handle[u]>>)
       /\ collected' = [collected EXCEPT ![u] = ResultOf(ring, handle[u])]
    /\ Goes(t, Idle)
    /\ UNCHANGED <<answer, handle, published, finished, list>>

\* fasync_wait_all
WaitAllCalled(t) ==
    /\ Enters(t)
    /\ ring' = Sent(ring)
    /\ Goes(t, [op |-> "all"])
    /\ UNCHANGED <<answer, callVars>>

WaitAllReturns(t) ==
    /\ pc[t].op = "all"
    /\ ring.inflight = 0
    /\ Goes(t, Idle)
    /\ UNCHANGED <<ring, answer, callVars>>

-----------------------------------------------------------------------------
Init ==
    /\ RingInit
    /\ profile \in Profiles
    /\ pc = [t \in Thread |-> Idle]
    /\ handle = [u \in User |-> NoHandle]
    /\ task = [u \in User |-> "none"]
    /\ result = [u \in User |-> "none"]
    /\ published = {}
    /\ finished = {}
    /\ list = <<>>
    /\ collected = [u \in User |-> "none"]

\* What a thread does with the lock.
Continues(t) ==
    \/ ProgressLooks(t)
    \/ WaitDrains(t)
    \/ FinishCall(t)
    \/ FinishRead(t)
    \/ ReclaimEnds(t)
    \/ ResultReturns(t)
    \/ WaitAllReturns(t)

Next ==
    /\ \/ \E c \in Call : Begin(c)
       \/ \E t \in Thread, c \in Call : Submit(t, c)
       \/ \E t \in Thread, u \in Call \cup Read, m \in Mode : PollCalled(t, u, m)
       \/ \E t \in Thread : Poll(t) \/ Continues(t) \/ SubmitAll(t) \/ WaitAllCalled(t)
       \/ \E t \in Thread, u \in User : Issue(t, u) \/ IsReady(t, u) \/ ResultCalled(t, u)
       \/ \E u \in User : KernelCompletes(u) /\ UNCHANGED <<pc, callVars>>
    /\ UNCHANGED profile

Spec == Init /\ [][Next]_vars

-----------------------------------------------------------------------------
(* Properties *)

(* Every variable stays in its type. *)
UringTypeOK ==
    /\ ring \in Ring
    /\ answer \in [User -> Answer \cup {"none"}]
    /\ handle \in [User -> Handle]
    /\ task \in [User -> {"none", "running", "done"}]
    /\ published \subseteq User
    /\ finished \subseteq published
    /\ list \in Seq(Call)

(* A result reported to the framework or given to the program is what the  *)
(* kernel did for that very request, however slots are reused, handles go  *)
(* stale and polls come late. A call that was queued never completes with  *)
(* -EINVAL for want of its request.                                        *)
OwnAnswer ==
    \A u \in User :
        /\ collected[u] # "none" => collected[u] = answer[u]
        /\ task[u] = "done" /\ u \in published \ Ignored => result[u] = answer[u]

(* Slots, free list, g_inflight and the list of calls in flight agree:     *)
(* each free slot is in the free list once, g_inflight counts the requests *)
(* still waited for (so fasync_wait_all returns neither early nor never),  *)
(* and when no thread is inside the runtime the calls listed are those     *)
(* that hold a slot, each in a slot of its own. (With the types.)          *)
SlotsAccounted ==
    /\ UringTypeOK
    /\ Len(ring.free) = Cardinality(ToSet(ring.free))
    /\ ToSet(ring.free) = {s \in Slot : ring.req[s].state = "free"}
    /\ ring.inflight = Cardinality({s \in Slot : ring.req[s].state = "pending"})
    /\ \A i, j \in DOMAIN list : list[i] = list[j] => i = j
    /\ \A c \in Call : (\E i \in DOMAIN list : list[i] = c)
                          <=> c \in published /\ Live(ring, handle[c])
    /\ \A u, v \in User : Live(ring, handle[u]) /\ handle[u] = handle[v] => u = v

(* "when the table is full submit completes the finished calls itself, or  *)
(* waits for the oldest": an annotated call is turned away only when       *)
(* explicit requests hold every slot.                                      *)
OnlyExplicitFill ==
    [][\A c \in Call : result'[c] = "EAGAIN" /\ result[c] # "EAGAIN" =>
          /\ \A s \in Slot : ring.req[s].state # "free"
          /\ \A d \in Call : ~Live(ring, handle[d])]_vars

\* The kernel has a request, or has completed it.
Given(r, id) == (\E e \in r.kernel : e.id = id) \/ (\E e \in r.cq : e.id = id)

(* Whoever waits for the kernel keeps the runtime's lock, so nobody else   *)
(* could send it anything: what it waits for is then with the kernel or    *)
(* completed, never left in the queue, whatever calls, polls and explicit  *)
(* requests on other threads wrote there.                                  *)
WaitsForKernel ==
    \A t \in Thread :
        /\ pc[t].op \in {"finish", "reclaim", "result"} /\ Pending(ring, handle[pc[t].user])
              => Given(ring, handle[pc[t].user])
        /\ pc[t].op = "all" =>
              \A s \in Slot : ring.req[s].state = "pending" => Given(ring, IdOf(ring, s))

=============================================================================
