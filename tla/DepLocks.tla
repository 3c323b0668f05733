------------------------------ MODULE DepLocks ------------------------------
(***************************************************************************)
(* The dependency locks of the framework (filc_async.c, "Dependency        *)
(* locks"): one lock per (value, space), shared by readers, exclusive for  *)
(* a writer, granted in arrival order to conflicting requests.             *)
(*                                                                         *)
(* Every step below runs under g_lock, which the code drops only inside    *)
(* wait_for and wait_changed; lock_take is therefore split exactly there.  *)
(* A member of Task is a call slot: when its call completes, the slot may  *)
(* begin another call with the same arguments, so that a stream of calls   *)
(* never has to end.                                                       *)
(***************************************************************************)
EXTENDS Integers, Sequences, FiniteSets

CONSTANTS
    Task,      \* call slots; each runs its stub on a thread of its own
    Key,       \* (value, space) pairs
    Lock,      \* struct filc_async_lock records
    NoLock,    \* a NULL lock pointer
    NoTask,    \* a NULL task pointer
    MaxDeps,   \* bound: dependency arguments of one call
    DepLists   \* the dependency arguments a call may have, in argument order

DepArg == [key : Key, write : BOOLEAN]

ASSUME TasksFinite == IsFiniteSet(Task)
ASSUME MaxDepsNat == MaxDeps \in Nat
ASSUME NullsAreNot == NoLock \notin Lock /\ NoTask \notin Task
ASSUME DepListsType ==
    \A d \in DepLists : d \in Seq(DepArg) /\ Len(d) =< MaxDeps

VARIABLES
    deps,      \* the dependency arguments of each slot's calls
    stage,     \* where each slot's call is: idle, stub or submitted
    at,        \* index of the dependency argument the stub is at
    status,    \* what each struct filc_async_hold is: none, waiting or held
    lockOf,    \* hold->lock
    older,     \* the requests that were on the lock when a hold arrived:
               \* the order of the lock's waiters list
    waitOn,    \* the holder lock_take waits for, NoTask in wait_changed
    table,     \* g_lock_buckets
    nholders,
    nwriters

vars == <<deps, stage, at, status, lockOf, older, waitOn, table, nholders,
          nwriters>>

\* The hold of a call's i-th dependency argument.
Hold == Task \X (1 .. MaxDeps)

Dep(h) == deps[h[1]][h[2]]

Requests(l) == {h \in Hold : lockOf[h] = l}
Holders(l) == {h \in Requests(l) : status[h] = "held"}
Writers(l) == {h \in Holders(l) : Dep(h).write}

\* Two requests of different calls exclude each other.
Conflict(g, h) == g[1] # h[1] /\ (Dep(g).write \/ Dep(h).write)

-----------------------------------------------------------------------------
(* lock_get: the key's lock, or a free one, cleared and put in the table.  *)

FreeLocks == Lock \ {table[k] : k \in Key}

lock_get(k, l) ==
    IF table[k] # NoLock THEN l = table[k] ELSE l \in FreeLocks

Cleared(count, k, l) == IF table[k] = NoLock THEN [count EXCEPT ![l] = 0]
                                             ELSE count

\* Mutant: a writer, too, looks at the writers' count only.
lock_conflict_writers(l, h, nh, nw) ==
    IF nw[l] = 0 THEN {} ELSE {g[1] : g \in {x \in Holders(l) : Conflict(x, h)}}

\* Mutant: the walk does not skip the call's own holds.
lock_conflict_own(l, h, nh, nw) ==
    {g[1] : g \in {x \in Holders(l) : Dep(x).write \/ Dep(h).write}}

(* lock_conflict: the calls holding l that h must wait for. The counts     *)
(* rule a conflict out before the holders are walked.                      *)
lock_conflict(l, h, nh, nw) ==
    IF (IF Dep(h).write THEN nh[l] = 0 ELSE nw[l] = 0)
    THEN {}
    ELSE {g[1] : g \in {x \in Holders(l) : Conflict(x, h)}}

\* Mutant: only writers are respected in the queue.
queued_behind_writers(h, ahead) ==
    \E w \in ahead : status[w] = "waiting" /\ w[1] # h[1] /\ Dep(w).write

\* Another call's conflicting request is ahead in the queue.
queued_behind(h, ahead) ==
    \E w \in ahead : status[w] = "waiting" /\ Conflict(w, h)

\* Mutant: a write hold is not counted as a writer.
Grant_uncounted(h, l, nh, nw) ==
    /\ status' = [status EXCEPT ![h] = "held"]
    /\ nholders' = [nh EXCEPT ![l] = @ + 1]
    /\ nwriters' = nw
    /\ at' = [at EXCEPT ![h[1]] = @ + 1]
    /\ waitOn' = [waitOn EXCEPT ![h[1]] = NoTask]

(* The end of lock_take: h leaves the waiters and becomes a holder of l.   *)
Grant(h, l, nh, nw) ==
    /\ status' = [status EXCEPT ![h] = "held"]
    /\ nholders' = [nh EXCEPT ![l] = @ + 1]
    /\ nwriters' = IF Dep(h).write THEN [nw EXCEPT ![l] = @ + 1] ELSE nw
    /\ at' = [at EXCEPT ![h[1]] = @ + 1]
    /\ waitOn' = [waitOn EXCEPT ![h[1]] = NoTask]

(* One pass of lock_take's loop that ends in wait_for(holder) or in        *)
(* wait_changed().                                                         *)
Wait(h, l, ahead, nh, nw) ==
    LET holders == lock_conflict(l, h, nh, nw) IN
    /\ \/ \E t \in holders : waitOn' = [waitOn EXCEPT ![h[1]] = t]
       \/ /\ holders = {}
          /\ queued_behind(h, ahead)
          /\ UNCHANGED waitOn
    /\ status' = [status EXCEPT ![h] = "waiting"]
    /\ nholders' = nh
    /\ nwriters' = nw
    /\ UNCHANGED at

CanGrant(h, l, ahead, nh, nw) ==
    lock_conflict(l, h, nh, nw) = {} /\ ~queued_behind(h, ahead)

-----------------------------------------------------------------------------
(* filc_async_begin: the slot's next call enters its stub. *)
Begin(t) ==
    /\ stage[t] = "idle"
    /\ stage' = [stage EXCEPT ![t] = "stub"]
    /\ UNCHANGED <<deps, at, status, lockOf, older, waitOn, table, nholders,
                   nwriters>>

(* filc_async_lock_word, filc_async_lock_ptr: lock_take up to its grant or *)
(* its first wait.                                                         *)
LockTake(t) ==
    LET h == <<t, at[t]>> IN
    /\ stage[t] = "stub"
    /\ at[t] =< Len(deps[t])
    /\ status[h] = "none"
    /\ \E l \in Lock :
        LET k == Dep(h).key
            ahead == Requests(l)
            nh == Cleared(nholders, k, l)
            nw == Cleared(nwriters, k, l) IN
        /\ lock_get(k, l)
        /\ table' = [table EXCEPT ![k] = l]
        /\ lockOf' = [lockOf EXCEPT ![h] = l]
        /\ older' = [older EXCEPT ![h] = ahead]
        /\ \/ CanGrant(h, l, ahead, nh, nw) /\ Grant(h, l, nh, nw)
           \/ Wait(h, l, ahead, nh, nw)
    /\ UNCHANGED <<deps, stage>>

\* Mutant: a request that has waited is granted only a lock nobody holds.
LockRetry_alone(t) ==
    LET h == <<t, at[t]>>
        l == lockOf[h] IN
    /\ stage[t] = "stub"
    /\ at[t] =< Len(deps[t])
    /\ status[h] = "waiting"
    /\ waitOn[t] = NoTask
    /\ \/ /\ CanGrant(h, l, older[h], nholders, nwriters)
          /\ Holders(l) = {}
          /\ Grant(h, l, nholders, nwriters)
       \/ /\ lock_conflict(l, h, nholders, nwriters) # {}
          /\ Wait(h, l, older[h], nholders, nwriters)
    /\ UNCHANGED <<deps, stage, lockOf, older, table>>

(* lock_take after a wait: the loop's next pass. A pass of wait_changed    *)
(* that finds nothing changed is a stuttering step.                        *)
LockRetry(t) ==
    LET h == <<t, at[t]>>
        l == lockOf[h] IN
    /\ stage[t] = "stub"
    /\ at[t] =< Len(deps[t])
    /\ status[h] = "waiting"
    /\ waitOn[t] = NoTask
    /\ \/ /\ CanGrant(h, l, older[h], nholders, nwriters)
          /\ Grant(h, l, nholders, nwriters)
       \/ /\ lock_conflict(l, h, nholders, nwriters) # {}
          /\ Wait(h, l, older[h], nholders, nwriters)
    /\ UNCHANGED <<deps, stage, lockOf, older, table>>

(* filc_async_submit: every lock is held and the runtime gets the call. *)
Submit(t) ==
    /\ stage[t] = "stub"
    /\ at[t] = Len(deps[t]) + 1
    /\ stage' = [stage EXCEPT ![t] = "submitted"]
    /\ UNCHANGED <<deps, at, status, lockOf, older, waitOn, table, nholders,
                   nwriters>>

(* locks_release: t's holds leave their locks; a lock with neither holder  *)
(* nor waiter leaves the table for the free list.                          *)
Held(t, l) == {h \in Holders(l) : h[1] = t}

\* Mutant: a lock is freed under the calls that wait for it.
Unused_waiters(t, l) == \A h \in Holders(l) : h[1] = t

Unused(t, l) == \A h \in Requests(l) : h[1] = t /\ status[h] = "held"

locks_release(t) ==
    /\ nholders' = [l \in Lock |-> nholders[l] - Cardinality(Held(t, l))]
    /\ nwriters' = [l \in Lock |-> nwriters[l]
                       - Cardinality({h \in Held(t, l) : Dep(h).write})]
    /\ table' = [k \in Key |->
                    IF table[k] \in Lock /\ Held(t, table[k]) # {}
                       /\ Unused(t, table[k])
                    THEN NoLock ELSE table[k]]
    /\ status' = [h \in Hold |->
                     IF h[1] = t /\ status[h] = "held" THEN "none"
                     ELSE status[h]]
    /\ lockOf' = [h \in Hold |->
                     IF h[1] = t /\ status[h] = "held" THEN NoLock
                     ELSE lockOf[h]]
    /\ older' = [h \in Hold |->
                    IF h[1] = t /\ status[h] = "held" THEN {}
                    ELSE {g \in older[h] : g[1] # t \/ status[g] # "held"}]

(* filc_async_complete, as far as the locks are concerned: the runtime     *)
(* reports a submitted call's completion; whoever waited for that call     *)
(* looks again.                                                            *)
Complete(t) ==
    /\ stage[t] = "submitted"
    /\ stage' = [stage EXCEPT ![t] = "idle"]
    /\ at' = [at EXCEPT ![t] = 1]
    /\ locks_release(t)
    /\ waitOn' = [u \in Task |-> IF waitOn[u] = t THEN NoTask ELSE waitOn[u]]
    /\ UNCHANGED deps

-----------------------------------------------------------------------------
Init ==
    /\ deps \in [Task -> DepLists]
    /\ stage = [t \in Task |-> "idle"]
    /\ at = [t \in Task |-> 1]
    /\ status = [h \in Hold |-> "none"]
    /\ lockOf = [h \in Hold |-> NoLock]
    /\ older = [h \in Hold |-> {}]
    /\ waitOn = [t \in Task |-> NoTask]
    /\ table = [k \in Key |-> NoLock]
    /\ nholders = [l \in Lock |-> 0]
    /\ nwriters = [l \in Lock |-> 0]

Next ==
    \E t \in Task :
        \/ Begin(t)
        \/ LockTake(t)
        \/ LockRetry(t)
        \/ Submit(t)
        \/ Complete(t)

Spec == Init /\ [][Next]_vars

(* A thread in its stub keeps running, wait_changed times out after a      *)
(* millisecond, and a runtime completes every call it was given.           *)
Fairness ==
    \A t \in Task :
        /\ WF_vars(LockTake(t))
        /\ WF_vars(LockRetry(t))
        /\ WF_vars(Submit(t))
        /\ WF_vars(Complete(t))

FairSpec == Spec /\ Fairness

-----------------------------------------------------------------------------
(* Properties *)

(* Every variable stays in its type: counts never go below zero, and a     *)
(* hold points at a lock exactly while it waits for it or holds it.        *)
TypeOK ==
    /\ deps \in [Task -> DepLists]
    /\ stage \in [Task -> {"idle", "stub", "submitted"}]
    /\ at \in [Task -> 1 .. MaxDeps + 1]
    /\ status \in [Hold -> {"none", "waiting", "held"}]
    /\ lockOf \in [Hold -> Lock \cup {NoLock}]
    /\ older \in [Hold -> SUBSET Hold]
    /\ waitOn \in [Task -> Task \cup {NoTask}]
    /\ table \in [Key -> Lock \cup {NoLock}]
    /\ nholders \in [Lock -> Nat]
    /\ nwriters \in [Lock -> Nat]

(* "a read lock is shared, a write lock is exclusive" (filc_async.h): two  *)
(* different calls never hold one key at once when one of them writes,     *)
(* whichever lock records, fresh or recycled, they went through.           *)
Exclusion ==
    \A g, h \in Hold :
        status[g] = "held" /\ status[h] = "held" /\ Dep(g).key = Dep(h).key
            => ~Conflict(g, h)

(* The counts lock_conflict trusts instead of walking the holders are the  *)
(* numbers of holders and of writers, so the "dependency lock counts out   *)
(* of step" abort in locks_release is unreachable.                         *)
CountsInStep ==
    \A l \in Lock :
        /\ nholders[l] = Cardinality(Holders(l))
        /\ nwriters[l] = Cardinality(Writers(l))

(* A call that waits for a lock or holds it keeps a pointer to the lock    *)
(* record while g_lock is dropped: that record is never freed or recycled  *)
(* for another key under it.                                               *)
LockNotRecycled ==
    \A h \in Hold : status[h] # "none" => table[Dep(h).key] = lockOf[h]

(* "Requests queue on the lock and are granted in the order they arrived": *)
(* while a request waits, no conflicting request of another call that      *)
(* arrived after it holds the lock.                                        *)
NoOvertaking ==
    \A g, h \in Hold :
        status[g] = "held" /\ status[h] = "waiting" /\ h \in older[g]
            => ~Conflict(g, h)

(* lock_take chooses the holder it waits for once and then sits in         *)
(* wait_for until that call completes: the chosen call still holds, in a   *)
(* conflicting mode, the very lock the waiter asked for.                   *)
WaitsForHolder ==
    \A t \in Task :
        waitOn[t] # NoTask =>
            \E g \in Hold :
                /\ g[1] = waitOn[t]
                /\ status[g] = "held"
                /\ lockOf[g] = lockOf[<<t, at[t]>>]
                /\ Conflict(g, <<t, at[t]>>)

(* The programs whose calls name different keys, all in one order. Locks   *)
(* are taken in argument order, and nothing else keeps calls from waiting  *)
(* for each other.                                                         *)
InOneOrder ==
    \E rank \in [Key -> 1 .. Cardinality(Key)] :
        \A t \in Task : \A i, j \in DOMAIN deps[t] :
            i < j => rank[deps[t][i].key] < rank[deps[t][j].key]

(* "so a stream of readers cannot keep a waiting writer out": in such a    *)
(* program a call that entered its stub gets all its locks and reaches its *)
(* runtime, although the other slots may go on making calls for ever.      *)
EveryCallSubmitted ==
    InOneOrder => \A t \in Task : stage[t] = "stub" ~> stage[t] = "submitted"

=============================================================================
