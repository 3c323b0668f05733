------------------------------ MODULE WaitAll ------------------------------
(***************************************************************************)
(* Groups of pending buffers (filc_async.c, filc_async_wait_all): a token  *)
(* that stays pending until every write mark its buffers had when the      *)
(* group was made is gone.                                                 *)
(*                                                                         *)
(* A group remembers mark records, which are freed and reused for other    *)
(* buffers while it waits; a generation tells it that its own mark is      *)
(* gone. It has no runtime thread: whoever polls it looks, and completes   *)
(* it, so several threads may do so at once. Each step runs under g_lock   *)
(* unless it says otherwise. Which of several write marks mark_resolved    *)
(* takes, and in which order a task's marks are freed, is left open here.  *)
(***************************************************************************)
EXTENDS Integers, Sequences, FiniteSets, SequencesExt

CONSTANTS
    Thread,
    Task,     \* calls and a runtime's own tasks
    Join,     \* groups; the token of a group is an object of the same name
    Buffer,
    Record,   \* mark records
    MaxMarks, \* bound on the marks ever made
    None      \* a NULL object or owner

ASSUME NoneIsNot == None \notin Task \cup Join \cup Buffer
ASSUME JoinsAreNotTasks == Task \cap Join = {}
ASSUME RecordsFinite == IsFiniteSet(Record)
ASSUME MaxMarksNat == MaxMarks \in Nat

VARIABLES
    rec,         \* the mark records; a free one has no object
    free,        \* g_free_marks, then the records not yet allocated
    state,       \* new, running or done
    snap,        \* runtime_data of each group: its entries, {} when NULL
    stack,       \* join_poll frames of each thread, innermost first
    outstanding  \* records each group captured and that were not removed
                 \* since; the code has no such thing

markVars == <<rec, free, outstanding>>
vars == <<markVars, state, snap, stack>>

Object == Buffer \cup Join
Mode == {"CHECK", "PROGRESS", "BLOCK"}
Entry == [mark : Record, gen : Nat]
Frame == [at : {"called", "head", "ask", "complete", "clear"}, join : Join, mode : Mode,
          s : SUBSET Entry, todo : SUBSET Entry]

-----------------------------------------------------------------------------
(* Marks *)

Marks(o) == {m \in Record : rec[m].obj = o}
Writes(o) == {m \in Marks(o) : rec[m].write}
Owned(o, t) == {m \in Marks(o) : rec[m].owner = t}

\* Every mark made gave its record a new generation.
MarksMade == FoldFunction(+, 0, [m \in Record |-> rec[m].gen])

Removed(r, M) ==
    [m \in Record |-> IF m \in M THEN [r[m] EXCEPT !.obj = None, !.owner = None, !.write = FALSE]
                                 ELSE r[m]]

\* mark_remove of the records in M: no group waits for them any more.
RemoveMarks(M) ==
    /\ rec' = Removed(rec, M)
    /\ \E s \in SetToSeqs(M) : free' = s \o free
    /\ outstanding' = [j \in Join |-> outstanding[j] \ M]

\* mark_add of o for t, with the free list f: its first record, renewed.
Added(r, f, o, t, write) ==
    /\ f # <<>>
    /\ MarksMade < MaxMarks
    /\ rec' = [r EXCEPT ![Head(f)] = [obj |-> o, gen |-> @.gen + 1, owner |-> t, write |-> write]]
    /\ free' = Tail(f)

\* mark_remove of M, then mark_add.
Replace(M, o, t, write) ==
    /\ \E s \in SetToSeqs(M) : Added(Removed(rec, M), s \o free, o, t, write)
    /\ outstanding' = [j \in Join |-> outstanding[j] \ M]

\* mark_remove of M, then mark_make_write of own.
Upgrade(M, own) ==
    /\ rec' = [m \in Record |-> IF m \in own THEN [rec[m] EXCEPT !.write = TRUE]
                                ELSE Removed(rec, M)[m]]
    /\ \E s \in SetToSeqs(M) : free' = s \o free
    /\ outstanding' = [j \in Join |-> outstanding[j] \ M]

Begin(t) ==
    /\ state[t] = "new"
    /\ state' = [state EXCEPT ![t] = "running"]
    /\ UNCHANGED <<markVars, snap, stack>>

(* filc_async_mark_pending once the other owners are gone; t may be None.  *)
MarkPending(t, o) ==
    /\ t # None => state[t] = "running"
    /\ \A m \in Marks(o) : rec[m].owner \in {None, t}
    /\ LET own == IF t = None THEN {} ELSE Owned(o, t) IN
       \/ own = {} /\ Replace(Owned(o, None), o, t, TRUE)
       \/ own # {} /\ Upgrade(Owned(o, None), own)
    /\ UNCHANGED <<state, snap, stack>>

\* filc_async_mark_shared and filc_async_mark_input: neither waits.
MarkShared(t, o) ==
    /\ state[t] = "running"
    /\ \/ Owned(o, t) = {} /\ Replace({}, o, t, TRUE)
       \/ Owned(o, t) # {} /\ Upgrade({}, Owned(o, t))
    /\ UNCHANGED <<state, snap, stack>>

MarkInput(t, o) ==
    /\ state[t] = "running"
    /\ Owned(o, t) = {}
    /\ Replace({}, o, t, FALSE)
    /\ UNCHANGED <<state, snap, stack>>

\* filc_async_mark_resolved takes one write mark, whoever's it is.
MarkResolved(o) ==
    /\ \E m \in Writes(o) : RemoveMarks({m})
    /\ UNCHANGED <<state, snap, stack>>

\* filc_async_resolve_buffer, by the runtime of a running task
ResolveBuffer(t, o) ==
    /\ state[t] = "running"
    /\ Owned(o, t) # {}
    /\ RemoveMarks(Owned(o, t))
    /\ UNCHANGED <<state, snap, stack>>

\* filc_async_complete: nothing the second time.
Complete(t) ==
    \/ /\ state[t] = "running"
       /\ state' = [state EXCEPT ![t] = "done"]
       /\ RemoveMarks({m \in Record : rec[m].owner = t})
    \/ /\ state[t] # "running"
       /\ UNCHANGED <<state, markVars>>

TaskCompletes(t) ==
    /\ state[t] = "running"
    /\ Complete(t)
    /\ UNCHANGED <<snap, stack>>

-----------------------------------------------------------------------------
(* Making a group *)

Captured(O) == {m \in Record : rec[m].obj \in O /\ rec[m].write}

\* filc_async_wait_all of O; with no write mark there is no group to wait for.
MakeGroup(j, O) ==
    /\ state[j] = "new"
    /\ \A o \in O \cap Join : state[o] # "new"
    /\ LET M == Captured(O) IN
       \/ /\ M = {}
          /\ state' = [state EXCEPT ![j] = "done"]
          /\ UNCHANGED <<markVars, snap>>
       \/ /\ M # {}
          /\ Added(rec, free, j, j, TRUE)
          /\ state' = [state EXCEPT ![j] = "running"]
          /\ snap' = [snap EXCEPT ![j] = {[mark |-> m, gen |-> rec[m].gen] : m \in M}]
          /\ outstanding' = [outstanding EXCEPT ![j] = M]
    /\ UNCHANGED stack

-----------------------------------------------------------------------------
(* join_poll *)

\* Mutant: generations are not compared.
join_entry_pending_reused(e) == rec[e.mark].obj # None

join_entry_pending(e) == rec[e.mark].obj # None /\ rec[e.mark].gen = e.gen

Top(th) == stack[th][1]
NewFrame(j, mode) == [at |-> "called", join |-> j, mode |-> mode, s |-> {}, todo |-> {}]
Becomes(th, f) == stack' = [stack EXCEPT ![th][1] = f]
Return(th) == stack' = [stack EXCEPT ![th] = Tail(@)]
At(th, where) == stack[th] # <<>> /\ Top(th).at = where

\* The framework saw the group running and, without g_lock, calls poll.
PollCalled(th, j, mode) ==
    /\ stack[th] = <<>>
    /\ state[j] = "running"
    /\ stack' = [stack EXCEPT ![th] = <<NewFrame(j, mode)>>]
    /\ UNCHANGED <<markVars, state, snap>>

\* runtime_data is read before g_lock is taken.
ReadsSnapshot(th) ==
    /\ At(th, "called")
    /\ Becomes(th, [Top(th) EXCEPT !.at = "head", !.s = snap[Top(th).join]])
    /\ UNCHANGED <<markVars, state, snap>>

\* The entries of S whose owner is to be polled.
Askable(S) == {e \in S : join_entry_pending(e) /\ rec[e.mark].owner # None}

\* Mutant: an owner that is a group is not polled.
Asks_tasks(th, f, S) ==
    \E e \in Askable(S) :
        stack' = [stack EXCEPT ![th][1] = [f EXCEPT !.at = "ask", !.todo = S \ {e}]]

(* g_lock is dropped to poll the owner of an entry. What a task's runtime  *)
(* does then is TaskCompletes or ResolveBuffer; a group's is join_poll.    *)
Asks(th, f, S) ==
    \E e \in Askable(S) :
        LET owner == rec[e.mark].owner
            below == <<[f EXCEPT !.at = "ask", !.todo = S \ {e}]>> \o Tail(stack[th])
            mode == IF f.mode = "CHECK" THEN "CHECK" ELSE "PROGRESS" IN
        stack' = [stack EXCEPT ![th] =
                     IF owner \in Join THEN <<NewFrame(owner, mode)>> \o below ELSE below]

\* Mutant: the snapshot is dropped before the group is completed.
Looks_dropped(th, f, S) ==
    /\ Askable(S) = {}
    /\ \/ /\ \A e \in f.s : ~join_entry_pending(e)
          /\ Becomes(th, [f EXCEPT !.at = "complete", !.todo = {}])
          /\ snap' = [snap EXCEPT ![f.join] = {}]
       \/ /\ \E e \in f.s : join_entry_pending(e)
          /\ IF f.mode = "BLOCK" THEN Becomes(th, [f EXCEPT !.at = "head", !.todo = {}])
                                 ELSE Return(th)
          /\ UNCHANGED snap

(* All owners have been asked: the group is over, or has to go on. *)
Looks(th, f, S) ==
    /\ Askable(S) = {}
    /\ \/ /\ \A e \in f.s : ~join_entry_pending(e)
          /\ Becomes(th, [f EXCEPT !.at = "complete", !.todo = {}])
       \/ /\ \E e \in f.s : join_entry_pending(e)
          /\ IF f.mode = "BLOCK" THEN Becomes(th, [f EXCEPT !.at = "head", !.todo = {}])
                                 ELSE Return(th)
    /\ UNCHANGED snap

\* The head of the loop, and everything up to where g_lock is let go.
LoopHead(th) ==
    /\ At(th, "head")
    /\ LET f == Top(th) IN
       \/ state[f.join] # "running" /\ Return(th) /\ UNCHANGED snap
       \/ state[f.join] = "running" /\ Asks(th, f, f.s) /\ UNCHANGED snap
       \/ state[f.join] = "running" /\ Looks(th, f, f.s)
    /\ UNCHANGED <<markVars, state>>

\* g_lock again, after an owner has been polled.
LoopGoesOn(th) ==
    /\ At(th, "ask")
    /\ LET f == Top(th) IN
       \/ Asks(th, f, f.todo) /\ UNCHANGED snap
       \/ Looks(th, f, f.todo)
    /\ UNCHANGED <<markVars, state>>

CompletesGroup(th) ==
    /\ At(th, "complete")
    /\ Complete(Top(th).join)
    /\ Becomes(th, [Top(th) EXCEPT !.at = "clear"])
    /\ UNCHANGED snap

DropsSnapshot(th) ==
    /\ At(th, "clear")
    /\ snap' = [snap EXCEPT ![Top(th).join] = {}]
    /\ Return(th)
    /\ UNCHANGED <<markVars, state>>

-----------------------------------------------------------------------------
Init ==
    /\ rec = [m \in Record |-> [obj |-> None, gen |-> 0, owner |-> None, write |-> FALSE]]
    /\ free = SetToSeq(Record)
    /\ state = [t \in Task \cup Join |-> "new"]
    /\ snap = [j \in Join |-> {}]
    /\ stack = [th \in Thread |-> <<>>]
    /\ outstanding = [j \in Join |-> {}]

Polls(th) ==
    \/ ReadsSnapshot(th)
    \/ LoopHead(th)
    \/ LoopGoesOn(th)
    \/ CompletesGroup(th)
    \/ DropsSnapshot(th)

\* Objects the program has: its buffers and the tokens it was given.
Known == Buffer \cup {j \in Join : state[j] # "new"}

Next ==
    \/ \E t \in Task : Begin(t) \/ TaskCompletes(t)
    \/ \E t \in Task \cup {None}, o \in Known : MarkPending(t, o)
    \/ \E t \in Task, o \in Known : MarkShared(t, o) \/ MarkInput(t, o) \/ ResolveBuffer(t, o)
    \/ \E o \in Known : MarkResolved(o)
    \/ \E j \in Join, O \in SUBSET Known : MakeGroup(j, O)
    \/ \E th \in Thread, j \in Join, mode \in Mode : PollCalled(th, j, mode)
    \/ \E th \in Thread : Polls(th)

Spec == Init /\ [][Next]_vars

(* Threads go on, runtimes complete their tasks, and the program resolves  *)
(* what it has marked without an owner.                                    *)
Fairness ==
    /\ \A th \in Thread : WF_vars(Polls(th))
    /\ \A t \in Task : WF_vars(TaskCompletes(t))
    /\ \A o \in Object : WF_vars(MarkResolved(o) /\ \A m \in Writes(o) : rec[m].owner = None)

FairSpec == Spec /\ Fairness

-----------------------------------------------------------------------------
(* Properties *)

(* Every variable stays in its type, and a free record is blank. *)
JoinTypeOK ==
    /\ rec \in [Record -> [obj : Object \cup {None}, gen : Nat,
                           owner : Task \cup Join \cup {None}, write : BOOLEAN]]
    /\ \A m \in Record : rec[m].obj = None => rec[m].owner = None /\ ~rec[m].write
    /\ ToSet(free) = {m \in Record : rec[m].obj = None}
    /\ state \in [Task \cup Join -> {"new", "running", "done"}]
    /\ snap \in [Join -> SUBSET Entry]
    /\ \A th \in Thread : \A i \in DOMAIN stack[th] : stack[th][i] \in Frame

(* The snapshot says exactly which of the captured marks are still there,  *)
(* however their records are freed and reused, and a group is never over   *)
(* while one of them is: "captures current marks; later marks on an input  *)
(* are not included". (With the types.)                                    *)
GroupExact ==
    /\ JoinTypeOK
    /\ \A j \in Join :
          /\ state[j] = "running" =>
                {e.mark : e \in {x \in snap[j] : join_entry_pending(x)}} = outstanding[j]
          /\ state[j] = "done" => outstanding[j] = {}

(* join_poll reads its snapshot before it takes g_lock and other threads   *)
(* drop it when they are done: a poll that finds the group still running   *)
(* has one to look at.                                                     *)
SnapshotThere ==
    \A th \in Thread : \A i \in DOMAIN stack[th] :
        stack[th][i].at \in {"head", "ask"} /\ state[stack[th][i].join] = "running"
            => stack[th][i].s # {}

(* A thread that polls a group, and a blocking one above all, comes back   *)
(* once its tasks have completed, groups of groups included.               *)
PollsReturn == \A th \in Thread : []<>(stack[th] = <<>>)

=============================================================================
