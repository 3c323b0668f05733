---------------------------- MODULE PendingMarks ----------------------------
(***************************************************************************)
(* The pending marks of the framework (filc_async.c, "Pending buffers")    *)
(* and the pending flag of the native half (filc_async_native.c).          *)
(*                                                                         *)
(* A mark says that a call owns an object: as its producer (a write mark)  *)
(* or as one of its readers (a read mark). The flag in the object's header *)
(* is what the compiler's inline test reads without g_lock. Each step runs *)
(* under g_lock; a loop that drops it to wait for an owner looks at the    *)
(* marks again when it has it back, so the wait is the guard of the step   *)
(* that follows it.                                                        *)
(***************************************************************************)
EXTENDS Integers, Sequences

CONSTANTS
    Call,      \* tasks: annotated calls, and tasks a runtime starts itself
    NoCall,    \* a NULL owner
    Obj,       \* live Fil-C objects
    ReadOnly,  \* those with FILC_OBJECT_FLAG_READONLY
    Shapes     \* [out, in, fails]: the objects a call's stub marks, in
               \* argument order, and whether the call will fail

ASSUME NoCallIsNot == NoCall \notin Call
ASSUME ShapesType ==
    \A s \in Shapes : s \in [out : Seq(Obj), in : Seq(Obj), fails : BOOLEAN]

VARIABLES
    shape,     \* the arguments of each call
    stage,     \* new, stub, submitted or done
    at,        \* index of the buffer argument the stub is at
    mark,      \* mark[o][c]: the mark c holds on o, if any
    flag       \* FILC_OBJECT_FLAG_ASYNC_PENDING of each object

markVars == <<shape, stage, at, mark, flag>>

Owner == Call \cup {NoCall}
MarkKind == {"none", "read", "write"}

-----------------------------------------------------------------------------
(* One object's marks m, a function from owners to kinds of mark, and the  *)
(* pending flag after each change to them.                                 *)

mark_find(m) == \E c \in Owner : m[c] # "none"
writer_find(m) == \E c \in Owner : m[c] = "write"

\* filc_native_zasync_set_pending
PENDING_CLEAR(o) == FALSE
PENDING_SET(o) == TRUE

\* Mutant: read marks never set the flag.
PENDING_READERS_none(o) == FALSE

PENDING_READERS(o) == o \notin ReadOnly

\* mark_add: the flag f once c's mark of kind k is added.
FlagAdded(o, m, f, k) ==
    IF k = "write"
    THEN IF writer_find(m) THEN f ELSE PENDING_SET(o)
    ELSE IF mark_find(m) THEN f ELSE PENDING_READERS(o)

\* mark_make_write: the flag once a mark is a write mark.
FlagMadeWrite(o, m, f) == IF writer_find(m) THEN f ELSE PENDING_SET(o)

\* Mutant: the flag goes with the last write mark, whoever still reads.
FlagRemoved_readers(o, m, f, c) ==
    IF m[c] = "none" THEN f
    ELSE IF ~writer_find([m EXCEPT ![c] = "none"]) THEN PENDING_CLEAR(o)
    ELSE f

\* mark_remove: the flag once c's mark is gone.
FlagRemoved(o, m, f, c) ==
    LET left == [m EXCEPT ![c] = "none"] IN
    IF m[c] = "none" THEN f
    ELSE IF ~mark_find(left) THEN PENDING_CLEAR(o)
    ELSE IF m[c] = "write" /\ ~writer_find(left) THEN PENDING_READERS(o)
    ELSE f

\* mark_owned ? mark_make_write : mark_add, for a write mark of c.
FlagOwned(o, m, f, c) ==
    IF m[c] = "none" THEN FlagAdded(o, m, f, "write")
    ELSE IF m[c] = "read" THEN FlagMadeWrite(o, m, f)
    ELSE f

-----------------------------------------------------------------------------
(* Who must be waited for. act is the set of calls active on the thread.   *)

\* Mutant: readers that are active are waited for like any other.
mark_find_other_active(o, c, act) == {d \in Call \ {c} : mark[o][d] # "none"}

\* mark_find_other: owners that keep c from marking o for itself.
mark_find_other(o, c, act) ==
    {d \in Call \ {c} : mark[o][d] = "write" \/ (mark[o][d] = "read" /\ d \notin act)}

\* wait_buffer_locked: producers of o other than c and the running body.
wait_buffer_for(o, c, body) ==
    {d \in Call \ {c, body} : mark[o][d] = "write"}

\* Mutant: no access is a call's own.
own_access_never(o, act) == FALSE

\* wait_access_locked: an access is an active call's own if the call owns o.
own_access(o, act) == \E d \in act : mark[o][d] # "none"

\* wait_access_locked: an active call's own access waits for the other
\* producers, any other access for every owner.
wait_access_for(o, act, own) ==
    {d \in Call \ act : mark[o][d] = "write" \/ (mark[o][d] = "read" /\ ~own)}

-----------------------------------------------------------------------------
(* The stub of an annotated call: begin, output marks, input marks, submit *)

Args(c) == shape[c].out \o shape[c].in

Begin(c) ==
    /\ stage[c] = "new"
    /\ stage' = [stage EXCEPT ![c] = "stub"]
    /\ UNCHANGED <<shape, at, mark, flag>>

(* The end of filc_async_mark_pending's loop for a task: every other owner *)
(* is gone, an ownerless mark is replaced.                                 *)
mark_pending(c, o, act) ==
    LET m == [mark[o] EXCEPT ![NoCall] = "none"]
        f == FlagRemoved(o, mark[o], flag[o], NoCall) IN
    /\ mark_find_other(o, c, act) = {}
    /\ mark' = [mark EXCEPT ![o] = [m EXCEPT ![c] = "write"]]
    /\ flag' = [flag EXCEPT ![o] = FlagOwned(o, m, f, c)]

(* filc_async_mark_input: never waits; a task that owns o keeps its mark. *)
mark_input(c, o) ==
    /\ mark' = [mark EXCEPT ![o][c] = IF @ = "none" THEN "read" ELSE @]
    /\ flag' = [flag EXCEPT ![o] = IF mark[o][c] = "none"
                                   THEN FlagAdded(o, mark[o], @, "read") ELSE @]

MarkPending(c, act) ==
    /\ stage[c] = "stub"
    /\ at[c] =< Len(shape[c].out)
    /\ mark_pending(c, shape[c].out[at[c]], act)
    /\ at' = [at EXCEPT ![c] = @ + 1]
    /\ UNCHANGED <<shape, stage>>

MarkInput(c) ==
    /\ stage[c] = "stub"
    /\ at[c] > Len(shape[c].out)
    /\ at[c] =< Len(Args(c))
    /\ mark_input(c, Args(c)[at[c]])
    /\ at' = [at EXCEPT ![c] = @ + 1]
    /\ UNCHANGED <<shape, stage>>

Submit(c) ==
    /\ stage[c] = "stub"
    /\ at[c] > Len(Args(c))
    /\ stage' = [stage EXCEPT ![c] = "submitted"]
    /\ UNCHANGED <<shape, at, mark, flag>>

-----------------------------------------------------------------------------
(* What a runtime does for a call it was given *)

(* filc_async_mark_shared: a write mark without waiting for other owners. *)
SharedMark(c, o) ==
    /\ mark' = [mark EXCEPT ![o][c] = "write"]
    /\ flag' = [flag EXCEPT ![o] = FlagOwned(o, mark[o], @, c)]

MarkShared(c, o) ==
    /\ stage[c] = "submitted"
    /\ SharedMark(c, o)
    /\ UNCHANGED <<shape, stage, at>>

(* filc_async_resolve_buffer: c gives o up before it completes. *)
ResolveBuffer(c, o) ==
    /\ stage[c] = "submitted"
    /\ mark[o][c] # "none"
    /\ mark' = [mark EXCEPT ![o][c] = "none"]
    /\ flag' = [flag EXCEPT ![o] = FlagRemoved(o, mark[o], @, c)]
    /\ UNCHANGED <<shape, stage, at>>

(* filc_async_complete: every mark c still holds is removed. A completion  *)
(* reported again finds state # 1 and changes nothing.                     *)
Complete(c) ==
    /\ stage[c] = "submitted"
    /\ stage' = [stage EXCEPT ![c] = "done"]
    /\ mark' = [o \in Obj |-> [mark[o] EXCEPT ![c] = "none"]]
    /\ flag' = [o \in Obj |-> FlagRemoved(o, mark[o], flag[o], c)]
    /\ UNCHANGED <<shape, at>>

-----------------------------------------------------------------------------
(* The program's own marks *)

(* filc_async_mark_pending(NULL, o): waits for every owner and replaces an *)
(* older ownerless mark.                                                   *)
MarkOwnerless(o) ==
    LET m == [mark[o] EXCEPT ![NoCall] = "none"]
        f == FlagRemoved(o, mark[o], flag[o], NoCall) IN
    /\ mark_find_other(o, NoCall, {}) = {}
    /\ mark' = [mark EXCEPT ![o][NoCall] = "write"]
    /\ flag' = [flag EXCEPT ![o] = FlagAdded(o, m, f, "write")]
    /\ UNCHANGED <<shape, stage, at>>

(* A filc_async_mark_pending, a stub's or the program's, that has to wait  *)
(* for an owner may have removed the ownerless mark before it waits.       *)
DropOwnerless(o) ==
    /\ mark[o][NoCall] = "write"
    /\ mark_find_other(o, NoCall, {}) # {}
    /\ mark' = [mark EXCEPT ![o][NoCall] = "none"]
    /\ flag' = [flag EXCEPT ![o] = FlagRemoved(o, mark[o], @, NoCall)]
    /\ UNCHANGED <<shape, stage, at>>

(* filc_async_mark_resolved: removes one write mark, whoever owns it. *)
MarkResolved(o) ==
    /\ \E c \in Owner :
        /\ mark[o][c] = "write"
        /\ mark' = [mark EXCEPT ![o][c] = "none"]
        /\ flag' = [flag EXCEPT ![o] = FlagRemoved(o, mark[o], @, c)]
    /\ UNCHANGED <<shape, stage, at>>

-----------------------------------------------------------------------------
Init ==
    /\ shape \in [Call -> Shapes]
    /\ stage = [c \in Call |-> "new"]
    /\ at = [c \in Call |-> 1]
    /\ mark = [o \in Obj |-> [c \in Owner |-> "none"]]
    /\ flag = [o \in Obj |-> FALSE]

Next ==
    \/ \E c \in Call :
        \/ Begin(c)
        \/ \E act \in SUBSET {d \in Call : stage[d] = "submitted"} : MarkPending(c, act)
        \/ MarkInput(c)
        \/ Submit(c)
        \/ Complete(c)
    \/ \E c \in Call, o \in Obj : MarkShared(c, o) \/ ResolveBuffer(c, o)
    \/ \E o \in Obj : MarkOwnerless(o) \/ DropOwnerless(o) \/ MarkResolved(o)

Spec == Init /\ [][Next]_markVars

-----------------------------------------------------------------------------
(* Properties *)

(* Every variable stays in its type. *)
TypeOK ==
    /\ shape \in [Call -> Shapes]
    /\ stage \in [Call -> {"new", "stub", "submitted", "done"}]
    /\ at \in [Call -> Nat \ {0}]
    /\ mark \in [Obj -> [Owner -> MarkKind]]
    /\ flag \in [Obj -> BOOLEAN]

(* The flag compiled code tests without the lock says exactly whether an   *)
(* access has to ask the framework: some call produces the object, or some *)
(* call reads it and the program could store into it. It is never set late *)
(* or cleared early, whatever marks come and go, in whatever order.        *)
FlagExact ==
    \A o \in Obj :
        flag[o] <=> \/ writer_find(mark[o])
                    \/ mark_find(mark[o]) /\ o \notin ReadOnly

=============================================================================
