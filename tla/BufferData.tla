----------------------------- MODULE BufferData -----------------------------
(***************************************************************************)
(* What the pending marks are for: the contents of the objects that calls  *)
(* and the program share. Each step of PendingMarks that a stub and a      *)
(* runtime without shared marks take is joined with what it means for the  *)
(* data; the runtime reads inputs and writes outputs at moments of its own *)
(* choice, and the program stores and loads through the access hook.       *)
(*                                                                         *)
(* The specification implements BlockingCalls. An access is one step with  *)
(* the last look at the marks it waited for: a program whose own threads   *)
(* do not order an access and another thread's call on the same object is  *)
(* outside the promise.                                                    *)
(***************************************************************************)
EXTENDS PendingMarks

CONSTANTS
    Value,     \* what the program stores
    NoData     \* not read yet

ASSUME NoDataIsNot == NoData \notin Call \cup Value

VARIABLES
    content,   \* what the memory of each object really holds
    input,     \* what each object held, for the program, when it was
               \* passed to each call
    seen,      \* what each call read of its arguments
    ready      \* the arguments whose producers the runtime has waited out

dataVars == <<content, input, seen, ready>>
vars == <<markVars, dataVars>>

Data == Call \cup Value

(* What the program believes o holds: the output of the call producing it, *)
(* unless that call fails, or else the content.                            *)
Mem(o) ==
    IF \E c \in Call : mark[o][c] = "write" /\ ~shape[c].fails
    THEN CHOOSE c \in Call : mark[o][c] = "write" /\ ~shape[c].fails
    ELSE content[o]

-----------------------------------------------------------------------------
(* The stub *)

\* The object the stub passes next. A second mention changes nothing.
Passes(c, o) ==
    /\ input' = [input EXCEPT ![c][o] = IF @ = NoData THEN Mem(o) ELSE @]
    /\ UNCHANGED <<content, seen, ready>>

StubBegin(c) == Begin(c) /\ UNCHANGED dataVars
StubMarksOutput(c) == MarkPending(c, {}) /\ Passes(c, shape[c].out[at[c]])
StubMarksInput(c) == MarkInput(c) /\ Passes(c, Args(c)[at[c]])
StubSubmits(c) == Submit(c) /\ UNCHANGED dataVars

-----------------------------------------------------------------------------
(* The runtime *)

(* filc_async_wait_buffer before the buffer is handed to a device, or the  *)
(* access hook in the call's own body: no other call is producing o.       *)
RuntimeWaits(c, o) ==
    /\ stage[c] = "submitted"
    /\ mark[o][c] # "none"
    /\ wait_buffer_for(o, c, c) = {}
    /\ ready' = [ready EXCEPT ![c] = @ \cup {o}]
    /\ UNCHANGED <<markVars, content, input, seen>>

(* The device, or the body, reads the buffer some time later. *)
RuntimeReads(c, o) ==
    /\ stage[c] = "submitted"
    /\ mark[o][c] # "none"
    /\ o \in ready[c]
    /\ content[o] # c
    /\ seen' = [seen EXCEPT ![c][o] = content[o]]
    /\ UNCHANGED <<markVars, content, input, ready>>

(* The device, or the body, writes an output; "an output buffer needs no   *)
(* such wait: the stub already waited when it marked it".                  *)
RuntimeWrites(c, o) ==
    /\ stage[c] = "submitted"
    /\ mark[o][c] = "write"
    /\ ~shape[c].fails
    /\ content' = [content EXCEPT ![o] = c]
    /\ UNCHANGED <<markVars, input, seen, ready>>

\* Mutant: a buffer is given up before it is written.
Through_early(c, o) == mark[o][c] = "read" => seen[c][o] # NoData

(* A runtime gives a buffer up, or completes the call, when it is through  *)
(* with the buffers concerned.                                             *)
Through(c, o) ==
    \/ mark[o][c] = "none"
    \/ mark[o][c] = "read" /\ seen[c][o] # NoData
    \/ mark[o][c] = "write" /\ (shape[c].fails \/ content[o] = c)

RuntimeResolves(c, o) ==
    /\ Through(c, o)
    /\ ResolveBuffer(c, o)
    /\ UNCHANGED dataVars

RuntimeCompletes(c) ==
    /\ \A o \in Obj : Through(c, o) \/ (shape[c].fails /\ mark[o][c] = "read")
    /\ Complete(c)
    /\ input' = [input EXCEPT ![c] = [o \in Obj |-> NoData]]
    /\ seen' = [seen EXCEPT ![c] = [o \in Obj |-> NoData]]
    /\ ready' = [ready EXCEPT ![c] = {}]
    /\ UNCHANGED content

-----------------------------------------------------------------------------
(* The program. The compiled access tests the flag; only if it is set does *)
(* resolve_access wait for the object's owners.                            *)

\* Mutant: accesses are not tested.
AccessProceeds_untested(o) == TRUE

AccessProceeds(o) == flag[o] => wait_access_for(o, {}, own_access(o, {})) = {}

ProgramStores(o, v) ==
    /\ o \notin ReadOnly
    /\ AccessProceeds(o)
    /\ content' = [content EXCEPT ![o] = v]
    /\ UNCHANGED <<markVars, input, seen, ready>>

(* Marks without an owner, which nobody waits for. *)
ProgramMarks(o) == (MarkOwnerless(o) \/ DropOwnerless(o)) /\ UNCHANGED dataVars

ProgramResolves(o) ==
    /\ \A c \in Call : mark[o][c] # "write"
    /\ MarkResolved(o)
    /\ UNCHANGED dataVars

-----------------------------------------------------------------------------
DataInit ==
    /\ Init
    /\ content \in [Obj -> Value]
    /\ input = [c \in Call |-> [o \in Obj |-> NoData]]
    /\ seen = [c \in Call |-> [o \in Obj |-> NoData]]
    /\ ready = [c \in Call |-> {}]

DataNext ==
    \/ \E c \in Call :
        \/ StubBegin(c)
        \/ StubMarksOutput(c)
        \/ StubMarksInput(c)
        \/ StubSubmits(c)
        \/ RuntimeCompletes(c)
    \/ \E c \in Call, o \in Obj :
        \/ RuntimeWaits(c, o)
        \/ RuntimeReads(c, o)
        \/ RuntimeWrites(c, o)
        \/ RuntimeResolves(c, o)
    \/ \E o \in Obj :
        \/ ProgramMarks(o)
        \/ ProgramResolves(o)
    \/ \E o \in Obj, v \in Value : ProgramStores(o, v)

DataSpec == DataInit /\ [][DataNext]_vars

-----------------------------------------------------------------------------
(* Properties *)

(* Every variable stays in its type. *)
DataTypeOK ==
    /\ TypeOK
    /\ content \in [Obj -> Data]
    /\ input \in [Call -> [Obj -> Data \cup {NoData}]]
    /\ seen \in [Call -> [Obj -> Data \cup {NoData}]]
    /\ ready \in [Call -> SUBSET Obj]

(* A call reads of each argument what a blocking call would have read when *)
(* the program made it, however late its runtime gets to it and whatever   *)
(* the program and other calls have done since.                            *)
ReadsAsIfBlocking ==
    \A c \in Call, o \in Obj : seen[c][o] # NoData => seen[c][o] = input[c][o]

(* Whenever the program's access to an object goes ahead, by the inline    *)
(* test or after resolve_access, the object holds what a blocking program  *)
(* would find there.                                                       *)
LoadsAsIfBlocking ==
    \A o \in Obj : AccessProceeds(o) => content[o] = Mem(o)

(* "two calls never write one buffer at once and a write never overtakes a *)
(* call still reading it": whoever may be writing an object, each of its   *)
(* other owners came later and has not begun to read it.                   *)
WriterAlone ==
    \A c, d \in Call, o \in Obj :
        mark[o][c] = "write" /\ mark[o][d] # "none" /\ c # d
            => mark[o][d] = "read" /\ seen[d][o] = NoData /\ o \notin ready[d]

(* The framework's promise as a whole: the program cannot tell its calls   *)
(* from blocking ones.                                                     *)
Blocking == INSTANCE BlockingCalls WITH mem <- [o \in Obj |-> Mem(o)]
BlockingSpec == Blocking!Spec

=============================================================================
