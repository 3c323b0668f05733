------------------------------ MODULE CallStack ------------------------------
(***************************************************************************)
(* Who waits for whom. Threads of the program make annotated calls, the    *)
(* runtimes run the calls' bodies on those threads (in submit, or later    *)
(* when a waiting thread polls the call), bodies make calls of their own,  *)
(* and every one of them may have to wait for a call that owns an object.  *)
(*                                                                         *)
(* A thread is a stack of frames, the code of the framework it is in:      *)
(*   stub    the stub of call is marking its buffers                       *)
(*   submit  the runtime's submit of call (filc_async_submit)              *)
(*   body    the body of call (filc_async_run)                             *)
(*   buffer  filc_async_wait_buffer(call, obj)                             *)
(*   access  the access hook, or filc_async_wait_access, on obj            *)
(*   wait    wait_for(call)                                                *)
(* The marks are those of PendingMarks, whose steps the threads take.      *)
(***************************************************************************)
EXTENDS PendingMarks

CONSTANTS
    Thread,
    MaxDepth,  \* bound on the frames from which a thread goes deeper
    Below      \* a strict order on objects, as pairs

ASSUME MaxDepthNat == MaxDepth \in Nat

VARIABLES
    stack,     \* the frames of each thread, outermost first
    ran,       \* the calls whose body has been run
    kept       \* whether the program has kept to the order so far

stackVars == <<stack, ran, kept>>
allVars == <<markVars, stackVars>>

Frame == [op : {"stub", "submit", "body", "buffer", "access", "wait"},
          call : Owner, obj : Obj \cup {NoCall}, own : BOOLEAN]

CallFrame(op, c) == [op |-> op, call |-> c, obj |-> NoCall, own |-> FALSE]

Top(t) == stack[t][Len(stack[t])]
In(t, op) == stack[t] # <<>> /\ Top(t).op = op
InProgram(t) == stack[t] = <<>> \/ In(t, "body")
Frames(op, c) ==
    {t \in Thread : \E i \in DOMAIN stack[t] : stack[t][i].op = op /\ stack[t][i].call = c}

Push(t, f) == stack' = [stack EXCEPT ![t] = Append(@, f)]
Pop(t) == stack' = [stack EXCEPT ![t] = SubSeq(@, 1, Len(@) - 1)]

\* g_active[0 .. g_nactive - 1] of the thread.
Active(t) == {c \in Call : t \in Frames("submit", c) \cup Frames("body", c)}

\* g_running_body of the thread: the innermost body.
RunningBody(t) ==
    IF \E c \in Call : t \in Frames("body", c)
    THEN stack[t][CHOOSE i \in DOMAIN stack[t] :
                      /\ stack[t][i].op = "body"
                      /\ \A j \in DOMAIN stack[t] : stack[t][j].op = "body" => j =< i].call
    ELSE NoCall

-----------------------------------------------------------------------------
(* The discipline under which programs are free of deadlock: calls are     *)
(* given, and bodies touch, objects in one order, those of an active call  *)
(* first. Programs need not keep to it; kept says whether this one has.    *)

Touches(c) == {Args(c)[i] : i \in DOMAIN Args(c)}

\* o comes after everything the calls active on t were given.
After(t, o) == \A c \in Active(t) : \A p \in Touches(c) : <<p, o>> \in Below

PassesInOrder(t, c) ==
    /\ \A o \in Touches(c) : After(t, o)
    /\ \A i, j \in DOMAIN Args(c) : i < j => <<Args(c)[i], Args(c)[j]>> \in Below

TouchesInOrder(t, o) == Active(t) # {} => o \in Touches(RunningBody(t)) \/ After(t, o)

-----------------------------------------------------------------------------
(* wait_for *)

WaitFor(t, c) == Push(t, CallFrame("wait", c))

WaitOver(t) ==
    /\ In(t, "wait")
    /\ stage[Top(t).call] = "done"
    /\ Pop(t)
    /\ UNCHANGED <<markVars, ran, kept>>

-----------------------------------------------------------------------------
(* The program's calls *)

CallMade(t, c) ==
    /\ InProgram(t)
    /\ Len(stack[t]) < MaxDepth
    /\ Begin(c)
    /\ Push(t, CallFrame("stub", c))
    /\ kept' = (kept /\ PassesInOrder(t, c))
    /\ UNCHANGED ran

\* An explicit read (fasync_track_read): a task without a stub or a body,
\* which shares the buffer with whoever owns it and waits for nobody.
TracksRead(t, c, o) ==
    /\ InProgram(t)
    /\ stage[c] = "new"
    /\ Args(c) = <<>>
    /\ stage' = [stage EXCEPT ![c] = "submitted"]
    /\ SharedMark(c, o)
    /\ ran' = ran \cup {c}
    /\ UNCHANGED <<shape, at, stack, kept>>

MarksOutput(t) ==
    /\ In(t, "stub")
    /\ MarkPending(Top(t).call, Active(t))
    /\ UNCHANGED stackVars

\* filc_async_mark_pending finds another owner.
StubWaits(t) ==
    /\ In(t, "stub")
    /\ LET c == Top(t).call IN
       /\ at[c] =< Len(shape[c].out)
       /\ \E d \in mark_find_other(shape[c].out[at[c]], c, Active(t)) : WaitFor(t, d)
    /\ UNCHANGED <<markVars, ran, kept>>

MarksInput(t) ==
    /\ In(t, "stub")
    /\ MarkInput(Top(t).call)
    /\ UNCHANGED stackVars

Submits(t) ==
    /\ In(t, "stub")
    /\ Submit(Top(t).call)
    /\ stack' = [stack EXCEPT ![t][Len(stack[t])].op = "submit"]
    /\ UNCHANGED <<ran, kept>>

-----------------------------------------------------------------------------
(* The runtime's part. A runtime runs the body in submit, or when a thread *)
(* that waits for the call polls it, or not at all.                        *)

RunBody(t) ==
    /\ In(t, "submit") \/ (In(t, "wait") /\ Frames("submit", Top(t).call) = {})
    /\ LET c == Top(t).call IN
       /\ stage[c] = "submitted"
       /\ c \notin ran
       /\ Len(stack[t]) < MaxDepth
       /\ Push(t, CallFrame("body", c))
       /\ ran' = ran \cup {c}
    /\ UNCHANGED <<markVars, kept>>

BodyReturns(t) ==
    /\ In(t, "body")
    /\ Pop(t)
    /\ UNCHANGED <<markVars, ran, kept>>

\* uring_submit, for each buffer a device is going to read.
WaitBuffer(t, o) ==
    /\ In(t, "submit")
    /\ LET c == Top(t).call IN
       /\ stage[c] = "submitted"
       /\ \E i \in DOMAIN shape[c].in : shape[c].in[i] = o
       /\ wait_buffer_for(o, c, RunningBody(t)) # {}
       /\ Push(t, [op |-> "buffer", call |-> c, obj |-> o, own |-> FALSE])
    /\ UNCHANGED <<markVars, ran, kept>>

\* wait_buffer_locked: one turn of its loop.
BufferTurn(t) ==
    /\ In(t, "buffer")
    /\ LET owners == wait_buffer_for(Top(t).obj, Top(t).call, RunningBody(t)) IN
       \/ owners = {} /\ Pop(t)
       \/ \E d \in owners : WaitFor(t, d)
    /\ UNCHANGED <<markVars, ran, kept>>

SubmitReturns(t) ==
    /\ In(t, "submit")
    /\ Pop(t)
    /\ UNCHANGED <<markVars, ran, kept>>

\* The code running for c has returned; submit may complete c itself.
CallCompletes(c) ==
    /\ Frames("body", c) = {}
    /\ \A t \in Frames("submit", c) : Top(t) = CallFrame("submit", c)
    /\ Complete(c)
    /\ UNCHANGED stackVars

-----------------------------------------------------------------------------
(* The program's accesses and waits *)

\* The inline test finds the flag set; resolve_access runs.
Access(t, o) ==
    /\ InProgram(t)
    /\ Len(stack[t]) < MaxDepth
    /\ flag[o]
    /\ wait_access_for(o, Active(t), own_access(o, Active(t))) # {}
    /\ Push(t, [op |-> "access", call |-> NoCall, obj |-> o,
                own |-> own_access(o, Active(t))])
    /\ kept' = (kept /\ TouchesInOrder(t, o))
    /\ UNCHANGED <<markVars, ran>>

\* wait_access_locked: one turn of its loop.
AccessTurn(t) ==
    /\ In(t, "access")
    /\ LET owners == wait_access_for(Top(t).obj, Active(t), Top(t).own) IN
       \/ owners = {} /\ Pop(t)
       \/ \E d \in owners : WaitFor(t, d)
    /\ UNCHANGED <<markVars, ran, kept>>

\* filc_async_wait, on the handle of a call whose stub has returned, by code
\* that is not part of a call.
ProgramWaits(t, c) ==
    /\ stack[t] = <<>>
    /\ stage[c] = "submitted"
    /\ Frames("submit", c) = {}
    /\ WaitFor(t, c)
    /\ UNCHANGED <<markVars, ran, kept>>

-----------------------------------------------------------------------------
StackInit == Init /\ stack = [t \in Thread |-> <<>>] /\ ran = {} /\ kept = TRUE

\* What a thread does of itself when it need not wait.
Turn(t) ==
    \/ WaitOver(t)
    \/ MarksOutput(t)
    \/ StubWaits(t)
    \/ MarksInput(t)
    \/ Submits(t)
    \/ BufferTurn(t)
    \/ AccessTurn(t)
    \/ BodyReturns(t)
    \/ SubmitReturns(t)

StackNext ==
    \/ \E t \in Thread :
        \/ Turn(t)
        \/ RunBody(t)
    \/ \E t \in Thread, c \in Call : CallMade(t, c) \/ ProgramWaits(t, c)
    \/ \E t \in Thread, o \in Obj : WaitBuffer(t, o) \/ Access(t, o)
    \/ \E t \in Thread, c \in Call, o \in Obj : TracksRead(t, c, o)
    \/ \E c \in Call : CallCompletes(c)

StackSpec == StackInit /\ [][StackNext]_allVars

(* Threads are scheduled, bodies and submits return, and a runtime         *)
(* completes a call somebody polls with BLOCK; a call nobody polls may     *)
(* stay where it is.                                                       *)
Polled(c) == \E t \in Thread : In(t, "wait") /\ Top(t).call = c

StackFairness ==
    /\ \A t \in Thread : WF_allVars(Turn(t))
    /\ \A c \in Call : WF_allVars(CallCompletes(c) /\ Polled(c))

FairStackSpec == StackSpec /\ StackFairness

-----------------------------------------------------------------------------
(* Properties *)

(* Every variable stays in its type, and no stub, submit or body of a call *)
(* runs twice at once, on one thread or on two.                            *)
StackTypeOK ==
    /\ TypeOK
    /\ stack \in [Thread -> Seq(Frame)]
    /\ ran \in SUBSET Call
    /\ kept \in BOOLEAN
    /\ \A t, u \in Thread : \A i \in DOMAIN stack[t], j \in DOMAIN stack[u] :
        stack[t][i] = stack[u][j] /\ stack[t][i].op \in {"stub", "submit", "body"}
            => t = u /\ i = j

(* "None of them can finish before the code running for it returns, so     *)
(* nothing on this thread waits for them" (filc_async.c, at g_active), of  *)
(* any program. The one exception is a call made from a body that is given *)
(* an object which the body's call, or one further out, still writes: its  *)
(* stub waits for that write mark, and so does its submit if the writer is *)
(* not the innermost body. Nothing waits for an active call that reads, no *)
(* access for any active call. (With the types.)                           *)
SelfWaitsForWritersOnly ==
    /\ StackTypeOK
    /\ \A t \in Thread : In(t, "wait") /\ Top(t).call \in Active(t) =>
        LET d == Top(t).call
            f == stack[t][Len(stack[t]) - 1] IN
        \/ f.op = "stub" /\ mark[shape[f.call].out[at[f.call]]][d] = "write"
        \/ f.op = "buffer" /\ mark[f.obj][d] = "write" /\ d # RunningBody(t)

(* Whatever the threads wait for, on whatever stack, every thread gets     *)
(* back to the program, if the program keeps to the order: no set of       *)
(* calls, bodies and accesses waits for one another.                       *)
ThreadsReturn == []kept => \A t \in Thread : []<>(stack[t] = <<>>)

=============================================================================
