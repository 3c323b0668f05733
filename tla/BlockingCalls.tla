---------------------------- MODULE BlockingCalls ----------------------------
(***************************************************************************)
(* What the framework promises the program about its buffers: every        *)
(* annotated call behaves as a blocking call made where the program made   *)
(* it. The abstract memory mem changes when a call is made (the call has   *)
(* then read its argument and, if it writes it and succeeds, its output is *)
(* there) and when the program stores; nothing that happens later, on the  *)
(* runtime's side, shows.                                                  *)
(***************************************************************************)
CONSTANTS Call, Obj, Value, NoData

Data == Call \cup Value

VARIABLES
    mem,       \* what each object holds in the blocking program
    input,     \* what each call was given in each of its arguments
    seen       \* what each call has really read of them

blockingVars == <<mem, input, seen>>

Init ==
    /\ mem \in [Obj -> Value]
    /\ input = [c \in Call |-> [o \in Obj |-> NoData]]
    /\ seen = [c \in Call |-> [o \in Obj |-> NoData]]

(* A call is made with argument o; d is what it leaves there: its own      *)
(* output, or what was there before if it only reads o or fails.           *)
CallArg(c, o, d) ==
    /\ input[c][o] = NoData
    /\ d \in {mem[o], c}
    /\ input' = [input EXCEPT ![c][o] = mem[o]]
    /\ mem' = [mem EXCEPT ![o] = d]
    /\ UNCHANGED seen

(* A call reads its argument: what it was given. *)
CallReads(c, o) ==
    /\ input[c][o] # NoData
    /\ seen' = [seen EXCEPT ![c][o] = input[c][o]]
    /\ UNCHANGED <<mem, input>>

(* A call's completion only forgets it: its output has long been there. *)
CallReturns(c) ==
    /\ input' = [input EXCEPT ![c] = [o \in Obj |-> NoData]]
    /\ seen' = [seen EXCEPT ![c] = [o \in Obj |-> NoData]]
    /\ UNCHANGED mem

(* The program writes its memory. *)
Store(o, v) ==
    /\ mem' = [mem EXCEPT ![o] = v]
    /\ UNCHANGED <<input, seen>>

Next ==
    \/ \E c \in Call, o \in Obj :
        CallReads(c, o) \/ \E d \in Data : CallArg(c, o, d)
    \/ \E c \in Call : CallReturns(c)
    \/ \E o \in Obj, v \in Value : Store(o, v)

Spec == Init /\ [][Next]_blockingVars

==============================================================================
