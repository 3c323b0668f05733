----------------------------- MODULE RpcRuntime -----------------------------
(***************************************************************************)
(* The rpc runtime (rpc_runtime.c) with the framework that calls it, the   *)
(* sockets under it and the demos' server (rpc_server.c) behind them.      *)
(*                                                                         *)
(* Calls: "step" and "get" of the server's counter, whose reply goes to an *)
(* object, "put" of an object's contents, and "read", a call of the        *)
(* io_uring runtime that fills an object. An object's contents are named   *)
(* by the call that wrote them.                                            *)
(*                                                                         *)
(* A thread is a stack of frames: the stub of a call, or a poll of one. A  *)
(* BLOCK frame is the whole loop of wait_for, a SUBMIT frame rpc_submit,   *)
(* which goes through advance() like a poll. Every step is one system call *)
(* or one visit to the framework; a frame past "lock" has the request's    *)
(* lock.                                                                   *)
(***************************************************************************)
EXTENDS Integers, Sequences, SequencesExt, FiniteSetsExt

CONSTANTS
    Thread, Obj,
    Programs,   \* the calls made, as sequences of [op, buf, len, by], where by
                \* is the thread that makes the call
    MaxCalls,   \* bound on their length
    Announced,  \* objects the program marks itself
    CommandLen, \* pieces of a command
    SockBuf,    \* pieces a socket takes before it is full
    MaxFaults   \* bound on connections that fail

ASSUME ProgramsType ==
    \A p \in Programs :
        /\ p \in Seq([op : {"step", "get", "put", "read"}, buf : Obj, len : Nat, by : Thread])
        /\ Len(p) =< MaxCalls
ASSUME Sizes ==
    /\ CommandLen \in Nat \ {0} /\ SockBuf \in Nat \ {0}
    /\ MaxFaults \in Nat /\ MaxCalls \in Nat

VARIABLES
    calls,      \* the program
    stack,      \* the frames of each thread, outermost first
    task,       \* none, stub (begun), running (marked), done
    order,      \* the counter's lock: who took it, oldest first
    announced,  \* objects with a mark without an owner
    contents,
    expects,    \* of a put: what its object should hold by then
    kicked,     \* reads the io_uring runtime has sent to the kernel
    req,        \* the struct request of each call
    open,       \* the calls whose descriptor is open
    conn,       \* its connection
    counter

clientVars == <<calls, stack, task, order, announced, contents, expects, kicked>>
netVars == <<open, conn, counter>>
vars == <<clientVars, req, netVars>>

Call == 1 .. MaxCalls
Made == DOMAIN calls
NoCall == 0     \* who wrote what no call has written
Op(c) == calls[c].op
Buf(c) == calls[c].buf
Rpc(c) == Op(c) # "read"
Producer(c) == Op(c) # "put"
Total(c) == CommandLen + calls[c].len     \* pieces to send

Top(t) == stack[t][Len(stack[t])]
At(t, op, where) == stack[t] # <<>> /\ Top(t).op = op /\ Top(t).at \in where
PollFrame(c, mode) == [op |-> "poll", call |-> c, mode |-> mode, at |-> "lock"]

Push(t, f) == stack' = [stack EXCEPT ![t] = Append(@, f)]
Pop(t) == stack' = [stack EXCEPT ![t] = Front(@)]
Goes(t, where) == stack' = [stack EXCEPT ![t][Len(stack[t])].at = where]

\* The request's lock.
Locked(c) == \E t \in Thread : \E i \in DOMAIN stack[t] :
                stack[t][i].call = c /\ stack[t][i].op = "poll" /\ stack[t][i].at # "lock"

Anything == -1

\* Answers of the server and results of calls: none yet, ERR or an errno,
\* or a value.
None == <<"none">>
Error == <<"error">>
Value(x) == <<"value", x>>

-----------------------------------------------------------------------------
(* The framework's part *)

\* Calls that hold the counter's lock in a conflicting mode.
Conflicts(c) == {d \in ToSet(order) : task[d] # "done" /\ "step" \in {Op(c), Op(d)}}

\* Calls with a mark on o, and those that produce it.
Owners(o) == {d \in Made : Buf(d) = o /\ task[d] = "running"}
Writers(o) == {d \in Owners(o) : Producer(d)}
IsPending(o) == Writers(o) # {} \/ o \in announced

\* Whom the stub of c has to wait for where it is.
StubWaitsFor(t) ==
    LET c == Top(t).call IN
    IF Top(t).at = "locks" THEN Conflicts(c)
    ELSE IF Producer(c) THEN Owners(Buf(c)) ELSE {}

StubBegins(t, c) ==
    /\ stack[t] = <<>>
    /\ calls[c].by = t
    /\ task[c] = "none"
    /\ \A d \in 1 .. c - 1 : calls[d].by = t => task[d] # "none"
    /\ task' = [task EXCEPT ![c] = "stub"]
    /\ Push(t, [op |-> "stub", call |-> c, mode |-> "SUBMIT",
                at |-> IF Op(c) \in {"step", "get"} THEN "locks" ELSE "marks"])
    /\ UNCHANGED <<calls, order, announced, contents, expects, kicked, req, netVars>>

StubLocks(t) ==
    /\ At(t, "stub", {"locks"})
    /\ StubWaitsFor(t) = {}
    /\ order' = Append(order, Top(t).call)
    /\ Goes(t, "marks")
    /\ UNCHANGED <<calls, task, announced, contents, expects, kicked, req, netVars>>

\* filc_async_mark_pending or filc_async_mark_input; a read is then queued.
StubMarks(t) ==
    /\ At(t, "stub", {"marks"})
    /\ StubWaitsFor(t) = {}
    /\ LET c == Top(t).call
           o == Buf(c) IN
       /\ task' = [task EXCEPT ![c] = "running"]
       /\ announced' = IF Producer(c) THEN announced \ {o} ELSE announced
       /\ expects' = [expects EXCEPT ![c] = IF o \in announced THEN Anything
                                            ELSE IF Writers(o) # {} THEN CHOOSE d \in Writers(o) : TRUE
                                            ELSE contents[o]]
       /\ IF Rpc(c) THEN Goes(t, "body") ELSE Pop(t)
    /\ UNCHANGED <<calls, order, contents, kicked, req, netVars>>

(* The stub has to wait for d. A wait for a mark may have removed the mark *)
(* without an owner first.                                                 *)
StubWaits(t) ==
    /\ At(t, "stub", {"locks", "marks"})
    /\ \E d \in StubWaitsFor(t) : Push(t, PollFrame(d, "BLOCK"))
    /\ \/ UNCHANGED announced
       \/ Top(t).at = "marks" /\ announced' = announced \ {Buf(Top(t).call)}
    /\ UNCHANGED <<calls, task, order, contents, expects, kicked, req, netVars>>

\* filc_async_wait, or a poll in passing.
ProgramPolls(t, c, mode) ==
    /\ stack[t] = <<>>
    /\ task[c] = "running"
    /\ Rpc(c) \/ mode = "BLOCK"
    /\ Push(t, PollFrame(c, mode))
    /\ UNCHANGED <<calls, task, order, announced, contents, expects, kicked, req, netVars>>

\* A store of the program to a payload, which the access hook lets through.
Store(o) ==
    /\ \E c \in Made : Op(c) = "put" /\ Buf(c) = o
    /\ Owners(o) = {}
    /\ o \notin announced
    /\ contents' = [contents EXCEPT ![o] = NoCall]
    /\ UNCHANGED <<calls, stack, task, order, announced, expects, kicked, req, netVars>>

\* filc_async_mark_pending(NULL, o), and filc_async_mark_resolved after it.
Announce(o) ==
    /\ o \in Announced
    /\ Owners(o) = {}
    /\ announced' = announced \cup {o}
    /\ UNCHANGED <<calls, stack, task, order, contents, expects, kicked, req, netVars>>

Resolve(o) ==
    /\ o \in announced
    /\ announced' = announced \ {o}
    /\ contents' = [contents EXCEPT ![o] = NoCall]
    /\ UNCHANGED <<calls, stack, task, order, expects, kicked, req, netVars>>

-----------------------------------------------------------------------------
(* The io_uring runtime: a wait sends all that is queued. *)

WaitForRead(t) ==
    /\ At(t, "poll", {"lock"})
    /\ ~Rpc(Top(t).call)
    /\ \/ task[Top(t).call] = "done" /\ Pop(t) /\ UNCHANGED kicked
       \/ /\ task[Top(t).call] # "done"
          /\ kicked' = {d \in Made : ~Rpc(d) /\ task[d] = "running"}
          /\ UNCHANGED stack
    /\ UNCHANGED <<calls, task, order, announced, contents, expects, req, netVars>>

ReadLands(c) ==
    /\ c \in kicked
    /\ task[c] = "running"
    /\ contents' = [contents EXCEPT ![Buf(c)] = c]
    /\ task' = [task EXCEPT ![c] = "done"]
    /\ UNCHANGED <<calls, stack, order, announced, expects, kicked, req, netVars>>

-----------------------------------------------------------------------------
(* The sockets. A descriptor is a number the kernel gives out again once   *)
(* it is closed; a request keeps it for good.                              *)

LowestFree == Min({n \in 1 .. Cardinality(Call) : \A d \in open : req[d].fd # n})

\* The connection a system call of c reaches; NoCall if the number is closed.
Reached(c) == IF \E d \in open : req[d].fd = req[c].fd
              THEN CHOOSE d \in open : req[d].fd = req[c].fd ELSE NoCall

(* A connection fails: no socket, a refused handshake, a server that gives *)
(* up on it.                                                               *)
Failures == {d \in Call : conn[d].state \in {"failed", "refused", "dropped"}}
MayFail == Cardinality(Failures) < MaxFaults

Broken(d) == d = NoCall \/ d \in Failures
Writable(d) == Broken(d) \/ (conn[d].state # "connecting" /\ Len(conn[d].out) < SockBuf)
Readable(d) == Broken(d) \/ conn[d].in # <<>> \/ conn[d].state = "replied"

NoConn == [state |-> "none", out |-> <<>>, in |-> <<>>, got |-> <<>>, value |-> None]

(* The handshake, which finds the server listening or not. *)
Connects(d) ==
    /\ d \in open
    /\ conn[d].state = "connecting"
    /\ \E s \in {"open"} \cup (IF MayFail THEN {"refused"} ELSE {}) :
          conn' = [conn EXCEPT ![d].state = s]
    /\ UNCHANGED <<clientVars, req, open, counter>>

-----------------------------------------------------------------------------
(* The server: a thread for each connection, which reads the command and   *)
(* the payload, takes the counter's lock, replies and closes.              *)

ServerReads(d) ==
    /\ conn[d].state = "open"
    /\ conn[d].out # <<>>
    /\ conn' = [conn EXCEPT ![d].got = Append(@, Head(conn[d].out)), ![d].out = Tail(@)]
    /\ UNCHANGED <<clientVars, req, open, counter>>

ServerServes(d) ==
    /\ conn[d].state = "open"
    /\ Len(conn[d].got) = Total(d)
    /\ LET known == SubSeq(conn[d].got, 1, CommandLen) = [i \in 1 .. CommandLen |-> i]
           payload == ToSet(SubSeq(conn[d].got, CommandLen + 1, Total(d))) IN
       /\ counter' = IF known /\ Op(d) = "step" THEN counter + 1 ELSE counter
       /\ conn' = [conn EXCEPT ![d].state = "served",
                               ![d].value = IF ~known THEN Error
                                            ELSE IF Op(d) = "put" THEN Value(payload)
                                            ELSE Value(counter')]
    /\ UNCHANGED <<clientVars, req, open>>

ServerReplies(d) ==
    /\ conn[d].state = "served"
    /\ conn' = [conn EXCEPT ![d].state = "replied", ![d].got = <<>>,
                            ![d].in = <<<<d, 1>>, <<d, 2>>>>]
    /\ UNCHANGED <<clientVars, req, open, counter>>

\* main() gets no thread for the connection.
ServerDrops(d) ==
    /\ conn[d].state = "open"
    /\ conn[d].got = <<>>
    /\ MayFail
    /\ conn' = [conn EXCEPT ![d].state = "dropped", ![d].out = <<>>]
    /\ UNCHANGED <<clientVars, req, open, counter>>

-----------------------------------------------------------------------------
(* finish(): closes, stores the reply, and in a second step completes.     *)

\* Mutant: a request that failed keeps its descriptor.
Finishes_open(t, c, result) ==
    /\ req' = [req EXCEPT ![c].result = result]
    /\ open' = IF result = Error THEN open ELSE open \ {Reached(c)}
    /\ contents' = IF Producer(c) THEN [contents EXCEPT ![Buf(c)] = c] ELSE contents
    /\ Goes(t, "complete")

Finishes(t, c, result) ==
    /\ req' = [req EXCEPT ![c].result = result]
    /\ open' = open \ {Reached(c)}
    /\ contents' = IF Producer(c) THEN [contents EXCEPT ![Buf(c)] = c] ELSE contents
    /\ Goes(t, "complete")

Completes(t) ==
    /\ At(t, "poll", {"complete"})
    /\ req' = [req EXCEPT ![Top(t).call].done = TRUE]
    /\ task' = [task EXCEPT ![Top(t).call] = "done"]
    /\ Pop(t)
    /\ UNCHANGED <<calls, order, announced, contents, expects, kicked, netVars>>

-----------------------------------------------------------------------------
(* rpc_submit: the body, then the request is published with its lock held. *)

Submits(t) ==
    /\ At(t, "stub", {"body"})
    /\ LET c == Top(t).call IN
       /\ req' = [req EXCEPT ![c].published = TRUE]
       /\ stack' = [stack EXCEPT ![t] = <<[PollFrame(c, "SUBMIT") EXCEPT !.at = "connect"]>>]
    /\ UNCHANGED <<calls, task, order, announced, contents, expects, kicked, netVars>>

SubmitConnects(t) ==
    /\ At(t, "poll", {"connect"})
    /\ LET c == Top(t).call IN
       \/ /\ MayFail
          /\ conn' = [conn EXCEPT ![c].state = "failed"]
          /\ Finishes(t, c, Error)
       \/ /\ req' = [req EXCEPT ![c].fd = LowestFree]
          /\ open' = open \cup {c}
          /\ conn' = [conn EXCEPT ![c].state = "connecting"]
          /\ Goes(t, "go")
          /\ UNCHANGED contents
    /\ UNCHANGED <<calls, task, order, announced, expects, kicked, counter>>

-----------------------------------------------------------------------------
(* rpc_poll. CHECK and PROGRESS give up when the lock is taken. *)

\* Mutant: a poll does not look whether the request is done.
PollLocks_late(t) ==
    /\ At(t, "poll", {"lock"})
    /\ Rpc(Top(t).call)
    /\ LET c == Top(t).call
           mode == Top(t).mode IN
       \/ ~req[c].published /\ mode # "BLOCK" /\ Pop(t)
       \/ req[c].published /\ Locked(c) /\ mode # "BLOCK" /\ Pop(t)
       \/ req[c].published /\ ~Locked(c) /\ mode = "CHECK" /\ Pop(t)
       \/ req[c].published /\ ~Locked(c) /\ mode # "CHECK" /\ Goes(t, "go")
    /\ UNCHANGED <<calls, task, order, announced, contents, expects, kicked, req, netVars>>

PollLocks(t) ==
    /\ At(t, "poll", {"lock"})
    /\ Rpc(Top(t).call)
    /\ LET c == Top(t).call
           mode == Top(t).mode
           idle == req[c].done \/ mode = "CHECK" IN
       \/ ~req[c].published /\ mode # "BLOCK" /\ Pop(t)
       \/ req[c].published /\ Locked(c) /\ mode # "BLOCK" /\ Pop(t)
       \/ req[c].published /\ ~Locked(c) /\ idle /\ Pop(t)
       \/ req[c].published /\ ~Locked(c) /\ ~idle /\ Goes(t, "go")
    /\ UNCHANGED <<calls, task, order, announced, contents, expects, kicked, req, netVars>>

\* advance() returns what to wait for: only BLOCK does.
Stops(t, what) == IF Top(t).mode = "BLOCK" THEN Goes(t, what) ELSE Pop(t)

\* One send() of send_rest: of the command, or of the payload once that is
\* known not to be pending.
Sends(t) ==
    /\ At(t, "poll", {"go", "data"})
    /\ LET c == Top(t).call
           d == Reached(c)
           next == req[c].sent + 1 IN
       /\ next =< Total(c)
       /\ next > CommandLen => Top(t).at = "data"
       /\ \/ Broken(d) /\ Finishes(t, c, Error) /\ UNCHANGED conn
          \/ /\ ~Writable(d)
             /\ Stops(t, "POLLOUT")
             /\ UNCHANGED <<contents, req, open, conn>>
          \/ /\ ~Broken(d) /\ Writable(d)
             /\ req' = [req EXCEPT ![c].sent = next]
             /\ conn' = [conn EXCEPT ![d].out = Append(@, IF next =< CommandLen THEN next
                                                          ELSE contents[Buf(c)])]
             /\ UNCHANGED <<stack, contents, open>>
    /\ UNCHANGED <<calls, task, order, announced, expects, kicked, counter>>

\* Mutant: the payload goes out with the command.
ChecksPayload_blind(t) ==
    /\ At(t, "poll", {"go"})
    /\ LET c == Top(t).call IN
       /\ req[c].sent \in CommandLen .. Total(c) - 1
       /\ Goes(t, "data")
    /\ UNCHANGED <<calls, task, order, announced, contents, expects, kicked, req, netVars>>

\* Before the payload: is another call still filling it?
ChecksPayload(t) ==
    /\ At(t, "poll", {"go"})
    /\ LET c == Top(t).call IN
       /\ req[c].sent \in CommandLen .. Total(c) - 1
       /\ IF IsPending(Buf(c)) THEN Stops(t, "payload") ELSE Goes(t, "data")
    /\ UNCHANGED <<calls, task, order, announced, contents, expects, kicked, req, netVars>>

\* parse_reply, once the server has closed.
Parsed(received) ==
    IF \E d \in Call : received = <<<<d, 1>>, <<d, 2>>>>
    THEN conn[received[1][1]].value ELSE Error

\* One recv() of advance's last loop.
Receives(t) ==
    /\ At(t, "poll", {"go", "data"})
    /\ LET c == Top(t).call
           d == Reached(c) IN
       /\ req[c].sent = Total(c)
       /\ \/ ~Readable(d) /\ Stops(t, "POLLIN") /\ UNCHANGED <<contents, req, open, conn>>
          \/ Broken(d) /\ Finishes(t, c, Error) /\ UNCHANGED conn
          \/ /\ ~Broken(d)
             /\ Readable(d)
             /\ conn[d].in = <<>>
             /\ Finishes(t, c, Parsed(req[c].received))
             /\ UNCHANGED conn
          \/ /\ ~Broken(d)
             /\ \E n \in 1 .. Len(conn[d].in) :
                   /\ req' = [req EXCEPT ![c].received = @ \o SubSeq(conn[d].in, 1, n)]
                   /\ conn' = [conn EXCEPT ![d].in = SubSeq(@, n + 1, Len(@))]
             /\ UNCHANGED <<stack, contents, open>>
    /\ UNCHANGED <<calls, task, order, announced, expects, kicked, counter>>

\* Mutant: the payload is waited for like a socket.
Awaits_spins(t) ==
    /\ \/ At(t, "poll", {"POLLOUT"}) /\ Writable(Reached(Top(t).call)) /\ Goes(t, "go")
       \/ At(t, "poll", {"POLLIN"}) /\ Readable(Reached(Top(t).call)) /\ Goes(t, "go")
       \/ At(t, "poll", {"payload"}) /\ Goes(t, "go")
    /\ UNCHANGED <<calls, task, order, announced, contents, expects, kicked, req, netVars>>

(* rpc_poll's loop in BLOCK mode, with the lock held: poll(2), or          *)
(* filc_async_wait_buffer, which polls the call that fills the payload.    *)
Awaits(t) ==
    /\ \/ At(t, "poll", {"POLLOUT"}) /\ Writable(Reached(Top(t).call)) /\ Goes(t, "go")
       \/ At(t, "poll", {"POLLIN"}) /\ Readable(Reached(Top(t).call)) /\ Goes(t, "go")
       \/ /\ At(t, "poll", {"payload"})
          /\ LET makers == Writers(Buf(Top(t).call)) IN
             \/ makers = {} /\ Goes(t, "go")
             \/ \E d \in makers : Push(t, PollFrame(d, "BLOCK"))
    /\ UNCHANGED <<calls, task, order, announced, contents, expects, kicked, req, netVars>>

-----------------------------------------------------------------------------
Init ==
    /\ calls \in Programs
    /\ stack = [t \in Thread |-> <<>>]
    /\ task = [c \in Call |-> "none"]
    /\ order = <<>>
    /\ announced = {}
    /\ contents = [o \in Obj |-> NoCall]
    /\ expects = [c \in Call |-> NoCall]
    /\ kicked = {}
    /\ req = [c \in Call |-> [published |-> FALSE, fd |-> 0, sent |-> 0, received |-> <<>>,
                              result |-> None, done |-> FALSE]]
    /\ open = {}
    /\ conn = [c \in Call |-> NoConn]
    /\ counter = 0

\* What a thread inside the framework or the runtime does next.
Turn(t) ==
    \/ StubLocks(t) \/ StubMarks(t) \/ StubWaits(t)
    \/ Submits(t) \/ SubmitConnects(t)
    \/ WaitForRead(t) \/ Sends(t) \/ ChecksPayload(t) \/ Receives(t) \/ Awaits(t)
    \/ Completes(t)

Serves(d) == ServerReads(d) \/ ServerServes(d) \/ ServerReplies(d)

Next ==
    \/ \E t \in Thread : Turn(t) \/ PollLocks(t)
    \/ \E t \in Thread, c \in Made : StubBegins(t, c)
    \/ \E t \in Thread, c \in Made, m \in {"CHECK", "PROGRESS", "BLOCK"} : ProgramPolls(t, c, m)
    \/ \E o \in Obj : Store(o) \/ Announce(o) \/ Resolve(o)
    \/ \E c \in Call : ReadLands(c) \/ Connects(c) \/ Serves(c) \/ ServerDrops(c)

(* Threads are scheduled and get a mutex they keep asking for, the kernel  *)
(* completes reads and handshakes, the server serves.                      *)
Fairness ==
    /\ \A t \in Thread : WF_vars(Turn(t)) /\ SF_vars(PollLocks(t))
    /\ \A c \in Call : WF_vars(ReadLands(c)) /\ WF_vars(Connects(c)) /\ WF_vars(Serves(c))

Spec == Init /\ [][Next]_vars /\ Fairness

-----------------------------------------------------------------------------
(* Properties *)

(* A call completes with the answer the server gave to that call, whatever *)
(* pieces it came in and whatever descriptors other calls have had since,  *)
(* and with an error only if its connection failed; its reply is complete. *)
OwnReply ==
    \A c \in Call : req[c].result # None =>
        \/ conn[c].state = "replied" /\ req[c].result = conn[c].value
        \/ Broken(c) /\ req[c].result = Error

(* Calls see and leave what blocking ones would. The server has no order   *)
(* of its own, yet every step and every get sees the counter as if each    *)
(* call were answered before the next, in the order of the counter's lock, *)
(* across threads; and a put uploads what the call then filling its object *)
(* left there, never a part of what was there before or comes after.       *)
AsIfBlocking ==
    /\ \A i \in DOMAIN order :
          LET c == order[i] IN
          req[c].result \notin {None, Error} =>
              req[c].result = Value(Cardinality({j \in 1 .. i :
                                  /\ Op(order[j]) = "step"
                                  /\ conn[order[j]].value # None}))
    /\ \A c \in Made :
          Op(c) = "put" /\ req[c].result \notin {None, Error} /\ expects[c] # Anything
              => req[c].result[2] \subseteq {expects[c]}

(* The descriptors in use are those of the requests under way, each its    *)
(* own: none is lost when a call fails, none is closed twice.              *)
DescriptorsAccounted ==
    /\ \A c \in open : task[c] = "running" /\ conn[c].state # "none"
    /\ \A c, d \in open : req[c].fd = req[d].fd => c = d
    /\ \A c \in Call : conn[c].state # "none" /\ req[c].result = None => c \in open

(* Every wait ends, though waiting threads keep requests locked, a put     *)
(* waits for the call that fills its payload through another runtime or    *)
(* through this one, and reads stay queued until somebody waits: unless    *)
(* the program never resolves a mark of its own on the payload.            *)
ThreadsReturn ==
    \A t \in Thread :
        []<>(\/ stack[t] = <<>>
             \/ \E c \in Made : Op(c) = "put" /\ Buf(c) \in announced /\ Locked(c))

=============================================================================
