------------------------- MODULE RpcRuntime_proofs -------------------------
(***************************************************************************)
(* The rpc runtime's safety for all programs, threads and sizes: answers   *)
(* go to their calls, descriptors are accounted for, and calls see what    *)
(* blocking ones would. Throughout, what a request's lock protects: the    *)
(* one poll past "lock" of a call is where its request is.                 *)
(***************************************************************************)
EXTENDS RpcRuntime, FiniteSetTheorems, SequenceTheorems, WellFoundedInduction, TLAPS

CallType == [op : {"step", "get", "put", "read"}, buf : Obj, len : Nat, by : Thread]
Frame == [op : {"stub", "poll"}, call : Nat, mode : {"SUBMIT", "CHECK", "PROGRESS", "BLOCK"},
          at : {"locks", "marks", "body", "lock", "connect", "go", "data", "POLLOUT", "POLLIN",
                "payload", "complete"}]
Answer == {None, Error} \cup {Value(x) : x \in Nat \cup SUBSET Int}
Request == [published : BOOLEAN, fd : Nat, sent : Nat, received : Seq(Nat \X Nat),
            result : Answer, done : BOOLEAN]
Connection == [state : {"none", "connecting", "open", "served", "replied", "failed", "refused",
                        "dropped"},
               out : Seq(Int), in : Seq(Nat \X Nat), got : Seq(Int), value : Answer]

TypeOK ==
    /\ calls \in Seq(CallType) /\ Len(calls) =< MaxCalls
    /\ stack \in [Thread -> Seq(Frame)]
    /\ task \in [Call -> {"none", "stub", "running", "done"}]
    /\ order \in Seq(Made)
    /\ announced \subseteq Obj
    /\ contents \in [Obj -> Nat]
    /\ expects \in [Call -> Int]
    /\ kicked \subseteq Call
    /\ req \in [Call -> Request]
    /\ open \subseteq Call
    /\ conn \in [Call -> Connection]
    /\ counter \in Nat

(* Where a request is: not published; published and not connected; open;   *)
(* closed with a result; done.                                             *)
CallOK(c) ==
    /\ req[c].published => c \in Made /\ Rpc(c)
    /\ req[c].published => task[c] = IF req[c].done THEN "done" ELSE "running"
    /\ c \in open <=> conn[c].state # "none" /\ req[c].result = None
    /\ conn[c].state # "none" => req[c].published
    /\ req[c].result # None => conn[c].state # "none"
    /\ req[c].done => req[c].result # None
    /\ conn[c].state = "none" => req[c].fd = 0
    /\ c \in open => req[c].fd # 0

(* A frame is where its call is. *)
FrameOK(t, i, f) ==
    /\ f.call \in Made
    /\ f.op = "stub" =>
          /\ i = 1 /\ calls[f.call].by = t /\ ~req[f.call].published
          /\ f.at \in {"locks", "marks", "body"}
          /\ task[f.call] = IF f.at = "body" THEN "running" ELSE "stub"
          /\ f.at = "body" => Rpc(f.call)
    /\ f.op = "poll" => f.at \notin {"locks", "marks", "body"}
    /\ f.op = "poll" /\ f.at # "lock" =>
          /\ req[f.call].published /\ ~req[f.call].done
          /\ f.at = "connect" <=> conn[f.call].state = "none"
          /\ f.at = "complete" <=> req[f.call].result # None

CallsWell == \A c \in Call : CallOK(c)
FramesWell == \A t \in Thread : \A i \in DOMAIN stack[t] : FrameOK(t, i, stack[t][i])

Holds(t, i, c) ==
    i \in DOMAIN stack[t] /\ stack[t][i].op = "poll" /\ stack[t][i].at # "lock"
       /\ stack[t][i].call = c

(* The lock: one poll at a time; a request between two stages is held. *)
Exclusive ==
    \A c \in Call, t \in Thread, u \in Thread : \A i \in DOMAIN stack[t], j \in DOMAIN stack[u] :
        Holds(t, i, c) /\ Holds(u, j, c) => t = u /\ i = j
HeldBetween == \A c \in Call : req[c].published /\ ~req[c].done /\ c \notin open => Locked(c)

OwnDescriptor == \A c, d \in open : req[c].fd = req[d].fd => c = d
KickedReads == \A c \in kicked : c \in Made /\ ~Rpc(c)

(* The pieces of the reply are on their way or received, in order. *)
Reply(c) == <<<<c, 1>>, <<c, 2>>>>
ReplyOK(c) ==
    /\ conn[c].state = "replied" => req[c].received \o conn[c].in = Reply(c)
    /\ conn[c].state # "replied" => req[c].received = <<>> /\ conn[c].in = <<>>
    /\ conn[c].value = None <=> conn[c].state \notin {"served", "replied"}
ReplyWell == \A c \in Call : ReplyOK(c)

Pieces == CallsWell /\ FramesWell /\ Exclusive /\ HeldBetween
RpcInv == TypeOK /\ Pieces /\ OwnDescriptor /\ KickedReads /\ ReplyWell /\ OwnReply

(* The counter. *)
Numbered(c) == Op(c) \in {"step", "get"}
Counted(j) == Op(order[j]) = "step" /\ conn[order[j]].value # None
Steps(n) == {j \in 1 .. n : Counted(j)}

StubFits(f) ==
    f.op = "stub" =>
        /\ f.at = "locks" => Numbered(f.call)
        /\ Numbered(f.call) => (f.call \in ToSet(order) <=> f.at # "locks")
OrderWell ==
    /\ \A i, j \in DOMAIN order : order[i] = order[j] => i = j
    /\ \A i \in DOMAIN order : order[i] \in Made /\ Numbered(order[i]) /\ task[order[i]] # "none"
    /\ \A t \in Thread : \A i \in DOMAIN stack[t] : StubFits(stack[t][i])
    /\ \A c \in Made : Numbered(c) /\ task[c] \in {"running", "done"} => c \in ToSet(order)
    /\ \A i, j \in DOMAIN order :
          i < j /\ "step" \in {Op(order[i]), Op(order[j])} => task[order[i]] = "done"
CountsWell ==
    /\ counter = Cardinality(Steps(Len(order)))
    /\ \A i \in DOMAIN order :
          conn[order[i]].value # None =>
              conn[order[i]].value = Value(Cardinality(Steps(i)))

(* Payloads. *)
Uploads(c) == c \in Made /\ Op(c) = "put" /\ expects[c] # Anything
Piece(c, n, x) ==
    /\ n =< CommandLen => x = n
    /\ n > CommandLen /\ Uploads(c) => x = expects[c]
SentOK(c) ==
    /\ conn[c].state = "none" => conn[c].got = <<>> /\ conn[c].out = <<>>
    /\ conn[c].state \in {"none", "connecting", "open"} =>
          /\ req[c].sent = Len(conn[c].got) + Len(conn[c].out)
          /\ \A n \in DOMAIN conn[c].got : Piece(c, n, conn[c].got[n])
          /\ \A n \in DOMAIN conn[c].out : Piece(c, Len(conn[c].got) + n, conn[c].out[n])
    /\ Uploads(c) /\ conn[c].value # None =>
          \E S \in SUBSET {expects[c]} : conn[c].value = Value(S)
SentWell == \A c \in Call : SentOK(c)
OneWriter ==
    /\ \A o \in announced : Writers(o) = {}
    /\ \A o \in Obj : \A d, e \in Writers(o) : d = e
UploadOK(c) ==
    Uploads(c) /\ task[c] = "running" =>
        /\ Buf(c) \notin announced
        /\ Writers(Buf(c)) = {} => contents[Buf(c)] = expects[c]
        /\ \A d \in Writers(Buf(c)) : d = expects[c]
FilledOK(c) ==
    Producer(c) /\ Rpc(c) /\ task[c] = "running" /\ req[c].result # None => contents[Buf(c)] = c
DataFits(f) ==
    f.op = "poll" /\ f.at = "data" /\ Op(f.call) = "put" => Writers(Buf(f.call)) = {}
MarksWell ==
    /\ OneWriter
    /\ \A c \in Made : UploadOK(c) /\ FilledOK(c)
    /\ \A t \in Thread : \A i \in DOMAIN stack[t] : DataFits(stack[t][i])

BlockingInv == RpcInv /\ OrderWell /\ CountsWell /\ SentWell /\ MarksWell

-----------------------------------------------------------------------------
(* Least elements; descriptors. *)
LEMMA MinOf ==
    ASSUME NEW S \in SUBSET Nat, S # {}
    PROVE  Min(S) \in S
<1> DEFINE R == {ss \in Nat \X Nat : ss[1] < ss[2]}
<1>1. IsWellFoundedOn(R, Nat)
  BY NatLessThanWellFounded DEF OpToRel
<1> HIDE DEF R
<1>2. PICK x \in S : \A y \in S : ~(<<y, x>> \in R)
  BY <1>1, WFMin
<1>3. \A y \in S : x =< y
  <2> SUFFICES ASSUME NEW y \in S, y < x PROVE FALSE
    OBVIOUS
  <2>1. <<y, x>> \in Nat \X Nat
    OBVIOUS
  <2>2. <<y, x>> \in R
    BY <2>1 DEF R
  <2> QED
    BY <1>2, <2>2
<1> QED
  BY <1>3 DEF Min

(* There is a free descriptor for a call that has none, and it is free. *)
LEMMA FreeDescriptor ==
    ASSUME TypeOK, NEW c \in Call, c \notin open
    PROVE  LowestFree \in Nat \ {0} /\ \A d \in open : req[d].fd # LowestFree
<1> DEFINE N == Cardinality(Call)
           Used == {req[d].fd : d \in open}
           Free == {n \in 1 .. N : \A d \in open : req[d].fd # n}
<1>1. IsFiniteSet(Call) /\ N = MaxCalls
  <2>1. 1 \in Int /\ MaxCalls \in Int /\ 1 =< MaxCalls
    BY Sizes DEF Call
  <2> QED
    BY <2>1, FS_Interval DEF Call
<1>2. IsFiniteSet(Call \ {c}) /\ Cardinality(Call \ {c}) = MaxCalls - 1
  BY <1>1, FS_RemoveElement
<1>3. IsFiniteSet(open) /\ Cardinality(open) =< MaxCalls - 1
  <2>1. open \subseteq Call \ {c}
    BY DEF TypeOK
  <2> QED
    BY <1>2, <2>1, FS_Subset
<1>4. IsFiniteSet(Used) /\ Cardinality(Used) =< Cardinality(open)
  <2>1. PICK f : f = [d \in open |-> req[d].fd]
    OBVIOUS
  <2>2. f \in Surjection(open, Used)
    BY <2>1 DEF Surjection
  <2> QED
    BY <1>3, <2>2, FS_Surjection
<1>5. Free # {}
  <2> SUFFICES ASSUME Free = {} PROVE FALSE
    OBVIOUS
  <2>1. Call \subseteq Used
    BY <1>1 DEF Call
  <2>2. Cardinality(Call) =< Cardinality(Used)
    BY <1>4, <2>1, FS_Subset
  <2>3. Cardinality(open) \in Nat /\ Cardinality(Used) \in Nat
    BY <1>3, <1>4, FS_CardinalityType
  <2> QED
    BY <1>1, <1>3, <1>4, <2>2, <2>3, Sizes
<1>6. Free \in SUBSET Nat
  BY <1>1, Sizes
<1>7. Min(Free) \in Free
  BY <1>5, <1>6, MinOf
<1>8. LowestFree = Min(Free)
  BY DEF LowestFree
<1>9. LowestFree \in Free
  BY <1>7, <1>8
<1> QED
  BY <1>1, <1>9, Sizes

(* A request that is open reaches its own connection. *)
LEMMA ReachesOwn ==
    ASSUME OwnDescriptor, NEW c \in open
    PROVE  Reached(c) = c
BY DEF OwnDescriptor, Reached

-----------------------------------------------------------------------------
(* Stacks. *)
StackType == stack \in [Thread -> Seq(Frame)]

LEMMA TopFacts ==
    ASSUME StackType, NEW t \in Thread, stack[t] # <<>>
    PROVE  /\ Len(stack[t]) \in DOMAIN stack[t] /\ Len(stack[t]) \in Nat \ {0}
           /\ Top(t) = stack[t][Len(stack[t])] /\ Top(t) \in Frame
BY DEF StackType, Top

LEMMA PushFacts ==
    ASSUME StackType, NEW t \in Thread, NEW f \in Frame, Push(t, f)
    PROVE  /\ StackType'
           /\ \A u \in Thread : \A i \in DOMAIN stack[u] :
                 i \in DOMAIN stack'[u] /\ stack'[u][i] = stack[u][i]
           /\ \A u \in Thread : \A i \in DOMAIN stack'[u] :
                 \/ u = t /\ i = Len(stack[t]) + 1
                 \/ i \in DOMAIN stack[u] /\ stack'[u][i] = stack[u][i]
           /\ Len(stack[t]) + 1 \in DOMAIN stack'[t] /\ stack'[t][Len(stack[t]) + 1] = f
<1>1. /\ DOMAIN stack' = Thread /\ stack'[t] = Append(stack[t], f)
      /\ \A u \in Thread : u # t => stack'[u] = stack[u]
  BY DEF StackType, Push
<1>2. stack[t] \in Seq(Frame)
  BY DEF StackType
<1>3. /\ stack'[t] \in Seq(Frame)
      /\ \A i \in DOMAIN stack[t] : i \in DOMAIN stack'[t] /\ stack'[t][i] = stack[t][i]
      /\ \A i \in DOMAIN stack'[t] :
            \/ i = Len(stack[t]) + 1
            \/ i \in DOMAIN stack[t] /\ stack'[t][i] = stack[t][i]
      /\ Len(stack[t]) + 1 \in DOMAIN stack'[t] /\ stack'[t][Len(stack[t]) + 1] = f
  BY <1>1, <1>2
<1>4. StackType'
  BY <1>1, <1>3 DEF StackType, Push
<1> QED
  BY <1>1, <1>3, <1>4

LEMMA PopFacts ==
    ASSUME StackType, NEW t \in Thread, stack[t] # <<>>, Pop(t)
    PROVE  /\ StackType'
           /\ \A u \in Thread : \A i \in DOMAIN stack'[u] :
                 /\ i \in DOMAIN stack[u] /\ stack'[u][i] = stack[u][i]
                 /\ ~(u = t /\ i = Len(stack[t]))
           /\ \A u \in Thread : \A i \in DOMAIN stack[u] :
                 (u = t /\ i = Len(stack[t])) \/ (i \in DOMAIN stack'[u] /\ stack'[u][i] = stack[u][i])
<1>1. /\ DOMAIN stack' = Thread /\ stack'[t] = SubSeq(stack[t], 1, Len(stack[t]) - 1)
      /\ \A u \in Thread : u # t => stack'[u] = stack[u]
  BY DEF StackType, Pop, Front
<1>2. stack[t] \in Seq(Frame)
  BY DEF StackType
<1>3. /\ stack'[t] \in Seq(Frame)
      /\ \A i \in DOMAIN stack'[t] :
            /\ i \in DOMAIN stack[t] /\ stack'[t][i] = stack[t][i]
            /\ i # Len(stack[t])
      /\ \A i \in DOMAIN stack[t] :
            i = Len(stack[t]) \/ (i \in DOMAIN stack'[t] /\ stack'[t][i] = stack[t][i])
  BY <1>1, <1>2
<1>4. StackType'
  BY <1>1, <1>3 DEF StackType, Pop
<1> QED
  BY <1>1, <1>3, <1>4

LEMMA GoesFacts ==
    ASSUME StackType, NEW t \in Thread, stack[t] # <<>>, NEW w, Goes(t, w),
           w \in {"locks", "marks", "body", "lock", "connect", "go", "data", "POLLOUT", "POLLIN",
                  "payload", "complete"}
    PROVE  /\ StackType'
           /\ \A u \in Thread : DOMAIN stack'[u] = DOMAIN stack[u]
           /\ \A u \in Thread : \A i \in DOMAIN stack[u] :
                 ~(u = t /\ i = Len(stack[t])) => stack'[u][i] = stack[u][i]
           /\ stack'[t][Len(stack[t])] = [Top(t) EXCEPT !.at = w]
           /\ Len(stack'[t]) = Len(stack[t])
<1>1. PICK n : n = Len(stack[t])
  OBVIOUS
<1>2. stack[t] \in Seq(Frame) /\ n \in DOMAIN stack[t] /\ stack[t][n] \in Frame /\ Top(t) = stack[t][n]
  BY <1>1, TopFacts DEF StackType, Top
<1>3. PICK g : g = [stack[t][n] EXCEPT !.at = w]
  OBVIOUS
<1>4. g \in Frame
  BY <1>2, <1>3 DEF Frame
<1>5. /\ DOMAIN stack' = Thread /\ stack'[t] = [stack[t] EXCEPT ![n] = g]
      /\ \A u \in Thread : u # t => stack'[u] = stack[u]
  BY <1>1, <1>3 DEF StackType, Goes
<1>6. /\ stack'[t] \in Seq(Frame) /\ DOMAIN stack'[t] = DOMAIN stack[t]
      /\ Len(stack'[t]) = Len(stack[t])
      /\ \A i \in DOMAIN stack[t] : i # n => stack'[t][i] = stack[t][i]
      /\ stack'[t][n] = g
  BY <1>2, <1>4, <1>5
<1>7. StackType'
  BY <1>5, <1>6 DEF StackType, Goes
<1> QED
  BY <1>1, <1>2, <1>3, <1>5, <1>6, <1>7

-----------------------------------------------------------------------------
(* What a step leaves alone. *)

\* The step is about c and no other call.
Only(c) ==
    /\ calls' = calls
    /\ \A d \in Call : d # c => /\ task'[d] = task[d] /\ req'[d] = req[d] /\ conn'[d] = conn[d]
                                /\ d \in open' <=> d \in open

\* Requests stay where they are.
Quiet ==
    /\ UNCHANGED <<calls, task, req, open>>
    /\ \A d \in Call : conn'[d].state = "none" <=> conn[d].state = "none"

LEMMA MadeFacts ==
    ASSUME TypeOK
    PROVE  /\ Made \subseteq Call
           /\ \A c \in Made : /\ calls[c] \in CallType /\ Op(c) \in {"step", "get", "put", "read"}
                              /\ Buf(c) \in Obj /\ Total(c) \in Nat
<1>1. \A c \in Made : c \in Call /\ calls[c] \in CallType
  BY Sizes DEF TypeOK, Made, Call
<1>2. \A x \in CallType : x.op \in {"step", "get", "put", "read"} /\ x.buf \in Obj /\ x.len \in Nat
  BY DEF CallType
<1>3. \A c \in Made : CommandLen + calls[c].len \in Nat
  BY <1>1, <1>2, Sizes
<1> QED
  BY <1>1, <1>2, <1>3 DEF Op, Buf, Total

LEMMA LockedHolds ==
    ASSUME NEW c
    PROVE  Locked(c) <=> \E t \in Thread : \E i \in DOMAIN stack[t] : Holds(t, i, c)
BY DEF Locked, Holds

LEMMA QuietFrame ==
    ASSUME TypeOK, Quiet, NEW t, NEW i, NEW f, FrameOK(t, i, f)
    PROVE  FrameOK(t, i, f)'
<1>1. f.call \in Made /\ f.call \in Call
  BY MadeFacts DEF FrameOK
<1>2. conn'[f.call].state = "none" <=> conn[f.call].state = "none"
  BY <1>1 DEF Quiet
<1> QED
  BY <1>2 DEF FrameOK, Quiet, Made, Rpc, Op

LEMMA QuietCalls ==
    ASSUME CallsWell, Quiet
    PROVE  CallsWell'
<1> SUFFICES ASSUME NEW c \in Call' PROVE CallOK(c)'
  BY DEF CallsWell
<1>1. CallOK(c) /\ (conn'[c].state = "none" <=> conn[c].state = "none")
  BY DEF CallsWell, Quiet, Call
<1> QED
  BY <1>1 DEF CallOK, Quiet, Made, Rpc, Op

(* Another frame of a call that is held is a poll that waits for the lock. *)
LEMMA OtherFrame ==
    ASSUME TypeOK, FramesWell, Exclusive, NEW c \in Call, NEW t \in Thread, NEW n, Holds(t, n, c),
           Only(c), NEW u \in Thread, NEW i \in DOMAIN stack[u], ~(u = t /\ i = n),
           NEW f, f = stack[u][i]
    PROVE  FrameOK(u, i, f)'
<1>1. FrameOK(u, i, f)
  BY DEF FramesWell
<1>2. f.call \in Made /\ f.call \in Call
  BY <1>1, MadeFacts DEF FrameOK
<1>3. CASE f.call # c
  <2>1. /\ task'[f.call] = task[f.call] /\ req'[f.call] = req[f.call]
        /\ conn'[f.call] = conn[f.call] /\ calls' = calls
    BY <1>2, <1>3 DEF Only
  <2> QED
    BY <1>1, <2>1 DEF FrameOK, Made, Rpc, Op
<1>4. CASE f.call = c
  <2>1. FrameOK(t, n, stack[t][n]) /\ n \in DOMAIN stack[t]
    BY DEF FramesWell, Holds
  <2>2. req[c].published
    BY <2>1 DEF FrameOK, Holds
  <2>3. f.op # "stub"
    BY <1>1, <1>4, <2>2 DEF FrameOK
  <2>4. stack \in [Thread -> Seq(Frame)]
    BY DEF TypeOK
  <2>5. f \in Frame
    BY <2>4
  <2>6. f.op = "poll"
    BY <2>3, <2>5 DEF Frame
  <2>7. f.at = "lock"
    BY <1>4, <2>1, <2>6 DEF Exclusive, Holds
  <2> QED
    BY <1>1, <2>3, <2>6, <2>7 DEF FrameOK, Only, Made
<1> QED
  BY <1>3, <1>4

LEMMA OtherCalls ==
    ASSUME CallsWell, NEW c \in Call, Only(c), CallOK(c)'
    PROVE  CallsWell'
<1> SUFFICES ASSUME NEW d \in Call', d # c PROVE CallOK(d)'
  BY DEF CallsWell
<1>1. d \in Call
  BY DEF Call
<1>2. CallOK(d)
  BY <1>1 DEF CallsWell
<1>3. /\ task'[d] = task[d] /\ req'[d] = req[d] /\ conn'[d] = conn[d]
      /\ d \in open' <=> d \in open
      /\ calls' = calls
  BY <1>1 DEF Only
<1> QED
  BY <1>2, <1>3 DEF CallOK, Made, Rpc, Op

(* The holder of a request's lock lets go of it, goes on, or stays. *)
LEMMA HolderPops ==
    ASSUME TypeOK, Pieces, NEW c \in Call, NEW t \in Thread, stack[t] # <<>>, NEW n,
           n = Len(stack[t]), Holds(t, n, c), Only(c), CallOK(c)', Pop(t),
           req'[c].done \/ c \in open'
    PROVE  Pieces'
<1>0. StackType /\ CallsWell /\ FramesWell /\ Exclusive /\ HeldBetween
  BY DEF TypeOK, StackType, Pieces
<1>1. \A u \in Thread : \A i \in DOMAIN stack'[u] :
         /\ i \in DOMAIN stack[u] /\ stack'[u][i] = stack[u][i]
         /\ ~(u = t /\ i = n)
  BY <1>0, PopFacts
<1>2. \A u \in Thread : \A i \in DOMAIN stack[u] :
         (u = t /\ i = n) \/ (i \in DOMAIN stack'[u] /\ stack'[u][i] = stack[u][i])
  BY <1>0, PopFacts
<1>3. CallsWell'
  BY <1>0, OtherCalls
<1>4. FramesWell'
  <2> SUFFICES ASSUME NEW u \in Thread, NEW i \in DOMAIN stack'[u], NEW f, f = stack'[u][i]
               PROVE  FrameOK(u, i, f)'
    BY DEF FramesWell, FrameOK
  <2>2. i \in DOMAIN stack[u] /\ f = stack[u][i] /\ ~(u = t /\ i = n)
    BY <1>1
  <2> QED
    BY <1>0, <2>2, OtherFrame
<1>5. \A u \in Thread : \A i, d : Holds(u, i, d)' => Holds(u, i, d)
  BY <1>1 DEF Holds
<1>6. Exclusive'
  BY <1>0, <1>1, <1>5 DEF Exclusive, Call
<1>7. HeldBetween'
  <2> SUFFICES ASSUME NEW d \in Call, req'[d].published, ~req'[d].done, d \notin open'
               PROVE  \E u \in Thread : \E i \in DOMAIN stack'[u] : Holds(u, i, d)'
    BY LockedHolds DEF HeldBetween, Call, Locked, Holds
  <2>1. d # c /\ req'[d] = req[d] /\ d \notin open
    BY DEF Only
  <2>2. PICK u \in Thread : \E i \in DOMAIN stack[u] : Holds(u, i, d)
    BY <1>0, <2>1, LockedHolds DEF HeldBetween
  <2>3. PICK i \in DOMAIN stack[u] : Holds(u, i, d)
    BY <2>2
  <2>4. ~(u = t /\ i = n)
    BY <2>1, <2>3 DEF Holds
  <2>5. i \in DOMAIN stack'[u] /\ Holds(u, i, d)'
    BY <1>2, <2>3, <2>4 DEF Holds
  <2> QED
    BY <2>5
<1> QED
  BY <1>3, <1>4, <1>6, <1>7 DEF Pieces

LEMMA HolderGoes ==
    ASSUME TypeOK, Pieces, NEW c \in Call, NEW t \in Thread, stack[t] # <<>>, NEW n,
           n = Len(stack[t]), Holds(t, n, c), Only(c), CallOK(c)',
           NEW w \in {"connect", "go", "data", "POLLOUT", "POLLIN", "payload", "complete"},
           Goes(t, w) \/ (UNCHANGED stack /\ Top(t).at = w),
           /\ req'[c].published /\ ~req'[c].done
           /\ w = "connect" <=> conn'[c].state = "none"
           /\ w = "complete" <=> req'[c].result # None
    PROVE  Pieces'
<1>0. StackType /\ CallsWell /\ FramesWell /\ Exclusive /\ HeldBetween
  BY DEF TypeOK, StackType, Pieces
<1>1. /\ n \in DOMAIN stack[t] /\ Top(t) = stack[t][n] /\ Top(t) \in Frame
  BY <1>0, TopFacts
<1>2. PICK g : g = [Top(t) EXCEPT !.at = w]
  OBVIOUS
<1>3. /\ \A u \in Thread : DOMAIN stack'[u] = DOMAIN stack[u]
      /\ \A u \in Thread : \A i \in DOMAIN stack[u] :
            ~(u = t /\ i = n) => stack'[u][i] = stack[u][i]
      /\ stack'[t][n] = g
  <2>1. CASE Goes(t, w)
    BY <1>0, <1>2, <2>1, GoesFacts
  <2>2. CASE UNCHANGED stack /\ Top(t).at = w
    <3>1. g = Top(t)
      BY <1>1, <1>2, <2>2 DEF Frame
    <3> QED
      BY <1>1, <2>2, <3>1
  <2> QED
    BY <2>1, <2>2
<1>4. g.op = "poll" /\ g.at = w /\ g.call = c
  BY <1>1, <1>2 DEF Frame, Holds
<1>5. CallsWell'
  BY <1>0, OtherCalls
<1>6. FrameOK(t, n, g)'
  <2>1. FrameOK(t, n, stack[t][n])
    BY <1>0, <1>1 DEF FramesWell
  <2>2. c \in Made
    BY <2>1 DEF FrameOK, Holds
  <2>3. c \in Made'
    BY <2>2 DEF Only, Made
  <2> QED
    BY <1>4, <2>3 DEF FrameOK
<1>7. FramesWell'
  <2> SUFFICES ASSUME NEW u \in Thread, NEW i \in DOMAIN stack'[u], NEW f, f = stack'[u][i]
               PROVE  FrameOK(u, i, f)'
    BY DEF FramesWell, FrameOK
  <2>2. CASE u = t /\ i = n
    <3>1. f = g
      BY <1>3, <2>2
    <3> QED
      BY <1>6, <2>2, <3>1
  <2>3. CASE ~(u = t /\ i = n)
    <3>1. i \in DOMAIN stack[u] /\ f = stack[u][i]
      BY <1>3, <2>3
    <3> QED
      BY <1>0, <2>3, <3>1, OtherFrame
  <2> QED
    BY <2>2, <2>3
<1>8. \A u \in Thread : \A i, d : Holds(u, i, d)' <=> Holds(u, i, d)
  <2> SUFFICES ASSUME NEW u \in Thread, NEW i, NEW d
               PROVE  Holds(u, i, d)' <=> Holds(u, i, d)
    OBVIOUS
  <2>1. CASE u = t /\ i = n
    BY <1>1, <1>3, <1>4, <2>1 DEF Holds
  <2>2. CASE ~(u = t /\ i = n)
    BY <1>3, <2>2 DEF Holds
  <2> QED
    BY <2>1, <2>2
<1>9. Exclusive'
  BY <1>0, <1>3, <1>8 DEF Exclusive, Call
<1>10. HeldBetween'
  <2> SUFFICES ASSUME NEW d \in Call, req'[d].published, ~req'[d].done, d \notin open'
               PROVE  \E u \in Thread : \E i \in DOMAIN stack'[u] : Holds(u, i, d)'
    BY LockedHolds DEF HeldBetween, Call, Locked, Holds
  <2>1. CASE d = c
    BY <1>1, <1>3, <1>8, <2>1
  <2>2. CASE d # c
    <3>1. req'[d] = req[d] /\ d \notin open
      BY <2>2 DEF Only
    <3>2. PICK u \in Thread : \E i \in DOMAIN stack[u] : Holds(u, i, d)
      BY <1>0, <3>1, LockedHolds DEF HeldBetween
    <3>3. PICK i \in DOMAIN stack[u] : Holds(u, i, d)
      BY <3>2
    <3> QED
      BY <1>3, <1>8, <3>3
  <2> QED
    BY <2>1, <2>2
<1> QED
  BY <1>5, <1>7, <1>9, <1>10 DEF Pieces

(* Steps of frames that hold no lock. *)

(* A call that is not published has polls that wait for the lock, and      *)
(* beside them at most its stub.                                           *)
LEMMA IdleFrame ==
    ASSUME TypeOK, FramesWell, NEW c \in Call, Only(c), ~req[c].published,
           NEW u \in Thread, NEW i \in DOMAIN stack[u], NEW f, f = stack[u][i],
           f.call = c => f.op # "stub"
    PROVE  FrameOK(u, i, f)'
<1>1. FrameOK(u, i, f)
  BY DEF FramesWell
<1>2. f.call \in Made /\ f.call \in Call
  BY <1>1, MadeFacts DEF FrameOK
<1>3. CASE f.call # c
  <2>1. /\ task'[f.call] = task[f.call] /\ req'[f.call] = req[f.call]
        /\ conn'[f.call] = conn[f.call] /\ calls' = calls
    BY <1>2, <1>3 DEF Only
  <2> QED
    BY <1>1, <2>1 DEF FrameOK, Made, Rpc, Op
<1>4. CASE f.call = c
  <2>1. f.op # "stub"
    BY <1>4
  <2>2. f.op = "poll" => f.at = "lock"
    BY <1>1, <1>4 DEF FrameOK
  <2>3. calls' = calls
    BY DEF Only
  <2> QED
    BY <1>1, <2>1, <2>2, <2>3 DEF FrameOK, Made
<1> QED
  BY <1>3, <1>4

LEMMA NobodyHolds ==
    ASSUME FramesWell, NEW c, ~req[c].published, NEW u \in Thread, NEW i
    PROVE  ~Holds(u, i, c)
<1> SUFFICES ASSUME Holds(u, i, c) PROVE FALSE
  OBVIOUS
<1>1. FrameOK(u, i, stack[u][i])
  BY DEF FramesWell, Holds
<1> QED
  BY <1>1 DEF FrameOK, Holds

\* One frame is replaced.
Swaps(t, n, g) ==
    /\ \A u \in Thread : DOMAIN stack'[u] = DOMAIN stack[u]
    /\ \A u \in Thread : \A i \in DOMAIN stack[u] :
          ~(u = t /\ i = n) => stack'[u][i] = stack[u][i]
    /\ stack'[t][n] = g

LEMMA GoesSwaps ==
    ASSUME TypeOK, NEW t \in Thread, stack[t] # <<>>, NEW n, n = Len(stack[t]),
           NEW w \in {"locks", "marks", "body", "lock", "connect", "go", "data", "POLLOUT",
                      "POLLIN", "payload", "complete"}, Goes(t, w),
           NEW g, g = [Top(t) EXCEPT !.at = w]
    PROVE  /\ Swaps(t, n, g) /\ StackType'
           /\ g.at = w /\ g.op = Top(t).op /\ g.call = Top(t).call
           /\ n \in DOMAIN stack[t] /\ Top(t) = stack[t][n] /\ Top(t) \in Frame
<1>1. StackType
  BY DEF TypeOK, StackType
<1>2. n \in DOMAIN stack[t] /\ Top(t) = stack[t][n] /\ Top(t) \in Frame
  BY <1>1, TopFacts
<1>3. Swaps(t, n, g) /\ StackType'
  BY <1>1, GoesFacts DEF Swaps
<1>4. g.at = w /\ g.op = Top(t).op /\ g.call = Top(t).call
  BY <1>2 DEF Frame
<1> QED
  BY <1>2, <1>3, <1>4

(* A stub goes on, or becomes the poll that submits. *)
LEMMA StubSwaps ==
    ASSUME TypeOK, Pieces, NEW c \in Call, NEW t \in Thread, NEW n \in DOMAIN stack[t],
           stack[t][n].op = "stub", stack[t][n].call = c, ~req[c].published, Only(c), CallOK(c)',
           NEW g, Swaps(t, n, g), FrameOK(t, n, g)', g.call = c,
           req'[c].published => g.op = "poll" /\ g.at # "lock"
    PROVE  Pieces'
<1>0. CallsWell /\ FramesWell /\ Exclusive /\ HeldBetween
  BY DEF Pieces
<1>1. CallsWell'
  BY <1>0, OtherCalls
<1>2. FramesWell'
  <2> SUFFICES ASSUME NEW u \in Thread, NEW i \in DOMAIN stack'[u], NEW f, f = stack'[u][i]
               PROVE  FrameOK(u, i, f)'
    BY DEF FramesWell, FrameOK
  <2>1. CASE u = t /\ i = n
    <3>1. f = g
      BY <2>1 DEF Swaps
    <3> QED
      BY <2>1, <3>1
  <2>2. CASE ~(u = t /\ i = n)
    <3>1. i \in DOMAIN stack[u] /\ f = stack[u][i]
      BY <2>2 DEF Swaps
    <3>2. f.call = c => f.op # "stub"
      <4> SUFFICES ASSUME f.call = c, f.op = "stub" PROVE FALSE
        OBVIOUS
      <4>1. FrameOK(u, i, stack[u][i]) /\ FrameOK(t, n, stack[t][n])
        BY <1>0, <3>1 DEF FramesWell
      <4>2. i = 1 /\ calls[c].by = u /\ n = 1 /\ calls[c].by = t
        BY <3>1, <4>1 DEF FrameOK
      <4> QED
        BY <2>2, <4>2
    <3> QED
      BY <1>0, <3>1, <3>2, IdleFrame
  <2> QED
    BY <2>1, <2>2
<1>3. \A u \in Thread : \A i, d : d # c => (Holds(u, i, d)' <=> Holds(u, i, d))
  <2> SUFFICES ASSUME NEW u \in Thread, NEW i, NEW d, d # c
               PROVE  Holds(u, i, d)' <=> Holds(u, i, d)
    OBVIOUS
  <2>1. CASE u = t /\ i = n
    <3>1. stack'[u][i].call = c /\ stack[u][i].call = c
      BY <2>1 DEF Swaps
    <3> QED
      BY <3>1 DEF Holds
  <2>2. CASE ~(u = t /\ i = n)
    BY <2>2 DEF Holds, Swaps
  <2> QED
    BY <2>1, <2>2
<1>4. \A u \in Thread : \A i : Holds(u, i, c)' => u = t /\ i = n
  <2> SUFFICES ASSUME NEW u \in Thread, NEW i, Holds(u, i, c)', ~(u = t /\ i = n)
               PROVE  FALSE
    OBVIOUS
  <2>1. Holds(u, i, c)
    BY DEF Holds, Swaps
  <2> QED
    BY <1>0, <2>1, NobodyHolds
<1>5. Exclusive'
  <2> SUFFICES ASSUME NEW d \in Call, NEW u \in Thread, NEW v \in Thread, NEW i, NEW j,
                      Holds(u, i, d)', Holds(v, j, d)'
               PROVE  u = v /\ i = j
    BY DEF Exclusive, Call
  <2>1. CASE d = c
    BY <1>4, <2>1
  <2>2. CASE d # c
    <3>1. Holds(u, i, d) /\ Holds(v, j, d)
      BY <1>3, <2>2
    <3>2. i \in DOMAIN stack[u] /\ j \in DOMAIN stack[v]
      BY <3>1 DEF Holds
    <3> QED
      BY <1>0, <3>1, <3>2 DEF Exclusive
  <2> QED
    BY <2>1, <2>2
<1>6. HeldBetween'
  <2> SUFFICES ASSUME NEW d \in Call, req'[d].published, ~req'[d].done, d \notin open'
               PROVE  \E u \in Thread : \E i \in DOMAIN stack'[u] : Holds(u, i, d)'
    BY LockedHolds DEF HeldBetween, Call, Locked, Holds
  <2>1. CASE d = c
    <3>1. n \in DOMAIN stack'[t] /\ Holds(t, n, d)'
      BY <2>1 DEF Swaps, Holds
    <3> QED
      BY <3>1
  <2>2. CASE d # c
    <3>1. req'[d] = req[d] /\ d \notin open
      BY <2>2 DEF Only
    <3>2. PICK u \in Thread : \E i \in DOMAIN stack[u] : Holds(u, i, d)
      BY <1>0, <3>1, LockedHolds DEF HeldBetween
    <3>3. PICK i \in DOMAIN stack[u] : Holds(u, i, d)
      BY <3>2
    <3>4. Holds(u, i, d)'
      BY <1>3, <2>2, <3>3
    <3> QED
      BY <3>3, <3>4 DEF Swaps
  <2> QED
    BY <2>1, <2>2
<1> QED
  BY <1>1, <1>2, <1>5, <1>6 DEF Pieces

(* A poll gets a lock that nobody holds. *)
LEMMA PollSwaps ==
    ASSUME TypeOK, Pieces, NEW c \in Call, NEW t \in Thread, NEW n \in DOMAIN stack[t],
           stack[t][n].call = c, ~Locked(c), Quiet,
           NEW g, Swaps(t, n, g), FrameOK(t, n, g)', g.call = c
    PROVE  Pieces'
<1>0. CallsWell /\ FramesWell /\ Exclusive /\ HeldBetween
  BY DEF Pieces
<1>1. CallsWell'
  BY <1>0, QuietCalls
<1>2. FramesWell'
  <2> SUFFICES ASSUME NEW u \in Thread, NEW i \in DOMAIN stack'[u], NEW f, f = stack'[u][i]
               PROVE  FrameOK(u, i, f)'
    BY DEF FramesWell, FrameOK
  <2>1. CASE u = t /\ i = n
    <3>1. f = g
      BY <2>1 DEF Swaps
    <3> QED
      BY <2>1, <3>1
  <2>2. CASE ~(u = t /\ i = n)
    <3>1. i \in DOMAIN stack[u] /\ f = stack[u][i]
      BY <2>2 DEF Swaps
    <3>2. FrameOK(u, i, f)
      BY <1>0, <3>1 DEF FramesWell
    <3> QED
      BY <3>2, QuietFrame
  <2> QED
    BY <2>1, <2>2
<1>3. \A u \in Thread : \A i, d : d # c => (Holds(u, i, d)' <=> Holds(u, i, d))
  <2> SUFFICES ASSUME NEW u \in Thread, NEW i, NEW d, d # c
               PROVE  Holds(u, i, d)' <=> Holds(u, i, d)
    OBVIOUS
  <2>1. CASE u = t /\ i = n
    <3>1. stack'[u][i].call = c /\ stack[u][i].call = c
      BY <2>1 DEF Swaps
    <3> QED
      BY <3>1 DEF Holds
  <2>2. CASE ~(u = t /\ i = n)
    BY <2>2 DEF Holds, Swaps
  <2> QED
    BY <2>1, <2>2
<1>4. \A u \in Thread : \A i : Holds(u, i, c)' => u = t /\ i = n
  <2> SUFFICES ASSUME NEW u \in Thread, NEW i, Holds(u, i, c)', ~(u = t /\ i = n)
               PROVE  FALSE
    OBVIOUS
  <2>1. Holds(u, i, c) /\ i \in DOMAIN stack[u]
    BY DEF Holds, Swaps
  <2> QED
    BY <2>1, LockedHolds
<1>5. Exclusive'
  <2> SUFFICES ASSUME NEW d \in Call, NEW u \in Thread, NEW v \in Thread, NEW i, NEW j,
                      Holds(u, i, d)', Holds(v, j, d)'
               PROVE  u = v /\ i = j
    BY DEF Exclusive, Call
  <2>1. CASE d = c
    BY <1>4, <2>1
  <2>2. CASE d # c
    <3>1. Holds(u, i, d) /\ Holds(v, j, d)
      BY <1>3, <2>2
    <3>2. i \in DOMAIN stack[u] /\ j \in DOMAIN stack[v]
      BY <3>1 DEF Holds
    <3> QED
      BY <1>0, <3>1, <3>2 DEF Exclusive
  <2> QED
    BY <2>1, <2>2
<1>6. HeldBetween'
  <2> SUFFICES ASSUME NEW d \in Call, req[d].published, ~req[d].done, d \notin open
               PROVE  \E u \in Thread : \E i \in DOMAIN stack'[u] : Holds(u, i, d)'
    BY LockedHolds DEF HeldBetween, Call, Locked, Holds, Quiet
  <2>1. Locked(d) /\ d # c
    BY <1>0 DEF HeldBetween
  <2>2. PICK u \in Thread : \E i \in DOMAIN stack[u] : Holds(u, i, d)
    BY <2>1, LockedHolds
  <2>3. PICK i \in DOMAIN stack[u] : Holds(u, i, d)
    BY <2>2
  <2>4. Holds(u, i, d)'
    BY <1>3, <2>1, <2>3
  <2> QED
    BY <2>3, <2>4 DEF Swaps
<1> QED
  BY <1>1, <1>2, <1>5, <1>6 DEF Pieces

(* A frame without a lock ends: a poll, or the stub of c. *)
LEMMA IdlePops ==
    ASSUME TypeOK, Pieces, NEW c \in Call, NEW t \in Thread, stack[t] # <<>>, NEW n,
           n = Len(stack[t]), Pop(t),
           \/ Quiet /\ stack[t][n].op = "poll" /\ stack[t][n].at = "lock"
           \/ /\ Only(c) /\ CallOK(c)' /\ ~req[c].published /\ ~req'[c].published
              /\ stack[t][n].op = "stub" /\ stack[t][n].call = c
    PROVE  Pieces'
<1>0. StackType /\ CallsWell /\ FramesWell /\ Exclusive /\ HeldBetween
  BY DEF TypeOK, StackType, Pieces
<1>1. \A u \in Thread : \A i \in DOMAIN stack'[u] :
         /\ i \in DOMAIN stack[u] /\ stack'[u][i] = stack[u][i]
         /\ ~(u = t /\ i = n)
  BY <1>0, PopFacts
<1>2. \A u \in Thread : \A i \in DOMAIN stack[u] :
         (u = t /\ i = n) \/ (i \in DOMAIN stack'[u] /\ stack'[u][i] = stack[u][i])
  BY <1>0, PopFacts
<1>3. CallsWell'
  BY <1>0, OtherCalls, QuietCalls
<1>4. FramesWell'
  <2> SUFFICES ASSUME NEW u \in Thread, NEW i \in DOMAIN stack'[u], NEW f, f = stack'[u][i]
               PROVE  FrameOK(u, i, f)'
    BY DEF FramesWell, FrameOK
  <2>1. i \in DOMAIN stack[u] /\ f = stack[u][i] /\ ~(u = t /\ i = n)
    BY <1>1
  <2>2. FrameOK(u, i, f)
    BY <1>0, <2>1 DEF FramesWell
  <2>3. CASE Quiet
    BY <2>2, <2>3, QuietFrame
  <2>4. CASE /\ Only(c) /\ ~req[c].published
             /\ stack[t][n].op = "stub" /\ stack[t][n].call = c
    <3>1. f.call = c => f.op # "stub"
      <4> SUFFICES ASSUME f.call = c, f.op = "stub" PROVE FALSE
        OBVIOUS
      <4>1. n \in DOMAIN stack[t]
        BY <1>0, TopFacts
      <4>2. FrameOK(t, n, stack[t][n])
        BY <1>0, <4>1 DEF FramesWell
      <4>3. i = 1 /\ calls[c].by = u /\ n = 1 /\ calls[c].by = t
        BY <2>2, <2>4, <4>2 DEF FrameOK
      <4> QED
        BY <2>1, <4>3
    <3> QED
      BY <1>0, <2>1, <2>4, <3>1, IdleFrame
  <2> QED
    BY <2>3, <2>4
<1>5. \A u \in Thread : \A i, d : Holds(u, i, d)' => Holds(u, i, d)
  BY <1>1 DEF Holds
<1>6. Exclusive'
  BY <1>0, <1>1, <1>5 DEF Exclusive, Call
<1>7. HeldBetween'
  <2> SUFFICES ASSUME NEW d \in Call, req'[d].published, ~req'[d].done, d \notin open'
               PROVE  \E u \in Thread : \E i \in DOMAIN stack'[u] : Holds(u, i, d)'
    BY LockedHolds DEF HeldBetween, Call, Locked, Holds
  <2>1. req'[d] = req[d] /\ d \notin open
    BY DEF Only, Quiet
  <2>2. PICK u \in Thread : \E i \in DOMAIN stack[u] : Holds(u, i, d)
    BY <1>0, <2>1, LockedHolds DEF HeldBetween
  <2>3. PICK i \in DOMAIN stack[u] : Holds(u, i, d)
    BY <2>2
  <2>4. ~(u = t /\ i = n)
    BY <2>3 DEF Holds
  <2>5. i \in DOMAIN stack'[u] /\ Holds(u, i, d)'
    BY <1>2, <2>3, <2>4 DEF Holds
  <2> QED
    BY <2>5
<1> QED
  BY <1>3, <1>4, <1>6, <1>7 DEF Pieces

(* A frame without a lock begins: a poll, or the stub of c. *)
LEMMA IdlePushes ==
    ASSUME TypeOK, Pieces, NEW c \in Call, NEW t \in Thread, NEW g \in Frame, Push(t, g),
           NEW n, n = Len(stack[t]) + 1, FrameOK(t, n, g)', g.op = "stub" \/ g.at = "lock",
           \/ Quiet
           \/ Only(c) /\ CallOK(c)' /\ ~req'[c].published /\ task[c] = "none"
    PROVE  Pieces'
<1>0. StackType /\ CallsWell /\ FramesWell /\ Exclusive /\ HeldBetween
  BY DEF TypeOK, StackType, Pieces
<1>1. \A u \in Thread : \A i \in DOMAIN stack[u] :
         i \in DOMAIN stack'[u] /\ stack'[u][i] = stack[u][i]
  BY <1>0, PushFacts
<1>2. \A u \in Thread : \A i \in DOMAIN stack'[u] :
         \/ u = t /\ i = n
         \/ i \in DOMAIN stack[u] /\ stack'[u][i] = stack[u][i]
  BY <1>0, PushFacts
<1>3. n \in DOMAIN stack'[t] /\ stack'[t][n] = g
  BY <1>0, PushFacts
<1>4. CallsWell'
  BY <1>0, OtherCalls, QuietCalls
<1>5. task[c] = "none" => ~req[c].published
  BY <1>0 DEF CallsWell, CallOK
<1>6. FramesWell'
  <2> SUFFICES ASSUME NEW u \in Thread, NEW i \in DOMAIN stack'[u], NEW f, f = stack'[u][i]
               PROVE  FrameOK(u, i, f)'
    BY DEF FramesWell, FrameOK
  <2>1. CASE u = t /\ i = n
    <3>1. f = g
      BY <1>3, <2>1
    <3> QED
      BY <2>1, <3>1
  <2>2. CASE i \in DOMAIN stack[u] /\ stack'[u][i] = stack[u][i]
    <3>1. f = stack[u][i] /\ FrameOK(u, i, f)
      BY <1>0, <2>2 DEF FramesWell
    <3>2. CASE Quiet
      BY <3>1, <3>2, QuietFrame
    <3>3. CASE Only(c) /\ task[c] = "none"
      <4>1. f.call = c => f.op # "stub"
        BY <3>1, <3>3 DEF FrameOK
      <4> QED
        BY <1>0, <1>5, <2>2, <3>1, <3>3, <4>1, IdleFrame
    <3> QED
      BY <3>2, <3>3
  <2> QED
    BY <1>2, <2>1, <2>2
<1>7. \A u \in Thread : \A i, d : Holds(u, i, d)' <=> Holds(u, i, d)
  <2> SUFFICES ASSUME NEW u \in Thread, NEW i, NEW d
               PROVE  Holds(u, i, d)' <=> Holds(u, i, d)
    OBVIOUS
  <2>1. Holds(u, i, d) => Holds(u, i, d)'
    BY <1>1 DEF Holds
  <2>2. Holds(u, i, d)' => Holds(u, i, d)
    BY <1>2, <1>3 DEF Holds
  <2> QED
    BY <2>1, <2>2
<1>8. Exclusive'
  <2> SUFFICES ASSUME NEW d \in Call, NEW u \in Thread, NEW v \in Thread, NEW i, NEW j,
                      Holds(u, i, d)', Holds(v, j, d)'
               PROVE  u = v /\ i = j
    BY DEF Exclusive, Call
  <2>1. Holds(u, i, d) /\ Holds(v, j, d)
    BY <1>7
  <2>2. i \in DOMAIN stack[u] /\ j \in DOMAIN stack[v]
    BY <2>1 DEF Holds
  <2> QED
    BY <1>0, <2>1, <2>2 DEF Exclusive
<1>9. HeldBetween'
  <2> SUFFICES ASSUME NEW d \in Call, req'[d].published, ~req'[d].done, d \notin open'
               PROVE  \E u \in Thread : \E i \in DOMAIN stack'[u] : Holds(u, i, d)'
    BY LockedHolds DEF HeldBetween, Call, Locked, Holds
  <2>1. req'[d] = req[d] /\ d \notin open
    BY DEF Only, Quiet
  <2>2. PICK u \in Thread : \E i \in DOMAIN stack[u] : Holds(u, i, d)
    BY <1>0, <2>1, LockedHolds DEF HeldBetween
  <2>3. PICK i \in DOMAIN stack[u] : Holds(u, i, d)
    BY <2>2
  <2> QED
    BY <1>1, <1>7, <2>3
<1> QED
  BY <1>4, <1>6, <1>8, <1>9 DEF Pieces

(* No stack changes. *)
LEMMA StacksStay ==
    ASSUME TypeOK, Pieces, UNCHANGED stack, NEW c \in Call,
           \/ Quiet
           \/ /\ Only(c) /\ CallOK(c)' /\ ~req[c].published /\ ~req'[c].published
              /\ task[c] = "running" /\ ~Rpc(c)
    PROVE  Pieces'
<1>0. CallsWell /\ FramesWell /\ Exclusive /\ HeldBetween
  BY DEF Pieces
<1>1. CallsWell'
  BY <1>0, OtherCalls, QuietCalls
<1>2. FramesWell'
  <2> SUFFICES ASSUME NEW u \in Thread, NEW i \in DOMAIN stack'[u], NEW f, f = stack'[u][i]
               PROVE  FrameOK(u, i, f)'
    BY DEF FramesWell, FrameOK
  <2>1. i \in DOMAIN stack[u] /\ f = stack[u][i]
    OBVIOUS
  <2>2. FrameOK(u, i, f)
    BY <1>0, <2>1 DEF FramesWell
  <2>3. CASE Quiet
    BY <2>2, <2>3, QuietFrame
  <2>4. CASE Only(c) /\ ~req[c].published /\ task[c] = "running" /\ ~Rpc(c)
    <3>1. f.call = c => f.op # "stub"
      BY <2>2, <2>4 DEF FrameOK
    <3> QED
      BY <1>0, <2>1, <2>4, <3>1, IdleFrame
  <2> QED
    BY <2>3, <2>4
<1>3. Exclusive'
  BY <1>0 DEF Exclusive, Call, Holds
<1>4. HeldBetween'
  BY <1>0 DEF HeldBetween, Locked, Call, Only, Quiet
<1> QED
  BY <1>1, <1>2, <1>3, <1>4 DEF Pieces

-----------------------------------------------------------------------------
(* The framework's steps. *)

LEMMA AtFacts ==
    ASSUME TypeOK, Pieces, NEW t \in Thread, NEW op, NEW S, At(t, op, S)
    PROVE  /\ stack[t] # <<>> /\ Len(stack[t]) \in DOMAIN stack[t]
           /\ Top(t) = stack[t][Len(stack[t])] /\ Top(t) \in Frame
           /\ Top(t).op = op /\ Top(t).at \in S
           /\ Top(t).call \in Made /\ Top(t).call \in Call
           /\ FrameOK(t, Len(stack[t]), Top(t)) /\ CallOK(Top(t).call)
<1>1. stack[t] # <<>> /\ Top(t).op = op /\ Top(t).at \in S
  BY DEF At
<1>2. /\ Len(stack[t]) \in DOMAIN stack[t]
      /\ Top(t) = stack[t][Len(stack[t])] /\ Top(t) \in Frame
  BY <1>1, TopFacts DEF TypeOK, StackType
<1>3. FrameOK(t, Len(stack[t]), Top(t))
  BY <1>2 DEF Pieces, FramesWell
<1>4. Top(t).call \in Made
  BY <1>3 DEF FrameOK
<1>5. Top(t).call \in Call
  BY <1>4, MadeFacts
<1>6. CallOK(Top(t).call)
  BY <1>5 DEF Pieces, CallsWell
<1> QED
  BY <1>1, <1>2, <1>3, <1>4, <1>5, <1>6

(* The framework's part changes neither requests nor connections. *)
LEMMA FrameworkStep ==
    ASSUME RpcInv, UNCHANGED <<calls, req, open, conn, counter>>, StackType', Pieces',
           task' \in [Call -> {"none", "stub", "running", "done"}], order' \in Seq(Made),
           announced' \subseteq Obj, contents' \in [Obj -> Nat], expects' \in [Call -> Int],
           \A c \in kicked' : c \in Made /\ ~Rpc(c)
    PROVE  RpcInv'
<1>1. KickedReads'
  BY DEF KickedReads, Made, Rpc, Op
<1>2. TypeOK'
  BY MadeFacts DEF RpcInv, TypeOK, StackType, Call, Made
<1>3. OwnDescriptor' /\ ReplyWell' /\ OwnReply'
  BY DEF RpcInv, OwnDescriptor, ReplyWell, ReplyOK, OwnReply, Broken, Failures, Call
<1> QED
  BY <1>1, <1>2, <1>3 DEF RpcInv

LEMMA StubBeginsStep ==
    ASSUME RpcInv, NEW t \in Thread, NEW c \in Made, StubBegins(t, c)
    PROVE  RpcInv'
<1>0. TypeOK /\ Pieces /\ KickedReads /\ c \in Call
  BY MadeFacts DEF RpcInv
<1>1. /\ stack[t] = <<>> /\ calls[c].by = t /\ task[c] = "none"
      /\ task' = [task EXCEPT ![c] = "stub"]
      /\ UNCHANGED <<calls, order, announced, contents, expects, kicked, req, open, conn, counter>>
  BY DEF StubBegins, netVars
<1>2. PICK g : g = [op |-> "stub", call |-> c, mode |-> "SUBMIT",
                    at |-> IF Op(c) \in {"step", "get"} THEN "locks" ELSE "marks"]
  OBVIOUS
<1>3. Push(t, g)
  BY <1>2 DEF StubBegins
<1>4. g \in Frame /\ g.op = "stub" /\ g.call = c /\ g.at \in {"locks", "marks"}
  BY <1>0, <1>2 DEF Frame, Call
<1>5. task' \in [Call -> {"none", "stub", "running", "done"}] /\ task'[c] = "stub"
      /\ \A d \in Call : d # c => task'[d] = task[d]
  BY <1>0, <1>1 DEF TypeOK
<1>6. CallOK(c) /\ ~req[c].published
  BY <1>0, <1>1 DEF Pieces, CallsWell, CallOK
<1>7. CallOK(c)'
  BY <1>1, <1>6 DEF CallOK
<1>8. Only(c)
  BY <1>1, <1>5 DEF Only
<1>9. PICK n : n = Len(stack[t]) + 1
  OBVIOUS
<1>10. n = 1
  BY <1>1, <1>9
<1>11. FrameOK(t, n, g)'
  BY <1>1, <1>4, <1>5, <1>6, <1>10 DEF FrameOK, Made
<1>12. ~req'[c].published
  BY <1>1, <1>6
<1>13. Pieces'
  BY <1>0, <1>1, <1>3, <1>4, <1>7, <1>8, <1>9, <1>11, <1>12, IdlePushes
<1>14. StackType'
  BY <1>0, <1>3, <1>4, PushFacts DEF TypeOK, StackType
<1>15. \A d \in kicked' : d \in Made /\ ~Rpc(d)
  BY <1>0, <1>1 DEF KickedReads
<1>16. order' \in Seq(Made) /\ announced' \subseteq Obj /\ contents' \in [Obj -> Nat]
       /\ expects' \in [Call -> Int]
  BY <1>0, <1>1 DEF TypeOK
<1> QED
  BY <1>1, <1>5, <1>13, <1>14, <1>15, <1>16, FrameworkStep

LEMMA StubLocksStep ==
    ASSUME RpcInv, NEW t \in Thread, StubLocks(t)
    PROVE  RpcInv'
<1>0. TypeOK /\ Pieces /\ KickedReads
  BY DEF RpcInv
<1>1. /\ At(t, "stub", {"locks"}) /\ order' = Append(order, Top(t).call) /\ Goes(t, "marks")
      /\ UNCHANGED <<calls, task, announced, contents, expects, kicked, req, open, conn, counter>>
  BY DEF StubLocks, netVars
<1>2. PICK c, n, g : c = Top(t).call /\ n = Len(stack[t]) /\ g = [Top(t) EXCEPT !.at = "marks"]
  OBVIOUS
<1>3. /\ stack[t] # <<>> /\ n \in DOMAIN stack[t] /\ Top(t) = stack[t][n] /\ Top(t).op = "stub"
      /\ Top(t).at = "locks" /\ c \in Made /\ c \in Call /\ FrameOK(t, n, Top(t)) /\ CallOK(c)
  BY <1>0, <1>1, <1>2, AtFacts
<1>4. Swaps(t, n, g) /\ StackType' /\ g.at = "marks" /\ g.op = "stub" /\ g.call = c
  BY <1>0, <1>1, <1>2, <1>3, GoesSwaps
<1>5. ~req[c].published /\ ~req'[c].published
  BY <1>1, <1>2, <1>3 DEF FrameOK
<1>6. Only(c) /\ CallOK(c)'
  BY <1>1, <1>3 DEF Only, CallOK, Made, Rpc, Op
<1>7. FrameOK(t, n, g)'
  BY <1>1, <1>2, <1>3, <1>4 DEF FrameOK, Made, Rpc, Op
<1>8. Pieces'
  BY <1>0, <1>2, <1>3, <1>4, <1>5, <1>6, <1>7, StubSwaps
<1>9. order' \in Seq(Made)
  BY <1>0, <1>1, <1>2, <1>3 DEF TypeOK
<1>10. \A d \in kicked' : d \in Made /\ ~Rpc(d)
  BY <1>0, <1>1 DEF KickedReads
<1>11. task' \in [Call -> {"none", "stub", "running", "done"}]
       /\ announced' \subseteq Obj /\ contents' \in [Obj -> Nat] /\ expects' \in [Call -> Int]
  BY <1>0, <1>1 DEF TypeOK
<1> QED
  BY <1>1, <1>4, <1>8, <1>9, <1>10, <1>11, FrameworkStep

LEMMA StubMarksStep ==
    ASSUME RpcInv, NEW t \in Thread, StubMarks(t)
    PROVE  RpcInv'
<1>0. TypeOK /\ Pieces /\ KickedReads
  BY DEF RpcInv
<1>1. /\ At(t, "stub", {"marks"})
      /\ UNCHANGED <<calls, order, contents, kicked, req, open, conn, counter>>
  BY DEF StubMarks, netVars
<1>2. PICK c, n, o : c = Top(t).call /\ n = Len(stack[t]) /\ o = Buf(c)
  OBVIOUS
<1>3. /\ stack[t] # <<>> /\ n \in DOMAIN stack[t] /\ Top(t) = stack[t][n] /\ Top(t).op = "stub"
      /\ Top(t).at = "marks" /\ c \in Made /\ c \in Call /\ FrameOK(t, n, Top(t)) /\ CallOK(c)
  BY <1>0, <1>1, <1>2, AtFacts
<1>4. /\ task' = [task EXCEPT ![c] = "running"]
      /\ announced' = IF Producer(c) THEN announced \ {o} ELSE announced
      /\ expects' = [expects EXCEPT ![c] = IF o \in announced THEN Anything
                                           ELSE IF Writers(o) # {} THEN CHOOSE d \in Writers(o) : TRUE
                                           ELSE contents[o]]
      /\ IF Rpc(c) THEN Goes(t, "body") ELSE Pop(t)
  BY <1>2 DEF StubMarks
<1>5. task' \in [Call -> {"none", "stub", "running", "done"}] /\ task'[c] = "running"
      /\ \A d \in Call : d # c => task'[d] = task[d]
  BY <1>0, <1>3, <1>4 DEF TypeOK
<1>6. ~req[c].published /\ ~req'[c].published
  BY <1>1, <1>2, <1>3 DEF FrameOK
<1>7. Only(c)
  BY <1>1, <1>5 DEF Only
<1>8. CallOK(c)'
  BY <1>1, <1>3, <1>6 DEF CallOK
<1>9. Pieces' /\ StackType'
  <2>1. CASE Rpc(c)
    <3>1. PICK g : g = [Top(t) EXCEPT !.at = "body"]
      OBVIOUS
    <3>2. Goes(t, "body")
      BY <1>4, <2>1
    <3>3. Swaps(t, n, g) /\ StackType' /\ g.at = "body" /\ g.op = "stub" /\ g.call = c
      BY <1>0, <1>2, <1>3, <3>1, <3>2, GoesSwaps
    <3>4. FrameOK(t, n, g)'
      BY <1>1, <1>2, <1>3, <1>5, <2>1, <3>3 DEF FrameOK, Made, Rpc, Op
    <3> QED
      BY <1>0, <1>2, <1>3, <1>6, <1>7, <1>8, <3>3, <3>4, StubSwaps
  <2>2. CASE ~Rpc(c)
    <3>1. Pop(t)
      BY <1>4, <2>2
    <3>2. StackType'
      BY <1>0, <1>3, <3>1, PopFacts DEF TypeOK, StackType
    <3> QED
      BY <1>0, <1>2, <1>3, <1>6, <1>7, <1>8, <3>1, <3>2, IdlePops
  <2> QED
    BY <2>1, <2>2
<1>10. expects' \in [Call -> Int]
  <2>1. Writers(o) # {} => (CHOOSE d \in Writers(o) : TRUE) \in Int
    <3>1. Writers(o) # {} => (CHOOSE d \in Writers(o) : TRUE) \in Writers(o)
      OBVIOUS
    <3>2. Writers(o) \subseteq Int
      BY <1>0, MadeFacts DEF Writers, Owners, Call
    <3> QED
      BY <3>1, <3>2
  <2>2. contents[o] \in Int /\ Anything \in Int
    BY <1>0, <1>2, <1>3, MadeFacts DEF TypeOK, Anything
  <2>3. PICK v \in Int : expects' = [expects EXCEPT ![c] = v]
    BY <1>4, <2>1, <2>2
  <2> QED
    BY <1>0, <2>3 DEF TypeOK
<1>11. \A d \in kicked' : d \in Made /\ ~Rpc(d)
  BY <1>0, <1>1 DEF KickedReads
<1>12. order' \in Seq(Made) /\ announced' \subseteq Obj /\ contents' \in [Obj -> Nat]
  BY <1>0, <1>1, <1>4 DEF TypeOK
<1> QED
  BY <1>1, <1>5, <1>9, <1>10, <1>11, <1>12, FrameworkStep

(* Requests stay where they are, and so do the framework's tables. *)
LEMMA NothingMoves ==
    ASSUME RpcInv, UNCHANGED <<calls, task, order, expects, req, open, conn, counter>>,
           StackType', Pieces', announced' \subseteq Obj, contents' \in [Obj -> Nat],
           \A c \in kicked' : c \in Made /\ ~Rpc(c)
    PROVE  RpcInv'
<1>1. /\ task' \in [Call -> {"none", "stub", "running", "done"}] /\ order' \in Seq(Made)
      /\ expects' \in [Call -> Int]
  BY DEF RpcInv, TypeOK
<1> QED
  BY <1>1, FrameworkStep

LEMMA PushesPoll ==
    ASSUME TypeOK, Pieces, NEW t \in Thread, NEW d \in Made, NEW m \in {"CHECK", "PROGRESS", "BLOCK"},
           Push(t, PollFrame(d, m)), UNCHANGED <<calls, task, req, open, conn>>
    PROVE  Pieces' /\ StackType'
<1>1. PICK g, n : g = PollFrame(d, m) /\ n = Len(stack[t]) + 1
  OBVIOUS
<1>2. d \in Call /\ d \in Nat
  BY MadeFacts DEF Call
<1>3. g \in Frame /\ g.op = "poll" /\ g.at = "lock" /\ g.call = d /\ Push(t, g)
  BY <1>1, <1>2 DEF PollFrame, Frame
<1>4. FrameOK(t, n, g)'
  BY <1>3 DEF FrameOK, Made
<1>5. Quiet
  BY DEF Quiet
<1>6. StackType'
  BY <1>3, PushFacts DEF TypeOK, StackType
<1> QED
  BY <1>1, <1>2, <1>3, <1>4, <1>5, <1>6, IdlePushes

LEMMA StubWaitsStep ==
    ASSUME RpcInv, NEW t \in Thread, StubWaits(t)
    PROVE  RpcInv'
<1>0. TypeOK /\ Pieces /\ KickedReads
  BY DEF RpcInv
<1>1. UNCHANGED <<calls, task, order, contents, expects, kicked, req, open, conn, counter>>
  BY DEF StubWaits, netVars
<1>2. announced' \subseteq Obj
  BY <1>0 DEF StubWaits, TypeOK
<1>3. PICK d \in StubWaitsFor(t) : Push(t, PollFrame(d, "BLOCK"))
  BY DEF StubWaits
<1>4. d \in Made
  <2>1. ToSet(order) \subseteq Made
    BY <1>0 DEF ToSet, TypeOK
  <2> QED
    BY <2>1, <1>3 DEF StubWaitsFor, Conflicts, Owners
<1>5. Pieces' /\ StackType'
  BY <1>0, <1>1, <1>3, <1>4, PushesPoll
<1>6. \A c \in kicked' : c \in Made /\ ~Rpc(c)
  BY <1>0, <1>1 DEF KickedReads
<1>7. contents' \in [Obj -> Nat]
  BY <1>0, <1>1 DEF TypeOK
<1> QED
  BY <1>1, <1>2, <1>5, <1>6, <1>7, NothingMoves

LEMMA ProgramPollsStep ==
    ASSUME RpcInv, NEW t \in Thread, NEW c \in Made, NEW m \in {"CHECK", "PROGRESS", "BLOCK"},
           ProgramPolls(t, c, m)
    PROVE  RpcInv'
<1>0. TypeOK /\ Pieces /\ KickedReads
  BY DEF RpcInv
<1>1. /\ UNCHANGED <<calls, task, order, announced, contents, expects, kicked, req, open, conn,
                     counter>>
      /\ Push(t, PollFrame(c, m))
  BY DEF ProgramPolls, netVars
<1>2. Pieces' /\ StackType'
  BY <1>0, <1>1, PushesPoll
<1>3. \A d \in kicked' : d \in Made /\ ~Rpc(d)
  BY <1>0, <1>1 DEF KickedReads
<1>4. announced' \subseteq Obj /\ contents' \in [Obj -> Nat]
  BY <1>0, <1>1 DEF TypeOK
<1> QED
  BY <1>1, <1>2, <1>3, <1>4, NothingMoves

LEMMA MarksStep ==
    ASSUME RpcInv, NEW o \in Obj, Store(o) \/ Announce(o) \/ Resolve(o)
    PROVE  RpcInv'
<1>0. TypeOK /\ Pieces /\ KickedReads
  BY DEF RpcInv
<1>1. UNCHANGED <<calls, stack, task, order, expects, kicked, req, open, conn, counter>>
  BY DEF Store, Announce, Resolve, netVars
<1>2. announced' \subseteq Obj
  BY <1>0 DEF Store, Announce, Resolve, TypeOK
<1>3. contents' \in [Obj -> Nat]
  <2>1. contents \in [Obj -> Nat] /\ NoCall \in Nat
    BY <1>0 DEF TypeOK, NoCall
  <2>2. contents' = contents \/ contents' = [contents EXCEPT ![o] = NoCall]
    BY DEF Store, Announce, Resolve
  <2> QED
    BY <2>1, <2>2
<1>4. StackType'
  BY <1>0, <1>1 DEF TypeOK, StackType
<1>5. Quiet
  BY <1>1 DEF Quiet
<1>6. Pieces'
  <2>1. CASE Call = {}
    BY <1>0, <1>1, <2>1 DEF Pieces, CallsWell, FramesWell, FrameOK, Exclusive, HeldBetween, Call, Made,
       Rpc, Op
  <2>2. CASE Call # {}
    BY <1>0, <1>1, <1>5, <2>2, StacksStay
  <2> QED
    BY <2>1, <2>2
<1>7. \A c \in kicked' : c \in Made /\ ~Rpc(c)
  BY <1>0, <1>1 DEF KickedReads
<1> QED
  BY <1>1, <1>2, <1>3, <1>4, <1>6, <1>7, NothingMoves

LEMMA WaitForReadStep ==
    ASSUME RpcInv, NEW t \in Thread, WaitForRead(t)
    PROVE  RpcInv'
<1>0. TypeOK /\ Pieces /\ KickedReads
  BY DEF RpcInv
<1>1. /\ UNCHANGED <<calls, task, order, announced, contents, expects, req, open, conn, counter>>
      /\ At(t, "poll", {"lock"})
  BY DEF WaitForRead, netVars
<1>2. PICK c, n : c = Top(t).call /\ n = Len(stack[t])
  OBVIOUS
<1>3. /\ stack[t] # <<>> /\ Top(t) = stack[t][n] /\ Top(t).op = "poll" /\ Top(t).at = "lock"
      /\ c \in Call
  BY <1>0, <1>1, <1>2, AtFacts
<1>4. Quiet
  BY <1>1 DEF Quiet
<1>5. announced' \subseteq Obj /\ contents' \in [Obj -> Nat]
  BY <1>0, <1>1 DEF TypeOK
<1>6. CASE Pop(t) /\ UNCHANGED kicked
  <2>1. Pieces'
    BY <1>0, <1>2, <1>3, <1>4, <1>6, IdlePops
  <2>2. StackType'
    BY <1>0, <1>3, <1>6, PopFacts DEF TypeOK, StackType
  <2>3. \A d \in kicked' : d \in Made /\ ~Rpc(d)
    BY <1>0, <1>6 DEF KickedReads
  <2> QED
    BY <1>1, <1>5, <2>1, <2>2, <2>3, NothingMoves
<1>7. CASE /\ kicked' = {d \in Made : ~Rpc(d) /\ task[d] = "running"}
           /\ UNCHANGED stack
  <2>1. Pieces'
    BY <1>0, <1>3, <1>4, <1>7, StacksStay
  <2>2. StackType'
    BY <1>0, <1>7 DEF TypeOK, StackType
  <2>3. \A d \in kicked' : d \in Made /\ ~Rpc(d)
    BY <1>7
  <2> QED
    BY <1>1, <1>5, <2>1, <2>2, <2>3, NothingMoves
<1> QED
  BY <1>6, <1>7 DEF WaitForRead

LEMMA ReadLandsStep ==
    ASSUME RpcInv, NEW c \in Call, ReadLands(c)
    PROVE  RpcInv'
<1>0. TypeOK /\ Pieces /\ KickedReads
  BY DEF RpcInv
<1>1. /\ UNCHANGED <<calls, stack, order, announced, expects, kicked, req, open, conn, counter>>
      /\ c \in kicked /\ task[c] = "running"
      /\ task' = [task EXCEPT ![c] = "done"]
      /\ contents' = [contents EXCEPT ![Buf(c)] = c]
  BY DEF ReadLands, netVars
<1>2. c \in Made /\ ~Rpc(c)
  BY <1>0, <1>1 DEF KickedReads
<1>3. CallOK(c) /\ ~req[c].published
  BY <1>0, <1>2 DEF Pieces, CallsWell, CallOK
<1>4. task' \in [Call -> {"none", "stub", "running", "done"}]
      /\ \A d \in Call : d # c => task'[d] = task[d]
  BY <1>0, <1>1 DEF TypeOK
<1>5. Only(c) /\ CallOK(c)' /\ ~req'[c].published
  BY <1>1, <1>3, <1>4 DEF Only, CallOK
<1>6. Pieces'
  BY <1>0, <1>1, <1>2, <1>3, <1>5, StacksStay
<1>7. contents' \in [Obj -> Nat]
  <2>1. contents \in [Obj -> Nat] /\ c \in Nat
    BY <1>0 DEF TypeOK, Call
  <2> QED
    BY <1>1, <2>1
<1>8. /\ StackType' /\ order' \in Seq(Made) /\ announced' \subseteq Obj /\ expects' \in [Call -> Int]
  BY <1>0, <1>1 DEF TypeOK, StackType
<1>9. \A d \in kicked' : d \in Made /\ ~Rpc(d)
  BY <1>0, <1>1 DEF KickedReads
<1> QED
  BY <1>1, <1>4, <1>6, <1>7, <1>8, <1>9, FrameworkStep

-----------------------------------------------------------------------------
(* Polls. *)

LEMMA HolderFacts ==
    ASSUME TypeOK, Pieces, NEW t \in Thread, NEW S, At(t, "poll", S), "lock" \notin S,
           NEW c, c = Top(t).call, NEW n, n = Len(stack[t])
    PROVE  /\ stack[t] # <<>> /\ c \in Call /\ c \in Made /\ Holds(t, n, c) /\ Top(t) \in Frame
           /\ CallOK(c) /\ FrameOK(t, n, Top(t)) /\ Top(t).at \in S
           /\ req[c].published /\ ~req[c].done /\ Rpc(c) /\ task[c] = "running"
           /\ Top(t).at \notin {"connect", "complete"} =>
                 c \in open /\ conn[c].state # "none" /\ req[c].result = None
<1>1. /\ stack[t] # <<>> /\ n \in DOMAIN stack[t] /\ Top(t) = stack[t][n] /\ Top(t) \in Frame
      /\ Top(t).op = "poll" /\ Top(t).at \in S /\ c \in Made /\ c \in Call
      /\ FrameOK(t, n, Top(t)) /\ CallOK(c)
  BY AtFacts
<1>2. Holds(t, n, c)
  BY <1>1 DEF Holds
<1>3. /\ req[c].published /\ ~req[c].done
      /\ Top(t).at = "connect" <=> conn[c].state = "none"
      /\ Top(t).at = "complete" <=> req[c].result # None
  BY <1>1 DEF FrameOK
<1>4. Rpc(c) /\ task[c] = "running"
  BY <1>1, <1>3 DEF CallOK
<1>5. Top(t).at \notin {"connect", "complete"} =>
         c \in open /\ conn[c].state # "none" /\ req[c].result = None
  BY <1>1, <1>3 DEF CallOK
<1> QED
  BY <1>1, <1>2, <1>3, <1>4, <1>5

(* Nothing changes for a request under way but where its poll is. *)
LEMMA PollMoves ==
    ASSUME RpcInv, NEW t \in Thread, NEW S, At(t, "poll", S),
           S \cap {"lock", "connect", "complete"} = {},
           UNCHANGED <<calls, task, req, open, conn>>,
           \/ Pop(t)
           \/ \E w \in {"go", "data", "POLLOUT", "POLLIN", "payload"} : Goes(t, w)
    PROVE  Pieces' /\ StackType'
<1>0. TypeOK /\ Pieces
  BY DEF RpcInv
<1>1. PICK c, n : c = Top(t).call /\ n = Len(stack[t])
  OBVIOUS
<1>2. "lock" \notin S
  OBVIOUS
<1>3. /\ stack[t] # <<>> /\ c \in Call /\ Holds(t, n, c) /\ CallOK(c)
      /\ req[c].published /\ ~req[c].done /\ Top(t).at \in S
      /\ Top(t).at \notin {"connect", "complete"} =>
            c \in open /\ conn[c].state # "none" /\ req[c].result = None
  BY <1>0, <1>1, <1>2, HolderFacts
<1>4. c \in open /\ conn[c].state # "none" /\ req[c].result = None
  BY <1>3
<1>5. Only(c) /\ CallOK(c)'
  BY <1>3 DEF Only, CallOK, Made, Rpc, Op
<1>6. CASE Pop(t)
  <2>1. c \in open'
    BY <1>4
  <2>2. StackType'
    BY <1>0, <1>3, <1>6, PopFacts DEF TypeOK, StackType
  <2> QED
    BY <1>0, <1>1, <1>3, <1>5, <1>6, <2>1, <2>2, HolderPops
<1>7. ASSUME NEW w \in {"go", "data", "POLLOUT", "POLLIN", "payload"}, Goes(t, w)
      PROVE  Pieces' /\ StackType'
  <2>1. w \in {"connect", "go", "data", "POLLOUT", "POLLIN", "payload", "complete"}
    OBVIOUS
  <2>2. /\ req'[c].published /\ ~req'[c].done
        /\ w = "connect" <=> conn'[c].state = "none"
        /\ w = "complete" <=> req'[c].result # None
    BY <1>3, <1>4
  <2>3. StackType'
    BY <1>0, <1>3, <1>7, GoesFacts DEF TypeOK, StackType
  <2> QED
    BY <1>0, <1>1, <1>3, <1>5, <1>7, <2>1, <2>2, <2>3, HolderGoes
<1> QED
  BY <1>6, <1>7

LEMMA ChecksPayloadStep ==
    ASSUME RpcInv, NEW t \in Thread, ChecksPayload(t)
    PROVE  RpcInv'
<1>1. /\ At(t, "poll", {"go"})
      /\ UNCHANGED <<calls, task, order, announced, contents, expects, kicked, req, open, conn, counter>>
  BY DEF ChecksPayload, netVars
<1>2. Pop(t) \/ \E w \in {"go", "data", "POLLOUT", "POLLIN", "payload"} : Goes(t, w)
  BY DEF ChecksPayload, Stops
<1>3. PICK S : S = {"go"}
  OBVIOUS
<1>4. Pieces' /\ StackType'
  BY <1>1, <1>2, <1>3, PollMoves
<1>5. announced' \subseteq Obj /\ contents' \in [Obj -> Nat]
  BY <1>1 DEF RpcInv, TypeOK
<1>6. \A d \in kicked' : d \in Made /\ ~Rpc(d)
  BY <1>1 DEF RpcInv, KickedReads
<1> QED
  BY <1>1, <1>4, <1>5, <1>6, NothingMoves

LEMMA AwaitsStep ==
    ASSUME RpcInv, NEW t \in Thread, Awaits(t)
    PROVE  RpcInv'
<1>0. TypeOK /\ Pieces
  BY DEF RpcInv
<1>1. UNCHANGED <<calls, task, order, announced, contents, expects, kicked, req, open, conn, counter>>
  BY DEF Awaits, netVars
<1>2. ASSUME \E s \in {"POLLOUT", "POLLIN", "payload"} : At(t, "poll", {s}) /\ Goes(t, "go")
      PROVE  Pieces' /\ StackType'
  <2>1. PICK s \in {"POLLOUT", "POLLIN", "payload"} : At(t, "poll", {s}) /\ Goes(t, "go")
    BY <1>2
  <2>2. PICK S : S = {s}
    OBVIOUS
  <2>3. Pieces' /\ StackType'
    BY <1>1, <2>1, <2>2, PollMoves
  <2> QED
    BY <2>3
<1>3. ASSUME \E d \in Writers(Buf(Top(t).call)) : Push(t, PollFrame(d, "BLOCK"))
      PROVE  Pieces' /\ StackType'
  <2>1. PICK d \in Writers(Buf(Top(t).call)) : Push(t, PollFrame(d, "BLOCK"))
    BY <1>3
  <2>2. d \in Made
    BY DEF Writers, Owners
  <2> QED
    BY <1>0, <1>1, <2>1, <2>2, PushesPoll
<1>4. Pieces' /\ StackType'
  BY <1>2, <1>3 DEF Awaits
<1>5. announced' \subseteq Obj /\ contents' \in [Obj -> Nat]
  BY <1>1 DEF RpcInv, TypeOK
<1>6. \A d \in kicked' : d \in Made /\ ~Rpc(d)
  BY <1>1 DEF RpcInv, KickedReads
<1> QED
  BY <1>1, <1>4, <1>5, <1>6, NothingMoves

LEMMA PollLocksStep ==
    ASSUME RpcInv, NEW t \in Thread, PollLocks(t)
    PROVE  RpcInv'
<1>0. TypeOK /\ Pieces
  BY DEF RpcInv
<1>1. /\ UNCHANGED <<calls, task, order, announced, contents, expects, kicked, req, open, conn,
                     counter>>
      /\ At(t, "poll", {"lock"}) /\ Rpc(Top(t).call)
  BY DEF PollLocks, netVars
<1>2. PICK c, n : c = Top(t).call /\ n = Len(stack[t])
  OBVIOUS
<1>3. /\ stack[t] # <<>> /\ n \in DOMAIN stack[t] /\ Top(t) = stack[t][n] /\ Top(t).op = "poll"
      /\ Top(t).at = "lock" /\ c \in Call /\ c \in Made /\ CallOK(c)
  BY <1>0, <1>1, <1>2, AtFacts
<1>4. Quiet
  BY <1>1 DEF Quiet
<1>5. ASSUME Pop(t)
      PROVE  Pieces' /\ StackType'
  <2>1. StackType'
    BY <1>0, <1>3, <1>5, PopFacts DEF TypeOK, StackType
  <2> QED
    BY <1>0, <1>2, <1>3, <1>4, <1>5, <2>1, IdlePops
<1>6. ASSUME req[c].published, ~Locked(c), ~req[c].done, Goes(t, "go")
      PROVE  Pieces' /\ StackType'
  <2>1. PICK g : g = [Top(t) EXCEPT !.at = "go"]
    OBVIOUS
  <2>2. Swaps(t, n, g) /\ StackType' /\ g.at = "go" /\ g.op = "poll" /\ g.call = c
    BY <1>0, <1>2, <1>3, <1>6, <2>1, GoesSwaps
  <2>3. c \in open
    BY <1>0, <1>3, <1>6 DEF Pieces, HeldBetween
  <2>4. conn[c].state # "none" /\ req[c].result = None
    BY <1>3, <2>3 DEF CallOK
  <2>5. FrameOK(t, n, g)'
    BY <1>1, <1>3, <1>6, <2>2, <2>4 DEF FrameOK, Made
  <2> QED
    BY <1>0, <1>2, <1>3, <1>4, <1>6, <2>2, <2>5, PollSwaps
<1>7. Pieces' /\ StackType'
  BY <1>2, <1>5, <1>6 DEF PollLocks
<1>8. announced' \subseteq Obj /\ contents' \in [Obj -> Nat]
  BY <1>1 DEF RpcInv, TypeOK
<1>9. \A d \in kicked' : d \in Made /\ ~Rpc(d)
  BY <1>1 DEF RpcInv, KickedReads
<1> QED
  BY <1>1, <1>7, <1>8, <1>9, NothingMoves

-----------------------------------------------------------------------------
(* The network's steps. *)

OwnOK(c) ==
    req[c].result # None =>
        \/ conn[c].state = "replied" /\ req[c].result = conn[c].value
        \/ conn[c].state \in {"failed", "refused", "dropped"} /\ req[c].result = Error

LEMMA OwnReplyIs == OwnReply <=> \A c \in Call : OwnOK(c)
<1>1. \A c \in Call : c # NoCall
  BY DEF Call, NoCall
<1> QED
  BY <1>1 DEF OwnReply, OwnOK, Broken, Failures

LEMMA OwnReplyAfter == OwnReply' <=> \A c \in Call : OwnOK(c)'
<1>1. \A c \in Call : c # NoCall
  BY DEF Call, NoCall
<1> QED
  BY <1>1 DEF OwnReply, OwnOK, Broken, Failures, Call

LEMMA NetStep ==
    ASSUME RpcInv, NEW c \in Call, Only(c), kicked' = kicked, TypeOK', Pieces', OwnDescriptor',
           ReplyOK(c)', OwnOK(c)'
    PROVE  RpcInv'
<1>1. calls' = calls
  BY DEF Only
<1>2. KickedReads'
  BY <1>1 DEF RpcInv, KickedReads, Made, Rpc, Op
<1>3. ASSUME NEW d \in Call, d # c PROVE ReplyOK(d)' /\ OwnOK(d)'
  <2>1. ReplyOK(d) /\ OwnOK(d)
    BY OwnReplyIs DEF RpcInv, ReplyWell
  <2>2. req'[d] = req[d] /\ conn'[d] = conn[d]
    BY <1>3 DEF Only
  <2> QED
    BY <2>1, <2>2 DEF ReplyOK, OwnOK
<1>4. ReplyWell'
  <2> SUFFICES ASSUME NEW d \in Call' PROVE ReplyOK(d)'
    BY DEF ReplyWell
  <2>1. d \in Call
    BY DEF Call
  <2> QED
    BY <1>3, <2>1
<1>5. OwnReply'
  <2>1. \A d \in Call : OwnOK(d)'
    BY <1>3
  <2> QED
    BY <2>1, OwnReplyAfter
<1> QED
  BY <1>2, <1>4, <1>5 DEF RpcInv

(* Handshakes and the server: a connection changes, nothing else. *)
LEMMA ConnStep ==
    ASSUME RpcInv, NEW d \in Call, UNCHANGED <<clientVars, req, open>>, counter' \in Nat,
           NEW k \in Connection, conn' = [conn EXCEPT ![d] = k],
           conn[d].state \in {"connecting", "open", "served"}, k.state # "none",
           k.state = "replied" => k.in = Reply(d),
           k.state # "replied" => k.in = <<>>,
           k.value = None <=> k.state \notin {"served", "replied"}
    PROVE  RpcInv'
<1>0. TypeOK /\ Pieces /\ OwnDescriptor /\ ReplyWell /\ OwnReply
  BY DEF RpcInv
<1>1. /\ conn' \in [Call -> Connection] /\ conn'[d] = k
      /\ \A c \in Call : c # d => conn'[c] = conn[c]
  BY <1>0 DEF TypeOK
<1>2. UNCHANGED <<calls, stack, task, order, announced, contents, expects, kicked, req, open>>
  BY DEF clientVars
<1>3. Quiet
  BY <1>1, <1>2 DEF Quiet
<1>4. Pieces'
  BY <1>0, <1>2, <1>3, StacksStay
<1>5. TypeOK'
  BY <1>0, <1>1, <1>2 DEF TypeOK, Made, Call
<1>6. Only(d)
  BY <1>1, <1>2 DEF Only
<1>7. OwnDescriptor'
  BY <1>0, <1>2 DEF OwnDescriptor
<1>8. ReplyOK(d) /\ OwnOK(d)
  BY <1>0, OwnReplyIs DEF ReplyWell
<1>9. OwnOK(d)'
  <2>1. req'[d].result = None
    BY <1>2, <1>8 DEF OwnOK
  <2> QED
    BY <2>1 DEF OwnOK
<1>10. ReplyOK(d)'
  <2>1. req'[d].received = <<>>
    BY <1>2, <1>8 DEF ReplyOK
  <2>2. <<>> \o Reply(d) = Reply(d)
    <3>1. Reply(d) \in Seq(Nat \X Nat)
      BY DEF Reply, Call
    <3> QED
      BY <3>1, ConcatEmptySeq
  <2> QED
    BY <1>1, <2>1, <2>2 DEF ReplyOK, Reply
<1> QED
  BY <1>2, <1>4, <1>5, <1>6, <1>7, <1>9, <1>10, NetStep

LEMMA ConnFacts ==
    ASSUME RpcInv, NEW d \in Call, NEW k, k = conn[d]
    PROVE  /\ k \in Connection /\ k.out \in Seq(Int) /\ k.got \in Seq(Int)
           /\ k.state # "replied" => k.in = <<>>
           /\ k.value = None <=> k.state \notin {"served", "replied"}
<1>1. conn[d] \in Connection
  BY DEF RpcInv, TypeOK
<1>2. ReplyOK(d)
  BY DEF RpcInv, ReplyWell
<1>3. k.out \in Seq(Int) /\ k.got \in Seq(Int)
  BY <1>1 DEF Connection
<1> QED
  BY <1>1, <1>2, <1>3 DEF ReplyOK

LEMMA ConnectsStep ==
    ASSUME RpcInv, NEW d \in Call, Connects(d)
    PROVE  RpcInv'
<1>1. PICK s \in {"open", "refused"} : conn' = [conn EXCEPT ![d].state = s]
  BY DEF Connects
<1>2. PICK k, h : k = [conn[d] EXCEPT !.state = s] /\ h = conn[d]
  OBVIOUS
<1>3. h \in Connection /\ h.in = <<>> /\ h.value = None /\ h.state = "connecting"
  BY <1>2, ConnFacts DEF Connects
<1>4. k \in Connection /\ k.state = s /\ k.in = <<>> /\ k.value = None
  BY <1>2, <1>3 DEF Connection
<1>5. conn' = [conn EXCEPT ![d] = k]
  BY <1>1, <1>2
<1>6. counter' \in Nat /\ UNCHANGED <<clientVars, req, open>>
  BY DEF RpcInv, TypeOK, Connects
<1> QED
  BY <1>2, <1>3, <1>4, <1>5, <1>6, ConnStep

LEMMA ServerReadsStep ==
    ASSUME RpcInv, NEW d \in Call, ServerReads(d)
    PROVE  RpcInv'
<1>1. PICK h : h = conn[d]
  OBVIOUS
<1>2. /\ h \in Connection /\ h.in = <<>> /\ h.value = None /\ h.state = "open"
      /\ h.out # <<>> /\ h.out \in Seq(Int) /\ h.got \in Seq(Int)
  BY <1>1, ConnFacts DEF ServerReads
<1>3. PICK x, y : x = Append(h.got, Head(h.out)) /\ y = Tail(h.out)
  OBVIOUS
<1>4. x \in Seq(Int) /\ y \in Seq(Int)
  BY <1>2, <1>3
<1>5. PICK k : k = [h EXCEPT !.got = x, !.out = y]
  OBVIOUS
<1>6. k \in Connection /\ k.state = "open" /\ k.in = <<>> /\ k.value = None
  BY <1>2, <1>4, <1>5 DEF Connection
<1>7. conn' = [conn EXCEPT ![d] = k]
  <2>1. conn' = [conn EXCEPT ![d].got = x, ![d].out = y]
    BY <1>1, <1>3 DEF ServerReads
  <2> QED
    BY <1>1, <1>5, <2>1
<1>8. counter' \in Nat /\ UNCHANGED <<clientVars, req, open>>
  BY DEF RpcInv, TypeOK, ServerReads
<1> QED
  BY <1>1, <1>2, <1>6, <1>7, <1>8, ConnStep

LEMMA AnswerFacts ==
    /\ None \in Answer /\ Error \in Answer /\ None # Error
    /\ \A x \in Nat : Value(x) \in Answer
    /\ \A x \in SUBSET Int : Value(x) \in Answer
    /\ \A x : Value(x) # None /\ Value(x) # Error
    /\ \A x, y : Value(x) = Value(y) => x = y
<1>1. \A x : Value(x) # None /\ Value(x) # Error
  BY DEF Value, None, Error
<1>2. \A x, y : Value(x) = Value(y) => x = y
  BY DEF Value
<1>3. None # Error
  BY DEF None, Error
<1> QED
  BY <1>1, <1>2, <1>3 DEF Answer

LEMMA ServerServesStep ==
    ASSUME RpcInv, NEW d \in Call, ServerServes(d)
    PROVE  RpcInv'
<1>1. PICK h : h = conn[d]
  OBVIOUS
<1>2. /\ h \in Connection /\ h.in = <<>> /\ h.state = "open" /\ h.got \in Seq(Int)
  BY <1>1, ConnFacts DEF ServerServes
<1>3. PICK v, payload, known :
         /\ payload = ToSet(SubSeq(conn[d].got, CommandLen + 1, Total(d)))
         /\ counter' = IF known /\ Op(d) = "step" THEN counter + 1 ELSE counter
         /\ v = IF ~known THEN Error ELSE IF Op(d) = "put" THEN Value(payload)
                ELSE Value(counter')
         /\ conn' = [conn EXCEPT ![d].state = "served", ![d].value = v]
  BY DEF ServerServes
<1>4. counter' \in Nat
  BY <1>3 DEF RpcInv, TypeOK
<1>5. payload \in SUBSET Int
  <2>1. \A x \in payload : \E i \in DOMAIN SubSeq(h.got, CommandLen + 1, Total(d)) :
           x = SubSeq(h.got, CommandLen + 1, Total(d))[i]
    BY <1>1, <1>3 DEF ToSet
  <2>2. /\ TypeOK /\ Pieces
    BY DEF RpcInv
  <2>3. d \in Made
    BY <1>1, <1>2, <2>2 DEF Pieces, CallsWell, CallOK
  <2>4. Total(d) \in Nat /\ CommandLen + 1 \in Nat /\ Total(d) = Len(h.got)
    BY <1>1, <2>2, <2>3, MadeFacts, Sizes DEF ServerServes
  <2>5. SubSeq(h.got, CommandLen + 1, Total(d)) \in Seq(Int)
    <3>1. PICK a, b \in Nat : a = CommandLen + 1 /\ b = Total(d) /\ b = Len(h.got) /\ a >= 1
      BY <2>4, Sizes
    <3>2. SubSeq(h.got, a, b) \in Seq(Int)
      BY <1>2, <3>1
    <3> QED
      BY <3>1, <3>2
  <2> QED
    BY <2>1, <2>5
<1>6. v \in Answer /\ v # None
  BY <1>3, <1>4, <1>5, AnswerFacts
<1>7. PICK k : k = [h EXCEPT !.state = "served", !.value = v]
  OBVIOUS
<1>8. k \in Connection /\ k.state = "served" /\ k.in = <<>> /\ k.value = v
  BY <1>2, <1>6, <1>7 DEF Connection
<1>9. conn' = [conn EXCEPT ![d] = k]
  BY <1>1, <1>3, <1>7
<1>10. UNCHANGED <<clientVars, req, open>>
  BY DEF ServerServes
<1> QED
  BY <1>1, <1>2, <1>4, <1>6, <1>8, <1>9, <1>10, ConnStep

LEMMA ServerRepliesStep ==
    ASSUME RpcInv, NEW d \in Call, ServerReplies(d)
    PROVE  RpcInv'
<1>1. PICK h : h = conn[d]
  OBVIOUS
<1>2. h \in Connection /\ h.state = "served" /\ h.value # None
  BY <1>1, ConnFacts DEF ServerReplies
<1>3. PICK r, e : r = Reply(d) /\ e = <<>>
  OBVIOUS
<1>0. r \in Seq(Nat \X Nat) /\ e \in Seq(Int)
  BY <1>3 DEF Reply, Call
<1>4. PICK k : k = [h EXCEPT !.state = "replied", !.got = e, !.in = r]
  OBVIOUS
<1>5. k \in Connection /\ k.state = "replied" /\ k.in = r /\ k.value # None
  BY <1>0, <1>2, <1>4 DEF Connection
<1>6. conn' = [conn EXCEPT ![d] = k]
  <2>1. conn' = [conn EXCEPT ![d].state = "replied", ![d].got = <<>>, ![d].in = Reply(d)]
    BY DEF ServerReplies, Reply
  <2> QED
    BY <1>1, <1>3, <1>4, <2>1
<1>7. counter' \in Nat /\ UNCHANGED <<clientVars, req, open>>
  BY DEF RpcInv, TypeOK, ServerReplies
<1> QED
  BY <1>1, <1>2, <1>3, <1>5, <1>6, <1>7, ConnStep

LEMMA ServerDropsStep ==
    ASSUME RpcInv, NEW d \in Call, ServerDrops(d)
    PROVE  RpcInv'
<1>1. PICK h : h = conn[d]
  OBVIOUS
<1>2. h \in Connection /\ h.state = "open" /\ h.value = None /\ h.in = <<>>
  BY <1>1, ConnFacts DEF ServerDrops
<1>3. PICK e : e = <<>>
  OBVIOUS
<1>0. e \in Seq(Int)
  BY <1>3
<1>4. PICK k : k = [h EXCEPT !.state = "dropped", !.out = e]
  OBVIOUS
<1>5. k \in Connection /\ k.state = "dropped" /\ k.in = <<>> /\ k.value = None
  BY <1>0, <1>2, <1>4 DEF Connection
<1>6. conn' = [conn EXCEPT ![d] = k]
  BY <1>1, <1>3, <1>4 DEF ServerDrops
<1>7. counter' \in Nat /\ UNCHANGED <<clientVars, req, open>>
  BY DEF RpcInv, TypeOK, ServerDrops
<1> QED
  BY <1>1, <1>2, <1>5, <1>6, <1>7, ConnStep

-----------------------------------------------------------------------------
(* Steps of the poll that holds the request's lock. *)

LEMMA TypesStep ==
    ASSUME TypeOK, UNCHANGED <<calls, order, announced, expects, kicked>>, StackType',
           task' \in [Call -> {"none", "stub", "running", "done"}], contents' \in [Obj -> Nat],
           req' \in [Call -> Request], open' \subseteq Call, conn' \in [Call -> Connection],
           counter' \in Nat
    PROVE  TypeOK'
BY DEF TypeOK, StackType, Call, Made

LEMMA ReqFacts ==
    ASSUME TypeOK, NEW c \in Call, NEW q \in Request, req' = [req EXCEPT ![c] = q]
    PROVE  /\ req' \in [Call -> Request] /\ req'[c] = q
           /\ \A d \in Call : d # c => req'[d] = req[d]
BY DEF TypeOK

LEMMA ConnAfter ==
    ASSUME TypeOK, NEW c \in Call, NEW k \in Connection, conn' = [conn EXCEPT ![c] = k]
    PROVE  /\ conn' \in [Call -> Connection] /\ conn'[c] = k
           /\ \A d \in Call : d # c => conn'[d] = conn[d]
BY DEF TypeOK

(* The request and the connection of c at hand. *)
LEMMA CallFacts ==
    ASSUME RpcInv, NEW c \in Call, NEW h, h = req[c]
    PROVE  /\ h \in Request /\ h.published \in BOOLEAN /\ h.fd \in Nat /\ h.sent \in Nat
           /\ h.received \in Seq(Nat \X Nat) /\ h.result \in Answer /\ h.done \in BOOLEAN
           /\ ReplyOK(c) /\ OwnOK(c) /\ CallOK(c)
<1>1. h \in Request
  BY DEF RpcInv, TypeOK
<1>2. ReplyOK(c) /\ OwnOK(c) /\ CallOK(c)
  BY OwnReplyIs DEF RpcInv, ReplyWell, Pieces, CallsWell
<1> QED
  BY <1>1, <1>2 DEF Request

LEMMA CompletesStep ==
    ASSUME RpcInv, NEW t \in Thread, Completes(t)
    PROVE  RpcInv'
<1>0. TypeOK /\ Pieces /\ OwnDescriptor
  BY DEF RpcInv
<1>1. PICK c, n, S, h : c = Top(t).call /\ n = Len(stack[t]) /\ S = {"complete"} /\ h = req[c]
  OBVIOUS
<1>2. /\ At(t, "poll", S) /\ Pop(t) /\ task' = [task EXCEPT ![c] = "done"]
      /\ req' = [req EXCEPT ![c].done = TRUE]
      /\ UNCHANGED <<calls, order, announced, contents, expects, kicked, open, conn, counter>>
  BY <1>1 DEF Completes, netVars
<1>3. /\ stack[t] # <<>> /\ c \in Call /\ Holds(t, n, c) /\ CallOK(c) /\ FrameOK(t, n, Top(t))
      /\ Top(t).at = "complete" /\ req[c].published
  BY <1>0, <1>1, <1>2, HolderFacts
<1>4. h \in Request /\ h.result # None /\ h.published
  <2>1. Top(t).op = "poll" /\ Top(t).call = c
    BY <1>1, <1>2 DEF At
  <2> QED
    BY <1>0, <1>1, <1>3, <2>1 DEF TypeOK, FrameOK
<1>5. PICK q : q = [h EXCEPT !.done = TRUE]
  OBVIOUS
<1>6. /\ q \in Request /\ q.done /\ q.published /\ q.fd = h.fd /\ q.result = h.result
      /\ q.received = h.received
  BY <1>4, <1>5 DEF Request
<1>7. req' = [req EXCEPT ![c] = q]
  BY <1>1, <1>2, <1>5
<1>8. req' \in [Call -> Request] /\ req'[c] = q /\ \A d \in Call : d # c => req'[d] = req[d]
  BY <1>0, <1>3, <1>6, <1>7, ReqFacts
<1>9. /\ task' \in [Call -> {"none", "stub", "running", "done"}] /\ task'[c] = "done"
      /\ \A d \in Call : d # c => task'[d] = task[d]
  BY <1>0, <1>2, <1>3 DEF TypeOK
<1>10. Only(c)
  BY <1>2, <1>8, <1>9 DEF Only
<1>11. CallOK(c)'
  BY <1>1, <1>2, <1>3, <1>4, <1>6, <1>8, <1>9 DEF CallOK, Made, Rpc, Op
<1>12. Pieces'
  BY <1>0, <1>1, <1>2, <1>3, <1>6, <1>8, <1>10, <1>11, HolderPops
<1>13. TypeOK'
  <2>1. StackType'
    BY <1>0, <1>2, <1>3, PopFacts DEF TypeOK, StackType
  <2>2. contents' \in [Obj -> Nat] /\ open' \subseteq Call /\ conn' \in [Call -> Connection] /\ counter' \in Nat
    BY <1>0, <1>2 DEF TypeOK
  <2> QED
    BY <1>0, <1>2, <1>8, <1>9, <2>1, <2>2, TypesStep
<1>14. OwnDescriptor'
  <2>1. \A d \in open : req'[d].fd = req[d].fd
    BY <1>0, <1>1, <1>6, <1>8 DEF TypeOK
  <2> QED
    BY <1>0, <1>2, <2>1 DEF OwnDescriptor
<1>15. ReplyOK(c) /\ OwnOK(c)
  BY <1>3, CallFacts
<1>16. ReplyOK(c)' /\ OwnOK(c)'
  BY <1>1, <1>2, <1>6, <1>8, <1>15 DEF ReplyOK, OwnOK
<1> QED
  BY <1>2, <1>3, <1>10, <1>12, <1>13, <1>14, <1>16, NetStep

(* finish(): the descriptor is closed and the result is there. *)
LEMMA FinishStep ==
    ASSUME RpcInv, NEW t \in Thread, NEW S, At(t, "poll", S), S \cap {"lock", "complete"} = {},
           NEW c, c = Top(t).call, NEW r \in Answer, r # None, Finishes(t, c, r),
           open \ {Reached(c)} = open \ {c},
           NEW k \in Connection, conn' = [conn EXCEPT ![c] = k], k.state # "none", ReplyOK(c)',
           \/ k.state = "replied" /\ r = k.value
           \/ k.state \in {"failed", "refused", "dropped"} /\ r = Error,
           UNCHANGED <<calls, task, order, announced, expects, kicked, counter>>
    PROVE  RpcInv'
<1>0. TypeOK /\ Pieces /\ OwnDescriptor
  BY DEF RpcInv
<1>1. PICK n, h : n = Len(stack[t]) /\ h = req[c]
  OBVIOUS
<1>2. "lock" \notin S
  OBVIOUS
<1>3. /\ stack[t] # <<>> /\ c \in Call /\ c \in Made /\ Holds(t, n, c) /\ CallOK(c)
      /\ req[c].published /\ ~req[c].done /\ task[c] = "running"
  BY <1>0, <1>1, <1>2, HolderFacts
<1>4. h \in Request /\ h.published /\ ~h.done
  BY <1>1, <1>3, CallFacts
<1>5. PICK q : q = [h EXCEPT !.result = r]
  OBVIOUS
<1>6. /\ q \in Request /\ ~q.done /\ q.published /\ q.fd = h.fd /\ q.result = r
      /\ q.received = h.received
  BY <1>4, <1>5 DEF Request
<1>7. req' = [req EXCEPT ![c] = q] /\ open' = open \ {c} /\ Goes(t, "complete")
      /\ contents' = IF Producer(c) THEN [contents EXCEPT ![Buf(c)] = c] ELSE contents
  BY <1>1, <1>5 DEF Finishes
<1>8. req' \in [Call -> Request] /\ req'[c] = q /\ \A d \in Call : d # c => req'[d] = req[d]
  BY <1>0, <1>3, <1>6, <1>7, ReqFacts
<1>9. conn' \in [Call -> Connection] /\ conn'[c] = k /\ \A d \in Call : d # c => conn'[d] = conn[d]
  BY <1>0, <1>3, ConnAfter
<1>10. Only(c)
  BY <1>7, <1>8, <1>9 DEF Only
<1>11. CallOK(c)'
  BY <1>3, <1>6, <1>7, <1>8, <1>9 DEF CallOK, Made, Rpc, Op
<1>12. PICK w : w = "complete"
  OBVIOUS
<1>13. Pieces'
  <2>1. w \in {"connect", "go", "data", "POLLOUT", "POLLIN", "payload", "complete"} /\ Goes(t, w)
    BY <1>7, <1>12
  <2>2. /\ req'[c].published /\ ~req'[c].done
        /\ w = "connect" <=> conn'[c].state = "none"
        /\ w = "complete" <=> req'[c].result # None
    BY <1>6, <1>8, <1>9, <1>12
  <2> QED
    BY <1>0, <1>1, <1>3, <1>10, <1>11, <2>1, <2>2, HolderGoes
<1>14. TypeOK'
  <2>1. StackType'
    BY <1>0, <1>3, <1>7, GoesFacts DEF TypeOK, StackType
  <2>2. contents \in [Obj -> Nat] /\ c \in Nat
    BY <1>0, <1>3 DEF TypeOK, Call
  <2>3. contents' \in [Obj -> Nat]
    BY <1>7, <2>2
  <2>4. /\ open' \subseteq Call /\ counter' \in Nat
        /\ task' \in [Call -> {"none", "stub", "running", "done"}]
    BY <1>0, <1>7 DEF TypeOK
  <2> QED
    BY <1>0, <1>8, <1>9, <2>1, <2>3, <2>4, TypesStep
<1>15. OwnDescriptor'
  <2>1. \A d \in open : req'[d].fd = req[d].fd
    BY <1>0, <1>1, <1>6, <1>8 DEF TypeOK
  <2> QED
    BY <1>0, <1>7, <2>1 DEF OwnDescriptor
<1>16. OwnOK(c)'
  BY <1>6, <1>8, <1>9 DEF OwnOK
<1> QED
  BY <1>3, <1>10, <1>13, <1>14, <1>15, <1>16, NetStep

(* A request that has no descriptor reaches nothing. *)
LEMMA ReachesNothing ==
    ASSUME RpcInv, NEW c \in Call, req[c].fd = 0
    PROVE  Reached(c) = NoCall /\ open \ {Reached(c)} = open \ {c}
<1>1. \A d \in open : d \in Call /\ req[d].fd # 0
  BY DEF RpcInv, TypeOK, Pieces, CallsWell, CallOK
<1>2. Reached(c) = NoCall
  BY <1>1 DEF Reached
<1>3. NoCall \notin open
  BY <1>1 DEF Call, NoCall
<1> QED
  BY <1>1, <1>2, <1>3

LEMMA SubmitConnectsStep ==
    ASSUME RpcInv, NEW t \in Thread, SubmitConnects(t)
    PROVE  RpcInv'
<1>0. TypeOK /\ Pieces /\ OwnDescriptor
  BY DEF RpcInv
<1>1. PICK c, n, S, h, k : /\ c = Top(t).call /\ n = Len(stack[t]) /\ S = {"connect"}
                           /\ h = req[c] /\ k = conn[c]
  OBVIOUS
<1>2. /\ At(t, "poll", S)
      /\ UNCHANGED <<calls, task, order, announced, expects, kicked, counter>>
  BY <1>1 DEF SubmitConnects
<1>3. /\ stack[t] # <<>> /\ c \in Call /\ c \in Made /\ Holds(t, n, c) /\ CallOK(c)
      /\ FrameOK(t, n, Top(t)) /\ Top(t).at = "connect" /\ req[c].published /\ ~req[c].done
      /\ task[c] = "running" /\ Rpc(c)
  BY <1>0, <1>1, <1>2, HolderFacts
<1>4. k.state = "none" /\ h.result = None
  <2>1. Top(t).op = "poll" /\ Top(t).call = c
    BY <1>1, <1>2 DEF At
  <2> QED
    BY <1>1, <1>3, <2>1 DEF FrameOK
<1>5. h \in Request /\ h.published /\ ~h.done /\ h.fd = 0 /\ ReplyOK(c)
  BY <1>1, <1>3, <1>4, CallFacts DEF CallOK
<1>6. k \in Connection
  BY <1>0, <1>1, <1>3 DEF TypeOK
<1>7. h.received = <<>> /\ k.in = <<>> /\ k.value = None
  BY <1>1, <1>4, <1>5 DEF ReplyOK
<1>8. c \notin open
  BY <1>1, <1>3, <1>4 DEF CallOK
<1>9. ASSUME conn' = [conn EXCEPT ![c].state = "failed"], Finishes(t, c, Error)
      PROVE  RpcInv'
  <2>1. PICK l, r : l = [k EXCEPT !.state = "failed"] /\ r = Error
    OBVIOUS
  <2>2. l \in Connection /\ l.state = "failed" /\ l.in = <<>> /\ l.value = None
    BY <1>6, <1>7, <2>1 DEF Connection
  <2>3. conn' = [conn EXCEPT ![c] = l]
    BY <1>1, <1>9, <2>1
  <2>4. conn'[c] = l
    BY <1>0, <1>3, <2>2, <2>3, ConnAfter
  <2>5. open \ {Reached(c)} = open \ {c}
    BY <1>1, <1>3, <1>5, ReachesNothing
  <2>6. ReplyOK(c)'
    <3>1. req'[c].received = <<>>
      <4>1. req' = [req EXCEPT ![c].result = r] /\ req \in [Call -> Request]
        BY <1>0, <1>9, <2>1 DEF Finishes, TypeOK
      <4>2. req'[c] = [req[c] EXCEPT !.result = r]
        BY <1>3, <4>1
      <4> QED
        BY <1>1, <1>5, <1>7, <4>2 DEF Request
    <3> QED
      BY <2>2, <2>4, <3>1 DEF ReplyOK
  <2>7. r \in Answer /\ r # None /\ Finishes(t, c, r)
    BY <1>9, <2>1, AnswerFacts
  <2>8. S \cap {"lock", "complete"} = {}
    BY <1>1
  <2> QED
    BY <1>1, <1>2, <2>1, <2>2, <2>3, <2>5, <2>6, <2>7, <2>8, FinishStep
<1>10. ASSUME req' = [req EXCEPT ![c].fd = LowestFree], open' = open \cup {c},
              conn' = [conn EXCEPT ![c].state = "connecting"], Goes(t, "go"), UNCHANGED contents
       PROVE  RpcInv'
  <2>1. PICK l, x : l = [k EXCEPT !.state = "connecting"] /\ x = LowestFree
    OBVIOUS
  <2>2. x \in Nat \ {0} /\ \A d \in open : req[d].fd # x
    BY <1>0, <1>3, <1>8, <2>1, FreeDescriptor
  <2>3. PICK q : q = [h EXCEPT !.fd = x]
    OBVIOUS
  <2>4. /\ q \in Request /\ ~q.done /\ q.published /\ q.fd = x /\ q.result = None
        /\ q.received = <<>>
    BY <1>4, <1>5, <1>7, <2>2, <2>3 DEF Request
  <2>5. l \in Connection /\ l.state = "connecting" /\ l.in = <<>> /\ l.value = None
    BY <1>6, <1>7, <2>1 DEF Connection
  <2>6. conn' = [conn EXCEPT ![c] = l] /\ req' = [req EXCEPT ![c] = q]
    BY <1>1, <1>10, <2>1, <2>3
  <2>7. conn' \in [Call -> Connection] /\ conn'[c] = l /\ \A d \in Call : d # c => conn'[d] = conn[d]
    BY <1>0, <1>3, <2>5, <2>6, ConnAfter
  <2>8. req' \in [Call -> Request] /\ req'[c] = q /\ \A d \in Call : d # c => req'[d] = req[d]
    BY <1>0, <1>3, <2>4, <2>6, ReqFacts
  <2>9. Only(c)
    BY <1>2, <1>10, <2>7, <2>8 DEF Only
  <2>10. CallOK(c)'
    BY <1>2, <1>3, <1>10, <2>2, <2>4, <2>5, <2>7, <2>8 DEF CallOK, Made, Rpc, Op
  <2>11. PICK w : w = "go"
    OBVIOUS
  <2>12. Pieces'
    <3>1. w \in {"connect", "go", "data", "POLLOUT", "POLLIN", "payload", "complete"} /\ Goes(t, w)
      BY <1>10, <2>11
    <3>2. /\ req'[c].published /\ ~req'[c].done
          /\ w = "connect" <=> conn'[c].state = "none"
          /\ w = "complete" <=> req'[c].result # None
      BY <2>4, <2>5, <2>7, <2>8, <2>11
    <3> QED
      BY <1>0, <1>1, <1>3, <2>9, <2>10, <3>1, <3>2, HolderGoes
  <2>13. TypeOK'
    <3>1. StackType'
      BY <1>0, <1>3, <1>10, GoesFacts DEF TypeOK, StackType
    <3>2. /\ contents' \in [Obj -> Nat] /\ open' \subseteq Call /\ counter' \in Nat
          /\ task' \in [Call -> {"none", "stub", "running", "done"}]
      BY <1>0, <1>2, <1>3, <1>10 DEF TypeOK
    <3> QED
      BY <1>0, <1>2, <2>7, <2>8, <3>1, <3>2, TypesStep
  <2>14. OwnDescriptor'
    <3>1. \A d \in open : d \in Call /\ d # c /\ req'[d].fd = req[d].fd
      BY <1>0, <1>8, <2>8 DEF TypeOK
    <3>2. req'[c].fd = x
      BY <2>4, <2>8
    <3> QED
      BY <1>0, <1>10, <2>2, <3>1, <3>2 DEF OwnDescriptor
  <2>15. ReplyOK(c)' /\ OwnOK(c)'
    BY <2>4, <2>5, <2>7, <2>8 DEF ReplyOK, OwnOK
  <2> QED
    BY <1>2, <1>3, <2>9, <2>12, <2>13, <2>14, <2>15, NetStep
<1> QED
  BY <1>1, <1>9, <1>10 DEF SubmitConnects

LEMMA SubmitsStep ==
    ASSUME RpcInv, NEW t \in Thread, Submits(t)
    PROVE  RpcInv'
<1>0. TypeOK /\ Pieces /\ OwnDescriptor
  BY DEF RpcInv
<1>1. PICK c, n, S, h, g : /\ c = Top(t).call /\ n = Len(stack[t]) /\ S = {"body"} /\ h = req[c]
                           /\ g = [PollFrame(c, "SUBMIT") EXCEPT !.at = "connect"]
  OBVIOUS
<1>2. /\ At(t, "stub", S) /\ req' = [req EXCEPT ![c].published = TRUE]
      /\ stack' = [stack EXCEPT ![t] = <<g>>]
      /\ UNCHANGED <<calls, task, order, announced, contents, expects, kicked, open, conn, counter>>
  BY <1>1 DEF Submits, netVars
<1>3. /\ stack[t] # <<>> /\ n \in DOMAIN stack[t] /\ Top(t) = stack[t][n] /\ Top(t).op = "stub"
      /\ Top(t).at = "body" /\ c \in Made /\ c \in Call /\ FrameOK(t, n, Top(t)) /\ CallOK(c)
  BY <1>0, <1>1, <1>2, AtFacts
<1>4. n = 1 /\ ~req[c].published /\ task[c] = "running" /\ Rpc(c)
  BY <1>1, <1>3 DEF FrameOK
<1>5. conn[c].state = "none" /\ h.result = None /\ ~h.done /\ c \notin open /\ h \in Request
  BY <1>1, <1>3, <1>4, CallFacts DEF CallOK
<1>6. PICK q : q = [h EXCEPT !.published = TRUE]
  OBVIOUS
<1>7. /\ q \in Request /\ ~q.done /\ q.published /\ q.fd = h.fd /\ q.result = None
      /\ q.received = h.received
  BY <1>5, <1>6 DEF Request
<1>8. req' = [req EXCEPT ![c] = q]
  BY <1>1, <1>2, <1>6
<1>9. req' \in [Call -> Request] /\ req'[c] = q /\ \A d \in Call : d # c => req'[d] = req[d]
  BY <1>0, <1>3, <1>7, <1>8, ReqFacts
<1>10. Only(c)
  BY <1>2, <1>9 DEF Only
<1>11. CallOK(c)'
  BY <1>1, <1>2, <1>3, <1>4, <1>5, <1>7, <1>9 DEF CallOK, Made, Rpc, Op
<1>12. g \in Frame /\ g.op = "poll" /\ g.at = "connect" /\ g.call = c
  <2>1. c \in Nat
    BY <1>3 DEF Call
  <2> QED
    BY <1>1, <2>1 DEF PollFrame, Frame
<1>13. Swaps(t, n, g) /\ StackType'
  <2>1. stack \in [Thread -> Seq(Frame)]
    BY <1>0 DEF TypeOK
  <2>2. /\ stack' \in [Thread -> Seq(Frame)] /\ stack'[t] = <<g>>
        /\ \A u \in Thread : u # t => stack'[u] = stack[u]
    BY <1>2, <1>12, <2>1
  <2>3. DOMAIN stack[t] = {1} /\ DOMAIN <<g>> = {1} /\ <<g>>[1] = g
    <3>1. stack[t] \in Seq(Frame) /\ Len(stack[t]) = 1
      BY <1>1, <1>4, <2>1
    <3>2. DOMAIN stack[t] = 1 .. 1 /\ DOMAIN <<g>> = 1 .. 1
      BY <3>1
    <3>3. 1 .. 1 = {1}
      OBVIOUS
    <3> QED
      BY <3>2, <3>3
  <2> QED
    BY <1>4, <2>2, <2>3 DEF Swaps, StackType
<1>14. FrameOK(t, n, g)'
  BY <1>2, <1>3, <1>5, <1>7, <1>9, <1>12 DEF FrameOK, Made
<1>15. Pieces'
  BY <1>0, <1>1, <1>3, <1>4, <1>10, <1>11, <1>12, <1>13, <1>14, StubSwaps
<1>16. TypeOK'
  <2>1. /\ contents' \in [Obj -> Nat] /\ open' \subseteq Call /\ counter' \in Nat
        /\ task' \in [Call -> {"none", "stub", "running", "done"}] /\ conn' \in [Call -> Connection]
    BY <1>0, <1>2 DEF TypeOK
  <2> QED
    BY <1>0, <1>2, <1>9, <1>13, <2>1, TypesStep
<1>17. OwnDescriptor'
  <2>1. \A d \in open : req'[d].fd = req[d].fd
    BY <1>0, <1>1, <1>7, <1>9 DEF TypeOK
  <2> QED
    BY <1>0, <1>2, <2>1 DEF OwnDescriptor
<1>18. ReplyOK(c) /\ OwnOK(c)
  BY <1>3, CallFacts
<1>19. ReplyOK(c)' /\ OwnOK(c)'
  BY <1>1, <1>2, <1>7, <1>9, <1>18 DEF ReplyOK, OwnOK
<1> QED
  BY <1>2, <1>3, <1>10, <1>15, <1>16, <1>17, <1>19, NetStep

(* One send() or recv(): the poll stays where it is. *)
LEMMA PollStays ==
    ASSUME RpcInv, NEW t \in Thread, NEW S, At(t, "poll", S),
           S \cap {"lock", "connect", "complete"} = {}, NEW c, c = Top(t).call,
           NEW q \in Request, req' = [req EXCEPT ![c] = q], q.published, ~q.done,
           q.fd = req[c].fd, q.result = None,
           NEW k \in Connection, conn' = [conn EXCEPT ![c] = k], k.state = conn[c].state,
           ReplyOK(c)',
           UNCHANGED <<calls, stack, task, order, announced, contents, expects, kicked, open, counter>>
    PROVE  RpcInv'
<1>0. TypeOK /\ Pieces /\ OwnDescriptor
  BY DEF RpcInv
<1>1. PICK n : n = Len(stack[t])
  OBVIOUS
<1>2. "lock" \notin S
  OBVIOUS
<1>3. /\ stack[t] # <<>> /\ c \in Call /\ Holds(t, n, c) /\ CallOK(c) /\ Top(t).at \in S
      /\ Top(t) \in Frame /\ FrameOK(t, n, Top(t))
      /\ Top(t).at \notin {"connect", "complete"} =>
            c \in open /\ conn[c].state # "none" /\ req[c].result = None
  BY <1>0, <1>1, <1>2, HolderFacts
<1>4. Top(t).at \notin {"lock", "connect", "complete"} /\ c \in open /\ conn[c].state # "none"
  BY <1>3
<1>5. req' \in [Call -> Request] /\ req'[c] = q /\ \A d \in Call : d # c => req'[d] = req[d]
  BY <1>0, <1>3, ReqFacts
<1>6. conn' \in [Call -> Connection] /\ conn'[c] = k /\ \A d \in Call : d # c => conn'[d] = conn[d]
  BY <1>0, <1>3, ConnAfter
<1>7. Only(c)
  BY <1>5, <1>6 DEF Only
<1>8. CallOK(c)'
  <2>1. /\ req[c].published => c \in Made /\ Rpc(c)
        /\ req[c].published /\ task[c] = "running" /\ req[c].fd # 0
    BY <1>0, <1>1, <1>2, <1>3, <1>4, HolderFacts DEF CallOK
  <2> QED
    BY <1>4, <1>5, <1>6, <2>1 DEF CallOK, Made, Rpc, Op
<1>9. PICK w : w = Top(t).at
  OBVIOUS
<1>10. Pieces'
  <2>1. w \in {"connect", "go", "data", "POLLOUT", "POLLIN", "payload", "complete"}
    <3>1. Top(t).op = "poll"
      BY DEF At
    <3>2. Top(t).at \notin {"locks", "marks", "body"}
      BY <1>3, <3>1 DEF FrameOK
    <3> QED
      BY <1>3, <1>4, <1>9, <3>2 DEF Frame
  <2>2. /\ req'[c].published /\ ~req'[c].done
        /\ w = "connect" <=> conn'[c].state = "none"
        /\ w = "complete" <=> req'[c].result # None
    BY <1>4, <1>5, <1>6, <1>9
  <2>3. UNCHANGED stack /\ Top(t).at = w
    BY <1>9
  <2> QED
    BY <1>0, <1>1, <1>3, <1>7, <1>8, <2>1, <2>2, <2>3, HolderGoes
<1>11. TypeOK'
  <2>1. /\ contents' \in [Obj -> Nat] /\ open' \subseteq Call /\ counter' \in Nat /\ StackType'
        /\ task' \in [Call -> {"none", "stub", "running", "done"}]
    BY <1>0 DEF TypeOK, StackType
  <2> QED
    BY <1>0, <1>5, <1>6, <2>1, TypesStep
<1>12. OwnDescriptor'
  <2>1. \A d \in open : req'[d].fd = req[d].fd
    BY <1>0, <1>5 DEF TypeOK
  <2> QED
    BY <1>0, <2>1 DEF OwnDescriptor
<1>13. OwnOK(c)'
  BY <1>5 DEF OwnOK
<1> QED
  BY <1>3, <1>7, <1>10, <1>11, <1>12, <1>13, NetStep

(* An open request finishes without a change to its connection. *)
LEMMA ClosesStep ==
    ASSUME RpcInv, NEW t \in Thread, NEW S, At(t, "poll", S),
           S \cap {"lock", "connect", "complete"} = {}, NEW c, c = Top(t).call, c \in open,
           NEW r \in Answer, r # None, Finishes(t, c, r),
           \/ conn[c].state = "replied" /\ r = conn[c].value
           \/ conn[c].state \in {"failed", "refused", "dropped"} /\ r = Error,
           UNCHANGED <<calls, task, order, announced, expects, kicked, counter, conn>>
    PROVE  RpcInv'
<1>1. TypeOK /\ OwnDescriptor /\ c \in Call
  BY DEF RpcInv, TypeOK
<1>2. PICK k : k = conn[c]
  OBVIOUS
<1>3. k \in Connection /\ conn' = [conn EXCEPT ![c] = k]
  BY <1>1, <1>2 DEF TypeOK
<1>4. open \ {Reached(c)} = open \ {c}
  BY <1>1, ReachesOwn
<1>5. ReplyOK(c)'
  <2>1. ReplyOK(c) /\ req[c] \in Request
    BY <1>1, CallFacts
  <2>2. req' = [req EXCEPT ![c].result = r] /\ req \in [Call -> Request]
    BY <1>1 DEF Finishes, TypeOK
  <2>3. req'[c] = [req[c] EXCEPT !.result = r]
    BY <1>1, <2>2
  <2>4. req'[c].received = req[c].received
    BY <2>1, <2>3 DEF Request
  <2> QED
    BY <2>1, <2>4 DEF ReplyOK
<1>6. k.state # "none"
  BY <1>2
<1>7. S \cap {"lock", "complete"} = {}
  OBVIOUS
<1>8. UNCHANGED <<calls, task, order, announced, expects, kicked, counter>>
  OBVIOUS
<1> QED
  BY <1>2, <1>3, <1>4, <1>5, <1>6, <1>7, <1>8, FinishStep

LEMMA StopsStep ==
    ASSUME RpcInv, NEW t \in Thread, NEW S, At(t, "poll", S),
           S \cap {"lock", "connect", "complete"} = {},
           NEW w \in {"POLLOUT", "POLLIN"}, Stops(t, w),
           UNCHANGED <<calls, task, order, announced, contents, expects, kicked, req, open, conn, counter>>
    PROVE  RpcInv'
<1>1. Pop(t) \/ \E s \in {"go", "data", "POLLOUT", "POLLIN", "payload"} : Goes(t, s)
  BY DEF Stops
<1>2. UNCHANGED <<calls, task, req, open, conn>>
  OBVIOUS
<1>3. Pieces' /\ StackType'
  BY <1>1, <1>2, PollMoves
<1>4. announced' \subseteq Obj /\ contents' \in [Obj -> Nat]
  BY DEF RpcInv, TypeOK
<1>5. \A d \in kicked' : d \in Made /\ ~Rpc(d)
  BY DEF RpcInv, KickedReads
<1>6. UNCHANGED <<calls, task, order, expects, req, open, conn, counter>>
  OBVIOUS
<1> QED
  BY <1>3, <1>4, <1>5, <1>6, NothingMoves

LEMMA SendsStep ==
    ASSUME RpcInv, NEW t \in Thread, Sends(t)
    PROVE  RpcInv'
<1>0. TypeOK /\ Pieces /\ OwnDescriptor
  BY DEF RpcInv
<1>1. PICK c, n, S : c = Top(t).call /\ n = Len(stack[t]) /\ S = {"go", "data"}
  OBVIOUS
<1>2. /\ At(t, "poll", S) /\ UNCHANGED <<calls, task, order, announced, expects, kicked, counter>>
  BY <1>1 DEF Sends
<1>3. "lock" \notin S /\ S \cap {"lock", "connect", "complete"} = {}
  BY <1>1
<1>4. /\ c \in Call /\ c \in Made /\ Top(t).at \in S /\ req[c].published /\ ~req[c].done
      /\ Top(t).at \notin {"connect", "complete"} =>
            c \in open /\ conn[c].state # "none" /\ req[c].result = None
  BY <1>0, <1>1, <1>2, <1>3, HolderFacts
<1>5. c \in open /\ conn[c].state # "none" /\ req[c].result = None /\ Reached(c) = c
  BY <1>0, <1>1, <1>4, ReachesOwn
<1>6. PICK h, k, r : h = req[c] /\ k = conn[c] /\ r = Error
  OBVIOUS
<1>7. /\ h \in Request /\ h.sent \in Nat /\ ReplyOK(c)
      /\ k \in Connection /\ k.out \in Seq(Int)
  BY <1>4, <1>6, CallFacts, ConnFacts
<1>8. CASE Broken(c) /\ Finishes(t, c, r) /\ UNCHANGED conn
  <2>1. conn[c].state \in {"failed", "refused", "dropped"}
    BY <1>4, <1>8 DEF Broken, Failures, NoCall, Call
  <2>2. r \in Answer /\ r # None
    BY <1>6, AnswerFacts
  <2>3. UNCHANGED <<calls, task, order, announced, expects, kicked, counter, conn>>
    BY <1>2, <1>8
  <2> QED
    BY <1>1, <1>2, <1>3, <1>5, <1>6, <1>8, <2>1, <2>2, <2>3, ClosesStep
<1>9. CASE Stops(t, "POLLOUT") /\ UNCHANGED <<contents, req, open, conn>>
  <2>1. PICK w \in {"POLLOUT", "POLLIN"} : Stops(t, w)
    BY <1>9
  <2>2. UNCHANGED <<calls, task, order, announced, contents, expects, kicked, req, open, conn, counter>>
    BY <1>2, <1>9
  <2> QED
    BY <1>2, <1>3, <2>1, <2>2, StopsStep
<1>10. ASSUME NEW x \in Int, req' = [req EXCEPT ![c].sent = h.sent + 1],
              conn' = [conn EXCEPT ![c].out = Append(@, x)], UNCHANGED <<stack, contents, open>>
       PROVE  RpcInv'
  <2>1. PICK m, y : m = h.sent + 1 /\ y = Append(k.out, x)
    OBVIOUS
  <2>2. m \in Nat /\ y \in Seq(Int)
    BY <1>7, <2>1
  <2>3. PICK q, l : q = [h EXCEPT !.sent = m] /\ l = [k EXCEPT !.out = y]
    OBVIOUS
  <2>4. /\ q \in Request /\ q.published /\ ~q.done /\ q.fd = h.fd /\ q.result = None
        /\ q.received = h.received
    BY <1>4, <1>5, <1>6, <1>7, <2>2, <2>3 DEF Request
  <2>5. l \in Connection /\ l.state = k.state /\ l.in = k.in /\ l.value = k.value
    BY <1>7, <2>2, <2>3 DEF Connection
  <2>6. req' = [req EXCEPT ![c] = q] /\ conn' = [conn EXCEPT ![c] = l]
    BY <1>6, <1>10, <2>1, <2>3
  <2>7. req'[c] = q /\ conn'[c] = l
    BY <1>0, <1>4, <2>4, <2>5, <2>6, ReqFacts, ConnAfter
  <2>8. ReplyOK(c)'
    BY <1>6, <1>7, <2>4, <2>5, <2>7 DEF ReplyOK
  <2>9. UNCHANGED <<calls, stack, task, order, announced, contents, expects, kicked, open, counter>>
    BY <1>2, <1>10
  <2> QED
    BY <1>1, <1>2, <1>3, <1>6, <2>4, <2>5, <2>6, <2>8, <2>9, PollStays
<1>11. contents[Buf(c)] \in Int /\ h.sent + 1 \in Int
  BY <1>0, <1>4, <1>7, MadeFacts DEF TypeOK
<1> QED
  BY <1>1, <1>5, <1>6, <1>8, <1>9, <1>10, <1>11 DEF Sends

LEMMA Regroup ==
    ASSUME NEW X, NEW a \in Seq(X), NEW f \in Seq(X), NEW r \in Seq(X), NEW b, b = f \o r,
           NEW y, y = a \o f
    PROVE  y \in Seq(X) /\ y \o r = a \o b
<1>1. (a \o f) \o r = a \o (f \o r)
  BY ConcatAssociative
<1> QED
  BY <1>1

LEMMA Rejoin ==
    ASSUME NEW X, NEW b \in Seq(X), NEW n \in 1 .. Len(b),
           NEW f, f = SubSeq(b, 1, n), NEW r, r = SubSeq(b, n + 1, Len(b))
    PROVE  f \in Seq(X) /\ r \in Seq(X) /\ b = f \o r
<1>1. f \in Seq(X) /\ r \in Seq(X)
  OBVIOUS
<1>2. 1 \in 1 .. Len(b) + 1 /\ n \in 0 .. Len(b) /\ Len(b) \in n .. Len(b)
  OBVIOUS
<1>3. SubSeq(b, 1, n) \o SubSeq(b, n + 1, Len(b)) = SubSeq(b, 1, Len(b))
  BY <1>2, ConcatAdjacentSubSeq
<1>4. f \o r = b
  BY <1>3, SubSeqFull
<1> QED
  BY <1>1, <1>4

LEMMA ParsedOwn ==
    ASSUME NEW c \in Call
    PROVE  Parsed(Reply(c)) = conn[c].value
<1>1. Reply(c)[1] = <<c, 1>>
  BY DEF Reply
<1>2. Reply(c)[1][1] = c
  BY <1>1
<1> QED
  BY <1>2 DEF Parsed, Reply

LEMMA ReceivesStep ==
    ASSUME RpcInv, NEW t \in Thread, Receives(t)
    PROVE  RpcInv'
<1>0. TypeOK /\ Pieces /\ OwnDescriptor
  BY DEF RpcInv
<1>1. PICK c, n, S : c = Top(t).call /\ n = Len(stack[t]) /\ S = {"go", "data"}
  OBVIOUS
<1>2. /\ At(t, "poll", S) /\ UNCHANGED <<calls, task, order, announced, expects, kicked, counter>>
  BY <1>1 DEF Receives
<1>3. "lock" \notin S /\ S \cap {"lock", "connect", "complete"} = {}
  BY <1>1
<1>4. /\ c \in Call /\ c \in Made /\ Top(t).at \in S /\ req[c].published /\ ~req[c].done
      /\ Top(t).at \notin {"connect", "complete"} =>
            c \in open /\ conn[c].state # "none" /\ req[c].result = None
  BY <1>0, <1>1, <1>2, <1>3, HolderFacts
<1>5. c \in open /\ conn[c].state # "none" /\ req[c].result = None /\ Reached(c) = c
  BY <1>0, <1>1, <1>4, ReachesOwn
<1>6. PICK h, k, r : h = req[c] /\ k = conn[c] /\ r = Error
  OBVIOUS
<1>7. /\ h \in Request /\ h.received \in Seq(Nat \X Nat) /\ ReplyOK(c)
      /\ k \in Connection /\ k.in \in Seq(Nat \X Nat) /\ k.value \in Answer
  BY <1>4, <1>6, CallFacts, ConnFacts DEF Connection
<1>8. CASE Broken(c) /\ Finishes(t, c, r) /\ UNCHANGED conn
  <2>1. conn[c].state \in {"failed", "refused", "dropped"}
    BY <1>4, <1>8 DEF Broken, Failures, NoCall, Call
  <2>2. r \in Answer /\ r # None
    BY <1>6, AnswerFacts
  <2>3. UNCHANGED <<calls, task, order, announced, expects, kicked, counter, conn>>
    BY <1>2, <1>8
  <2> QED
    BY <1>1, <1>2, <1>3, <1>5, <1>6, <1>8, <2>1, <2>2, <2>3, ClosesStep
<1>9. CASE Stops(t, "POLLIN") /\ UNCHANGED <<contents, req, open, conn>>
  <2>1. PICK w \in {"POLLOUT", "POLLIN"} : Stops(t, w)
    BY <1>9
  <2>2. UNCHANGED <<calls, task, order, announced, contents, expects, kicked, req, open, conn, counter>>
    BY <1>2, <1>9
  <2> QED
    BY <1>2, <1>3, <2>1, <2>2, StopsStep
<1>10. ASSUME ~Broken(c), Readable(c), k.in = <<>>, Finishes(t, c, Parsed(h.received)), UNCHANGED conn
       PROVE  RpcInv'
  <2>1. conn[c].state = "replied"
    BY <1>6, <1>10 DEF Readable
  <2>2. h.received = Reply(c) /\ k.value # None
    <3>1. h.received \o k.in = Reply(c) /\ k.value # None
      BY <1>6, <1>7, <2>1 DEF ReplyOK
    <3> QED
      BY <1>7, <1>10, <3>1, ConcatEmptySeq
  <2>3. PICK v : v = Parsed(h.received)
    OBVIOUS
  <2>4. v = conn[c].value /\ v \in Answer /\ v # None /\ Finishes(t, c, v)
    BY <1>4, <1>6, <1>7, <1>10, <2>2, <2>3, ParsedOwn
  <2>5. UNCHANGED <<calls, task, order, announced, expects, kicked, counter, conn>>
    BY <1>2, <1>10
  <2> QED
    BY <1>1, <1>2, <1>3, <1>5, <2>1, <2>4, <2>5, ClosesStep
<1>11. ASSUME NEW m \in 1 .. Len(k.in),
              req' = [req EXCEPT ![c].received = @ \o SubSeq(k.in, 1, m)],
              conn' = [conn EXCEPT ![c].in = SubSeq(@, m + 1, Len(@))],
              UNCHANGED <<stack, contents, open>>
       PROVE  RpcInv'
  <2>1. PICK f, e : f = SubSeq(k.in, 1, m) /\ e = SubSeq(k.in, m + 1, Len(k.in))
    OBVIOUS
  <2>2. PICK y : y = h.received \o f
    OBVIOUS
  <2>3. /\ e \in Seq(Nat \X Nat) /\ y \in Seq(Nat \X Nat) /\ y \o e = h.received \o k.in
    <3>1. PICK X : X = Nat \X Nat
      OBVIOUS
    <3>2. PICK a \in Seq(X), b \in Seq(X) : a = h.received /\ b = k.in
      BY <1>7, <3>1
    <3>3. m \in 1 .. Len(b) /\ f = SubSeq(b, 1, m) /\ e = SubSeq(b, m + 1, Len(b))
      BY <2>1, <3>2
    <3>4. f \in Seq(X) /\ e \in Seq(X) /\ b = f \o e
      BY <3>3, Rejoin
    <3>5. y = a \o f
      BY <2>2, <3>2
    <3>6. y \in Seq(X) /\ y \o e = a \o b
      BY <3>4, <3>5, Regroup
    <3> QED
      BY <3>1, <3>2, <3>4, <3>6
  <2>4. PICK q, l : q = [h EXCEPT !.received = y] /\ l = [k EXCEPT !.in = e]
    OBVIOUS
  <2>5. /\ q \in Request /\ q.published /\ ~q.done /\ q.fd = h.fd /\ q.result = None
        /\ q.received = y
    BY <1>4, <1>5, <1>6, <1>7, <2>2, <2>3, <2>4 DEF Request
  <2>6. l \in Connection /\ l.state = k.state /\ l.in = e /\ l.value = k.value
    BY <1>7, <2>3, <2>4 DEF Connection
  <2>7. req' = [req EXCEPT ![c] = q] /\ conn' = [conn EXCEPT ![c] = l]
    BY <1>6, <1>11, <2>1, <2>2, <2>4
  <2>8. req'[c] = q /\ conn'[c] = l
    BY <1>0, <1>4, <2>5, <2>6, <2>7, ReqFacts, ConnAfter
  <2>9. k.state = "replied"
    <3>1. k.in # <<>>
      BY <1>11
    <3> QED
      BY <1>6, <1>7, <3>1 DEF ReplyOK
  <2>10. ReplyOK(c)'
    <3>1. h.received \o k.in = Reply(c) /\ k.value # None
      BY <1>6, <1>7, <2>9 DEF ReplyOK
    <3>2. y \o e = Reply(c)
      BY <2>3, <3>1
    <3> QED
      BY <2>5, <2>6, <2>8, <2>9, <3>1, <3>2 DEF ReplyOK, Reply
  <2>11. UNCHANGED <<calls, stack, task, order, announced, contents, expects, kicked, open, counter>>
    BY <1>2, <1>11
  <2> QED
    BY <1>1, <1>2, <1>3, <1>6, <2>5, <2>6, <2>7, <2>10, <2>11, PollStays
<1> QED
  BY <1>1, <1>5, <1>6, <1>8, <1>9, <1>10, <1>11 DEF Receives

-----------------------------------------------------------------------------
LEMMA InitInv == Init => RpcInv
<1> SUFFICES ASSUME Init PROVE RpcInv
  OBVIOUS
<1>1. calls \in Seq(CallType) /\ Len(calls) =< MaxCalls
  BY ProgramsType DEF Init, CallType
<1>2. PICK q, e, f : /\ e = <<>> /\ f = <<>>
                     /\ q = [published |-> FALSE, fd |-> 0, sent |-> 0, received |-> e,
                             result |-> None, done |-> FALSE]
  OBVIOUS
<1>3. e \in Seq(Nat \X Nat) /\ f \in Seq(Int)
  BY <1>2
<1>4. q \in Request
  BY <1>2, <1>3, AnswerFacts DEF Request
<1>5. NoConn \in Connection
  BY <1>2, <1>3, AnswerFacts DEF NoConn, Connection
<1>6. req \in [Call -> Request] /\ \A c \in Call : req[c] = q
  BY <1>2, <1>4 DEF Init
<1>7. conn \in [Call -> Connection] /\ \A c \in Call : conn[c] = NoConn
  BY <1>5 DEF Init
<1>8. TypeOK
  <2>1. stack \in [Thread -> Seq(Frame)] /\ order \in Seq(Made)
    BY DEF Init
  <2>2. contents \in [Obj -> Nat] /\ expects \in [Call -> Int]
    BY DEF Init, NoCall
  <2>3. task \in [Call -> {"none", "stub", "running", "done"}]
    BY DEF Init
  <2>4. announced \subseteq Obj /\ kicked \subseteq Call /\ open \subseteq Call /\ counter \in Nat
    BY DEF Init
  <2> QED
    BY <1>1, <1>6, <1>7, <2>1, <2>2, <2>3, <2>4 DEF TypeOK
<1>9. CallsWell
  BY <1>2, <1>6, <1>7 DEF CallsWell, CallOK, NoConn, Init
<1>10. \A t \in Thread : DOMAIN stack[t] = {}
  BY DEF Init
<1>11. FramesWell /\ Exclusive /\ HeldBetween
  BY <1>2, <1>6, <1>10 DEF FramesWell, Exclusive, HeldBetween
<1>12. OwnDescriptor /\ KickedReads
  BY DEF Init, OwnDescriptor, KickedReads
<1>13. ReplyWell
  <2> SUFFICES ASSUME NEW c \in Call PROVE ReplyOK(c)
    BY DEF ReplyWell
  <2>1. req[c].received = <<>>
    BY <1>2, <1>6
  <2>2. conn[c].state = "none" /\ conn[c].in = <<>> /\ conn[c].value = None
    BY <1>7 DEF NoConn
  <2> QED
    BY <2>1, <2>2 DEF ReplyOK
<1>14. OwnReply
  BY <1>2, <1>6 DEF OwnReply
<1> QED
  BY <1>8, <1>9, <1>11, <1>12, <1>13, <1>14 DEF RpcInv, Pieces

LEMMA StutterInv ==
    ASSUME RpcInv, UNCHANGED vars
    PROVE  RpcInv'
<1>1. UNCHANGED <<calls, stack, task, order, announced, contents, expects, kicked, req, open, conn,
                  counter>>
  BY DEF vars, clientVars, netVars
<1>2. TypeOK'
  BY <1>1 DEF RpcInv, TypeOK, Made, Call
<1>3. CallsWell' /\ FramesWell'
  BY <1>1 DEF RpcInv, Pieces, CallsWell, CallOK, FramesWell, FrameOK, Made, Call, Rpc, Op
<1>4. Exclusive' /\ HeldBetween'
  BY <1>1 DEF RpcInv, Pieces, Exclusive, Holds, HeldBetween, Locked, Call
<1>5. OwnDescriptor' /\ KickedReads'
  BY <1>1 DEF RpcInv, OwnDescriptor, KickedReads, Made, Rpc, Op
<1>6. ReplyWell' /\ OwnReply'
  BY <1>1 DEF RpcInv, ReplyWell, ReplyOK, OwnReply, Broken, Failures, Call
<1> QED
  BY <1>2, <1>3, <1>4, <1>5, <1>6 DEF RpcInv, Pieces

LEMMA NextInv ==
    ASSUME RpcInv, [Next]_vars
    PROVE  RpcInv'
<1>1. ASSUME NEW t \in Thread, Turn(t) \/ PollLocks(t) PROVE RpcInv'
  BY <1>1, StubLocksStep, StubMarksStep, StubWaitsStep, SubmitsStep, SubmitConnectsStep,
     WaitForReadStep, SendsStep, ChecksPayloadStep, ReceivesStep, AwaitsStep, CompletesStep,
     PollLocksStep DEF Turn
<1>2. ASSUME NEW t \in Thread, NEW c \in Made, StubBegins(t, c) PROVE RpcInv'
  BY <1>2, StubBeginsStep
<1>3. ASSUME NEW t \in Thread, NEW c \in Made, NEW m \in {"CHECK", "PROGRESS", "BLOCK"},
             ProgramPolls(t, c, m)
      PROVE  RpcInv'
  BY <1>3, ProgramPollsStep
<1>4. ASSUME NEW o \in Obj, Store(o) \/ Announce(o) \/ Resolve(o) PROVE RpcInv'
  BY <1>4, MarksStep
<1>5. ASSUME NEW c \in Call, ReadLands(c) \/ Connects(c) \/ Serves(c) \/ ServerDrops(c)
      PROVE  RpcInv'
  BY <1>5, ReadLandsStep, ConnectsStep, ServerReadsStep, ServerServesStep, ServerRepliesStep,
     ServerDropsStep DEF Serves
<1> QED
  BY <1>1, <1>2, <1>3, <1>4, <1>5, StutterInv DEF Next

LEMMA Always == Spec => []RpcInv
<1>1. Init => RpcInv
  BY InitInv
<1>2. RpcInv /\ [Next]_vars => RpcInv'
  BY NextInv
<1> QED
  BY <1>1, <1>2, PTL DEF Spec

(* A call completes with the answer the server gave to it (parse_reply of  *)
(* what the descriptor delivered), with an error only if its connection    *)
(* failed: for all programs, threads, descriptors, sizes and failures.     *)
THEOREM RepliesAreOwn == Spec => []OwnReply
<1>1. RpcInv => OwnReply
  BY DEF RpcInv
<1> QED
  BY <1>1, Always, PTL

(* Every descriptor that is open belongs to one request under way, and a   *)
(* request keeps it from connect_to_server to finish(), which closes it on *)
(* every path.                                                             *)
THEOREM DescriptorsKept == Spec => []DescriptorsAccounted
<1>1. RpcInv => DescriptorsAccounted
  <2> SUFFICES ASSUME RpcInv PROVE DescriptorsAccounted
    OBVIOUS
  <2>1. \A c \in Call : CallOK(c)
    BY DEF RpcInv, Pieces, CallsWell
  <2>2. open \subseteq Call /\ OwnDescriptor
    BY DEF RpcInv, TypeOK
  <2>3. \A c \in open : task[c] = "running" /\ conn[c].state # "none"
    BY <2>1, <2>2 DEF CallOK
  <2>4. \A c \in Call : conn[c].state # "none" /\ req[c].result = None => c \in open
    BY <2>1 DEF CallOK
  <2> QED
    BY <2>2, <2>3, <2>4 DEF DescriptorsAccounted, OwnDescriptor
<1> QED
  BY <1>1, Always, PTL

-----------------------------------------------------------------------------
(* As if blocking: what the steps leave alone. *)

\* Frames stay, go away, or become f.
NewTop(f) ==
    \A u \in Thread : \A i \in DOMAIN stack'[u] :
        (i \in DOMAIN stack[u] /\ stack'[u][i] = stack[u][i]) \/ stack'[u][i] = f


\* The step concerns no stub and checks no payload.
Plain == \E f : NewTop(f) /\ f.op = "poll" /\ f.at # "data"

LEMMA PlainSame ==
    ASSUME UNCHANGED stack
    PROVE  Plain
<1>1. PICK f : f = PollFrame(1, "BLOCK")
  OBVIOUS
<1>2. NewTop(f) /\ f.op = "poll" /\ f.at # "data"
  BY <1>1 DEF NewTop, PollFrame
<1> QED
  BY <1>2 DEF Plain

LEMMA PlainPop ==
    ASSUME TypeOK, NEW t \in Thread, stack[t] # <<>>, Pop(t)
    PROVE  Plain
<1>1. PICK f : f = PollFrame(1, "BLOCK")
  OBVIOUS
<1>2. StackType
  BY DEF TypeOK, StackType
<1>3. NewTop(f)
  BY <1>2, PopFacts DEF NewTop
<1>4. f.op = "poll" /\ f.at # "data"
  BY <1>1 DEF PollFrame
<1> QED
  BY <1>3, <1>4 DEF Plain

LEMMA PlainPush ==
    ASSUME TypeOK, NEW t \in Thread, NEW d \in Made, NEW m \in {"CHECK", "PROGRESS", "BLOCK"},
           Push(t, PollFrame(d, m))
    PROVE  Plain
<1>1. PICK f : f = PollFrame(d, m)
  OBVIOUS
<1>2. StackType /\ d \in Nat
  BY MadeFacts DEF TypeOK, StackType, Call
<1>3. f \in Frame /\ Push(t, f) /\ f.op = "poll" /\ f.at # "data"
  BY <1>1, <1>2 DEF PollFrame, Frame
<1>4. NewTop(f)
  BY <1>2, <1>3, PushFacts DEF NewTop
<1> QED
  BY <1>3, <1>4 DEF Plain

LEMMA GoesNew ==
    ASSUME TypeOK, NEW t \in Thread, stack[t] # <<>>, NEW f,
           NEW w \in {"locks", "marks", "body", "lock", "connect", "go", "data", "POLLOUT",
                      "POLLIN", "payload", "complete"}, Goes(t, w), f = [Top(t) EXCEPT !.at = w]
    PROVE  NewTop(f) /\ f.op = Top(t).op /\ f.at = w /\ f.call = Top(t).call
<1>1. PICK n : n = Len(stack[t])
  OBVIOUS
<1>2. Swaps(t, n, f) /\ f.at = w /\ f.op = Top(t).op /\ f.call = Top(t).call
  BY <1>1, GoesSwaps
<1>3. NewTop(f)
  BY <1>2 DEF Swaps, NewTop
<1> QED
  BY <1>2, <1>3

LEMMA PlainGoes ==
    ASSUME TypeOK, NEW t \in Thread, NEW S, At(t, "poll", S),
           NEW w \in {"connect", "go", "POLLOUT", "POLLIN", "payload", "complete"}, Goes(t, w)
    PROVE  Plain
<1>1. PICK f : f = [Top(t) EXCEPT !.at = w]
  OBVIOUS
<1>2. stack[t] # <<>> /\ Top(t).op = "poll"
  BY DEF At
<1>3. w \in {"locks", "marks", "body", "lock", "connect", "go", "data", "POLLOUT",
             "POLLIN", "payload", "complete"}
  OBVIOUS
<1>4. NewTop(f) /\ f.op = "poll" /\ f.at = w
  BY <1>1, <1>2, <1>3, GoesNew
<1> QED
  BY <1>4 DEF Plain

LEMMA PlainFits ==
    ASSUME Plain
    PROVE  \E f : NewTop(f) /\ StubFits(f) /\ DataFits(f)
<1>1. PICK f : NewTop(f) /\ f.op = "poll" /\ f.at # "data"
  BY DEF Plain
<1>2. StubFits(f) /\ DataFits(f)
  BY <1>1 DEF StubFits, DataFits
<1> QED
  BY <1>1, <1>2

TaskMoves(c) ==
    \/ task'[c] = task[c]
    \/ /\ task'[c] # "none" /\ task[c] # "done"
       /\ task'[c] \in {"running", "done"} /\ Numbered(c) => c \in ToSet(order)

LEMMA OrderStays ==
    ASSUME OrderWell, UNCHANGED <<calls, order>>, NEW f, NewTop(f), StubFits(f),
           \A c \in Made : TaskMoves(c)
    PROVE  OrderWell'
<1>0. /\ \A c : Numbered(c)' <=> Numbered(c)
      /\ \A c : Op(c)' = Op(c)
      /\ Made' = Made /\ ToSet(order)' = ToSet(order)
  BY DEF Numbered, Op, Made, ToSet
<1>1. (\A i, j \in DOMAIN order : order[i] = order[j] => i = j)'
  BY DEF OrderWell
<1>2. (\A i \in DOMAIN order : order[i] \in Made /\ Numbered(order[i]) /\ task[order[i]] # "none")'
  BY <1>0 DEF OrderWell, TaskMoves
<1>3. (\A t \in Thread : \A i \in DOMAIN stack[t] : StubFits(stack[t][i]))'
  BY <1>0 DEF OrderWell, NewTop, StubFits
<1>4. (\A c \in Made : Numbered(c) /\ task[c] \in {"running", "done"} => c \in ToSet(order))'
  BY <1>0 DEF OrderWell, TaskMoves
<1>5. (\A i, j \in DOMAIN order :
          i < j /\ "step" \in {Op(order[i]), Op(order[j])} => task[order[i]] = "done")'
  BY <1>0 DEF OrderWell, TaskMoves
<1> QED
  BY <1>1, <1>2, <1>3, <1>4, <1>5 DEF OrderWell

LEMMA CountsStay ==
    ASSUME TypeOK, CountsWell, UNCHANGED <<calls, order, counter>>,
           \A i \in DOMAIN order : conn'[order[i]].value = conn[order[i]].value
    PROVE  CountsWell'
<1>1. order \in Seq(Made) /\ \A i \in DOMAIN order : order[i] \in Call
  BY MadeFacts DEF TypeOK
<1>2. \A i \in DOMAIN order : Counted(i)' <=> Counted(i)
  BY <1>1 DEF Counted, Op
<1>3. \A n \in 0 .. Len(order) : Steps(n)' = Steps(n)
  <2> SUFFICES ASSUME NEW n \in 0 .. Len(order) PROVE Steps(n)' = Steps(n)
    OBVIOUS
  <2>1. 1 .. n \subseteq DOMAIN order
    BY <1>1
  <2> QED
    BY <1>2, <2>1 DEF Steps
<1>4. Len(order) \in 0 .. Len(order) /\ \A i \in DOMAIN order : i \in 0 .. Len(order)
  BY <1>1
<1>5. (counter = Cardinality(Steps(Len(order))))'
  <2>1. Steps(Len(order))' = Steps(Len(order))
    BY <1>3, <1>4
  <2> QED
    BY <2>1 DEF CountsWell
<1>6. (\A i \in DOMAIN order :
          conn[order[i]].value # None => conn[order[i]].value = Value(Cardinality(Steps(i))))'
  <2> SUFFICES ASSUME NEW i \in DOMAIN order, conn'[order[i]].value # None
               PROVE  conn'[order[i]].value = Value(Cardinality(Steps(i)'))
    BY DEF Value
  <2>1. conn'[order[i]].value = conn[order[i]].value /\ Steps(i)' = Steps(i)
    BY <1>1, <1>3, <1>4
  <2> QED
    BY <2>1 DEF CountsWell
<1> QED
  BY <1>5, <1>6 DEF CountsWell

SentSame(c) ==
    /\ calls' = calls /\ expects'[c] = expects[c]
    /\ conn'[c].value = conn[c].value
    /\ conn'[c].state = "none" => conn[c].state = "none"
    /\ conn'[c].state \in {"none", "connecting", "open"} =>
          /\ conn[c].state \in {"none", "connecting", "open"} /\ req'[c].sent = req[c].sent
          /\ conn'[c].got = conn[c].got /\ conn'[c].out = conn[c].out

LEMMA SentStays ==
    ASSUME NEW c \in Call, SentOK(c), SentSame(c)
    PROVE  SentOK(c)'
<1>1. Uploads(c)' <=> Uploads(c)
  BY DEF Uploads, SentSame, Made, Op, Anything
<1>2. \A n, x : Piece(c, n, x)' <=> Piece(c, n, x)
  BY <1>1 DEF Piece, SentSame
<1>3. (conn[c].state = "none" => conn[c].got = <<>> /\ conn[c].out = <<>>)'
  BY DEF SentOK, SentSame
<1>4. (conn[c].state \in {"none", "connecting", "open"} =>
          /\ req[c].sent = Len(conn[c].got) + Len(conn[c].out)
          /\ \A n \in DOMAIN conn[c].got : Piece(c, n, conn[c].got[n])
          /\ \A n \in DOMAIN conn[c].out : Piece(c, Len(conn[c].got) + n, conn[c].out[n]))'
  BY <1>2 DEF SentOK, SentSame
<1>5. (Uploads(c) /\ conn[c].value # None =>
          \E S \in SUBSET {expects[c]} : conn[c].value = Value(S))'
  BY <1>1 DEF SentOK, SentSame, None, Value
<1> QED
  BY <1>3, <1>4, <1>5 DEF SentOK

(* Marks. *)
LEMMA WritersStay ==
    ASSUME UNCHANGED calls, \A c \in Made : task'[c] = "running" <=> task[c] = "running"
    PROVE  \A o : Owners(o)' = Owners(o) /\ Writers(o)' = Writers(o)
<1>1. \A o : Owners(o)' = Owners(o)
  BY DEF Owners, Made, Buf
<1> QED
  BY <1>1 DEF Writers, Producer, Op

LEMMA WriterFacts ==
    ASSUME TypeOK, NEW c \in Made
    PROVE  task[c] = "running" => /\ c \in Owners(Buf(c))
                                  /\ Producer(c) => c \in Writers(Buf(c))
BY DEF Owners, Writers

(* Frames that go on keep what the payload check found. *)
LEMMA DataStay ==
    ASSUME UNCHANGED calls, \A o : Writers(o)' \subseteq Writers(o), NEW f, NewTop(f), DataFits(f),
           \A t \in Thread : \A i \in DOMAIN stack[t] : DataFits(stack[t][i])
    PROVE  (\A t \in Thread : \A i \in DOMAIN stack[t] : DataFits(stack[t][i]))'
<1>1. \A c : Op(c)' = Op(c) /\ Buf(c)' = Buf(c)
  BY DEF Op, Buf
<1> SUFFICES ASSUME NEW t \in Thread, NEW i \in DOMAIN stack'[t], NEW g, g = stack'[t][i]
             PROVE  DataFits(g)'
  BY DEF DataFits
<1>2. DataFits(g)
  BY DEF NewTop
<1>3. Writers(Buf(g.call))' \subseteq Writers(Buf(g.call))
  <2>1. PICK o : o = Buf(g.call)
    OBVIOUS
  <2>2. o = Buf(g.call)'
    BY <1>1, <2>1
  <2> QED
    BY <2>1, <2>2 DEF Writers, Owners
<1> QED
  BY <1>1, <1>2, <1>3 DEF DataFits

LEMMA MarksStay ==
    ASSUME TypeOK, MarksWell, UNCHANGED <<calls, contents>>, announced' \subseteq announced,
           \A c \in Made : task'[c] = "running" <=> task[c] = "running",
           \A c \in Made : expects'[c] = expects[c] /\ req'[c].result = req[c].result,
           NEW f, NewTop(f), DataFits(f)
    PROVE  MarksWell'
<1>1. \A o : Owners(o)' = Owners(o) /\ Writers(o)' = Writers(o)
  BY WritersStay
<1>2. OneWriter'
  BY <1>1 DEF MarksWell, OneWriter
<1>3. (\A t \in Thread : \A i \in DOMAIN stack[t] : DataFits(stack[t][i]))'
  <2>1. \A o : Writers(o)' \subseteq Writers(o)
    BY <1>1
  <2> QED
    BY <2>1, DataStay DEF MarksWell
<1>4. Made' = Made
  BY DEF Made
<1>5. ASSUME NEW c \in Made PROVE UploadOK(c)' /\ FilledOK(c)'
  <2>1. UploadOK(c) /\ FilledOK(c)
    BY DEF MarksWell
  <2>2. /\ Op(c)' = Op(c) /\ Buf(c)' = Buf(c) /\ Producer(c)' = Producer(c) /\ Rpc(c)' = Rpc(c)
        /\ Uploads(c)' = Uploads(c)
    BY <1>4 DEF Op, Buf, Producer, Rpc, Uploads, Anything
  <2>3. Writers(Buf(c))' = Writers(Buf(c))
    BY <1>1, <2>2 DEF Writers, Owners, Buf, Made
  <2>4. UploadOK(c)'
    BY <2>1, <2>2, <2>3 DEF UploadOK
  <2>5. FilledOK(c)'
    BY <2>1, <2>2 DEF FilledOK, None
  <2> QED
    BY <2>4, <2>5
<1> QED
  BY <1>2, <1>3, <1>4, <1>5 DEF MarksWell

(* The program's own stores and marks. *)
LEMMA ProgramMarks ==
    ASSUME RpcInv, MarksWell, NEW o \in Obj, Store(o) \/ Announce(o) \/ Resolve(o)
    PROVE  MarksWell'
<1>0. TypeOK
  BY DEF RpcInv
<1>1. /\ UNCHANGED <<calls, stack, task, expects, req>>
      /\ announced' \subseteq announced \cup {o}
      /\ o \in announced' => Owners(o) = {} /\ Announce(o) /\ contents' = contents
      /\ Writers(o) = {}
      /\ \A c \in Made : Buf(c) = o => ~(Uploads(c) /\ task[c] = "running")
      /\ \A x \in Obj : x # o => contents'[x] = contents[x]
  <2>1. UNCHANGED <<calls, stack, task, expects, req>> /\ announced' \subseteq announced \cup {o}
    BY DEF Store, Announce, Resolve
  <2>2. Owners(o) = {} \/ o \in announced
    BY DEF Store, Announce, Resolve
  <2>3. Writers(o) = {}
    BY <2>2 DEF MarksWell, OneWriter, Writers
  <2>4. \A c \in Made : Buf(c) = o => ~(Uploads(c) /\ task[c] = "running")
    BY <2>2 DEF MarksWell, UploadOK, Owners
  <2>5. \A x \in Obj : x # o => contents'[x] = contents[x]
    BY <1>0 DEF Store, Announce, Resolve, TypeOK
  <2>6. o \in announced' => Owners(o) = {} /\ Announce(o) /\ contents' = contents
    BY DEF Store, Announce, Resolve
  <2> QED
    BY <2>1, <2>2, <2>3, <2>4, <2>5, <2>6
<1>2. \A x : Owners(x)' = Owners(x) /\ Writers(x)' = Writers(x)
  BY <1>1, WritersStay
<1>3. OneWriter'
  BY <1>1, <1>2 DEF MarksWell, OneWriter
<1>4. Plain
  BY <1>1, PlainSame
<1>5. PICK f : NewTop(f) /\ DataFits(f)
  BY <1>4, PlainFits
<1>6. (\A t \in Thread : \A i \in DOMAIN stack[t] : DataFits(stack[t][i]))'
  <2>1. \A x : Writers(x)' \subseteq Writers(x)
    BY <1>2
  <2> QED
    BY <1>1, <1>5, <2>1, DataStay DEF MarksWell
<1>7. Made' = Made
  BY <1>1 DEF Made
<1>8. ASSUME NEW c \in Made PROVE UploadOK(c)' /\ FilledOK(c)'
  <2>1. UploadOK(c) /\ FilledOK(c) /\ Buf(c) \in Obj
    BY <1>0, MadeFacts DEF MarksWell
  <2>2. /\ Op(c)' = Op(c) /\ Buf(c)' = Buf(c) /\ Producer(c)' = Producer(c) /\ Rpc(c)' = Rpc(c)
        /\ Uploads(c)' = Uploads(c)
    BY <1>1, <1>7 DEF Op, Buf, Producer, Rpc, Uploads, Anything
  <2>3. Writers(Buf(c))' = Writers(Buf(c))
    BY <1>1 DEF Writers, Owners, Buf, Made, Producer, Op
  <2>4. UploadOK(c)'
    BY <1>1, <2>1, <2>2, <2>3 DEF UploadOK
  <2>5. FilledOK(c)'
    <3>1. Buf(c) = o => ~(Producer(c) /\ task[c] = "running")
      BY <1>0, <1>1, WriterFacts
    <3> QED
      BY <1>1, <2>1, <2>2, <3>1 DEF FilledOK, None
  <2> QED
    BY <2>4, <2>5
<1> QED
  BY <1>3, <1>6, <1>7, <1>8 DEF MarksWell

(* finish() stores the reply while the call is the one writer. *)
LEMMA FinishMarks ==
    ASSUME RpcInv, MarksWell, NEW c \in Made, task[c] = "running",
           UNCHANGED <<calls, task, announced, expects>>,
           contents' = IF Producer(c) THEN [contents EXCEPT ![Buf(c)] = c] ELSE contents,
           \A d \in Made : d # c => req'[d] = req[d], NEW f, NewTop(f), DataFits(f)
    PROVE  MarksWell'
<1>0. TypeOK
  BY DEF RpcInv
<1>1. \A x : Owners(x)' = Owners(x) /\ Writers(x)' = Writers(x)
  BY WritersStay
<1>2. OneWriter'
  BY <1>1 DEF MarksWell, OneWriter
<1>3. (\A t \in Thread : \A i \in DOMAIN stack[t] : DataFits(stack[t][i]))'
  <2>1. \A x : Writers(x)' \subseteq Writers(x)
    BY <1>1
  <2> QED
    BY <2>1, DataStay DEF MarksWell
<1>4. Made' = Made
  BY DEF Made
<1>5. /\ Producer(c) => contents'[Buf(c)] = c /\ c \in Writers(Buf(c))
      /\ ~Producer(c) => contents' = contents
      /\ \A x \in Obj : x # Buf(c) => contents'[x] = contents[x]
  BY <1>0, MadeFacts, WriterFacts DEF TypeOK
<1>6. ASSUME NEW d \in Made PROVE UploadOK(d)' /\ FilledOK(d)'
  <2>1. UploadOK(d) /\ FilledOK(d) /\ Buf(d) \in Obj
    BY <1>0, MadeFacts DEF MarksWell
  <2>2. /\ Op(d)' = Op(d) /\ Buf(d)' = Buf(d) /\ Producer(d)' = Producer(d) /\ Rpc(d)' = Rpc(d)
        /\ Uploads(d)' = Uploads(d)
    BY <1>4 DEF Op, Buf, Producer, Rpc, Uploads, Anything
  <2>3. Writers(Buf(d))' = Writers(Buf(d))
    BY DEF Writers, Owners, Buf, Made, Producer, Op
  <2>4. UploadOK(d)'
    <3>1. Writers(Buf(d)) = {} => contents'[Buf(d)] = contents[Buf(d)]
      BY <1>5, <2>1
    <3> QED
      BY <2>1, <2>2, <2>3, <3>1 DEF UploadOK
  <2>5. FilledOK(d)'
    <3>1. CASE d = c
      BY <1>5, <2>2, <3>1 DEF FilledOK
    <3>2. CASE d # c
      <4>1. Producer(d) /\ task[d] = "running" /\ Buf(d) = Buf(c) /\ Producer(c) => FALSE
        BY <1>0, <1>5, <2>1, <3>2, WriterFacts DEF MarksWell, OneWriter
      <4>2. Producer(d) /\ task[d] = "running" => contents'[Buf(d)] = contents[Buf(d)]
        BY <1>5, <2>1, <4>1
      <4> QED
        BY <2>1, <2>2, <3>2, <4>2 DEF FilledOK, None
    <3> QED
      BY <3>1, <3>2
  <2> QED
    BY <2>4, <2>5
<1> QED
  BY <1>2, <1>3, <1>4, <1>6 DEF MarksWell

(* A call is done, and what it leaves in its object is its own. *)
LEMMA DoneMarks ==
    ASSUME RpcInv, MarksWell, NEW c \in Made, task[c] = "running",
           task' = [task EXCEPT ![c] = "done"], UNCHANGED <<calls, announced, expects>>,
           Producer(c) => contents'[Buf(c)] = c, ~Producer(c) => contents' = contents,
           \A x \in Obj : x # Buf(c) => contents'[x] = contents[x],
           \A d \in Made : req'[d].result = req[d].result, NEW f, NewTop(f), DataFits(f)
    PROVE  MarksWell'
<1>0. TypeOK /\ Made \subseteq Call
  BY MadeFacts DEF RpcInv
<1>1. /\ task'[c] = "done" /\ \A d \in Made : d # c => task'[d] = task[d]
  BY <1>0 DEF TypeOK
<1>2. Made' = Made
  BY DEF Made
<1>3. \A x : Owners(x)' = Owners(x) \ {c}
  BY <1>1, <1>2 DEF Owners, Buf
<1>4. \A x : Writers(x)' = Writers(x) \ {c}
  BY <1>3 DEF Writers, Producer, Op
<1>5. OneWriter'
  BY <1>4 DEF MarksWell, OneWriter
<1>6. (\A t \in Thread : \A i \in DOMAIN stack[t] : DataFits(stack[t][i]))'
  <2>1. \A x : Writers(x)' \subseteq Writers(x)
    BY <1>4
  <2> QED
    BY <2>1, DataStay DEF MarksWell
<1>7. Producer(c) => c \in Writers(Buf(c))
  BY <1>0, WriterFacts
<1>8. ASSUME NEW d \in Made PROVE UploadOK(d)' /\ FilledOK(d)'
  <2>1. UploadOK(d) /\ FilledOK(d) /\ Buf(d) \in Obj /\ Buf(c) \in Obj
    BY <1>0, MadeFacts DEF MarksWell
  <2>2. /\ Op(d)' = Op(d) /\ Buf(d)' = Buf(d) /\ Producer(d)' = Producer(d) /\ Rpc(d)' = Rpc(d)
        /\ Uploads(d)' = Uploads(d)
    BY <1>2 DEF Op, Buf, Producer, Rpc, Uploads, Anything
  <2>3. PICK W, V : W = Writers(Buf(d)) /\ V = Writers(Buf(d))'
    OBVIOUS
  <2>4. V = W \ {c}
    <3>1. PICK x : x = Buf(d)
      OBVIOUS
    <3>2. Writers(x)' = V
      BY <2>2, <2>3, <3>1 DEF Writers, Owners
    <3>3. Writers(x)' = Writers(x) \ {c}
      BY <1>4
    <3> QED
      BY <2>3, <3>1, <3>2, <3>3
  <2>5. UploadOK(d)'
    <3> SUFFICES ASSUME Uploads(d), task[d] = "running", d # c
                 PROVE  /\ Buf(d) \notin announced
                        /\ V = {} => contents'[Buf(d)] = expects[d]
                        /\ \A e \in V : e = expects[d]
      BY <1>1, <2>2, <2>3 DEF UploadOK
    <3>1. /\ Buf(d) \notin announced
          /\ W = {} => contents[Buf(d)] = expects[d]
          /\ \A e \in W : e = expects[d]
      BY <2>1, <2>3 DEF UploadOK
    <3>2. CASE c \in W
      <4>1. Buf(d) = Buf(c) /\ Producer(c)
        BY <2>3, <3>2 DEF Writers, Owners
      <4>2. contents'[Buf(d)] = expects[d]
        BY <3>1, <3>2, <4>1
      <4> QED
        BY <2>4, <3>1, <4>2
    <3>3. CASE c \notin W
      <4>1. V = W
        BY <2>4, <3>3
      <4>2. contents'[Buf(d)] = contents[Buf(d)]
        <5>1. CASE Producer(c)
          <6>1. Buf(d) # Buf(c)
            BY <1>7, <2>3, <3>3, <5>1
          <6> QED
            BY <2>1, <6>1
        <5>2. CASE ~Producer(c)
          BY <5>2
        <5> QED
          BY <5>1, <5>2
      <4> QED
        BY <3>1, <4>1, <4>2
    <3> QED
      BY <3>2, <3>3
  <2>6. FilledOK(d)'
    <3> SUFFICES ASSUME Producer(d), Rpc(d), task[d] = "running", d # c, req[d].result # None
                 PROVE  contents'[Buf(d)] = d
      BY <1>1, <2>2 DEF FilledOK, None
    <3>1. contents[Buf(d)] = d /\ d \in Writers(Buf(d))
      BY <1>0, <2>1, WriterFacts DEF FilledOK
    <3>2. Producer(c) => Buf(d) # Buf(c)
      BY <1>7, <2>1, <3>1 DEF MarksWell, OneWriter
    <3> QED
      BY <2>1, <3>1, <3>2
  <2> QED
    BY <2>5, <2>6
<1> QED
  BY <1>2, <1>5, <1>6, <1>8 DEF MarksWell

(* The frame of a stub, after a step of the stub. *)
LEMMA StubNew ==
    ASSUME TypeOK, NEW t \in Thread, stack[t] # <<>>, Top(t).op = "stub", NEW w \in {"marks", "body"},
           Goes(t, w) \/ Pop(t)
    PROVE  \E f : /\ NewTop(f)
                  /\ \/ f.op = "stub" /\ f.at = w /\ f.call = Top(t).call
                     \/ f.op = "poll" /\ f.at # "data"
<1>1. CASE Goes(t, w)
  <2>1. PICK f : f = [Top(t) EXCEPT !.at = w]
    OBVIOUS
  <2>2. w \in {"locks", "marks", "body", "lock", "connect", "go", "data", "POLLOUT",
               "POLLIN", "payload", "complete"}
    OBVIOUS
  <2> QED
    BY <1>1, <2>1, <2>2, GoesNew
<1>2. CASE Pop(t)
  BY <1>2, PlainPop DEF Plain
<1> QED
  BY <1>1, <1>2

LEMMA StubMarksMarks ==
    ASSUME RpcInv, MarksWell, NEW t \in Thread, StubMarks(t)
    PROVE  MarksWell'
<1>0. TypeOK /\ Pieces /\ Made \subseteq Call
  BY MadeFacts DEF RpcInv
<1>1. PICK c, o, v : /\ c = Top(t).call /\ o = Buf(c)
                     /\ v = IF o \in announced THEN Anything
                            ELSE IF Writers(o) # {} THEN CHOOSE d \in Writers(o) : TRUE
                            ELSE contents[o]
  OBVIOUS
<1>2. /\ At(t, "stub", {"marks"}) /\ StubWaitsFor(t) = {}
      /\ task' = [task EXCEPT ![c] = "running"]
      /\ announced' = IF Producer(c) THEN announced \ {o} ELSE announced
      /\ expects' = [expects EXCEPT ![c] = v]
      /\ Goes(t, "body") \/ Pop(t)
      /\ UNCHANGED <<calls, contents, req>>
  BY <1>1 DEF StubMarks
<1>3. /\ stack[t] # <<>> /\ Top(t).op = "stub" /\ Top(t).at = "marks" /\ c \in Made /\ c \in Call
      /\ FrameOK(t, Len(stack[t]), Top(t)) /\ CallOK(c)
  BY <1>0, <1>1, <1>2, AtFacts
<1>4. task[c] = "stub" /\ ~req[c].published /\ req[c].result = None /\ o \in Obj
  BY <1>0, <1>1, <1>3, MadeFacts DEF FrameOK, CallOK
<1>5. /\ task'[c] = "running" /\ \A d \in Made : d # c => task'[d] = task[d]
      /\ expects'[c] = v /\ \A d \in Made : d # c => expects'[d] = expects[d]
  BY <1>0, <1>2, <1>3 DEF TypeOK
<1>6. Made' = Made
  BY <1>2 DEF Made
<1>7. \A x : Owners(x)' = IF x = o THEN Owners(x) \cup {c} ELSE Owners(x)
  BY <1>1, <1>2, <1>3, <1>5, <1>6 DEF Owners, Buf
<1>8. \A x : Writers(x)' = IF x = o /\ Producer(c) THEN Writers(x) \cup {c} ELSE Writers(x)
  BY <1>2, <1>7 DEF Writers, Producer, Op
<1>9. Producer(c) => Owners(o) = {} /\ Writers(o) = {}
  BY <1>1, <1>2, <1>3 DEF StubWaitsFor, Writers
<1>10. OneWriter'
  <2>1. \A x \in announced' : Writers(x)' = {}
    BY <1>2, <1>8 DEF MarksWell, OneWriter
  <2>2. \A x \in Obj : \A d, e \in Writers(x)' : d = e
    BY <1>8, <1>9 DEF MarksWell, OneWriter
  <2> QED
    BY <2>1, <2>2 DEF OneWriter
<1>11. PICK f : NewTop(f) /\ (f.op = "stub" \/ (f.op = "poll" /\ f.at # "data"))
  <2>1. PICK w \in {"marks", "body"} : Goes(t, w) \/ Pop(t)
    BY <1>2
  <2> QED
    BY <1>0, <1>3, <2>1, StubNew
<1>12. (\A u \in Thread : \A i \in DOMAIN stack[u] : DataFits(stack[u][i]))'
  <2> SUFFICES ASSUME NEW u \in Thread, NEW i \in DOMAIN stack'[u], NEW g, g = stack'[u][i],
                      g.op = "poll", g.at = "data", Op(g.call) = "put"
               PROVE  Writers(Buf(g.call))' = {}
    BY <1>2 DEF DataFits, Op
  <2>1. i \in DOMAIN stack[u] /\ g = stack[u][i]
    BY <1>11 DEF NewTop
  <2>2. FrameOK(u, i, g) /\ DataFits(g)
    BY <1>0, <2>1 DEF Pieces, FramesWell, MarksWell
  <2>3. g.call \in Made /\ g.call \in Call /\ req[g.call].published /\ ~req[g.call].done
    BY <1>0, <2>2 DEF FrameOK
  <2>4. task[g.call] = "running"
    BY <1>0, <2>3 DEF Pieces, CallsWell, CallOK
  <2>5. g.call \in Owners(Buf(g.call)) /\ Writers(Buf(g.call)) = {}
    BY <2>2, <2>3, <2>4 DEF Owners, DataFits
  <2>6. PICK x : x = Buf(g.call)
    OBVIOUS
  <2>7. Writers(x)' = {}
    BY <1>8, <1>9, <2>5, <2>6
  <2>8. Buf(g.call)' = x
    BY <1>2, <2>6 DEF Buf
  <2> QED
    BY <2>7, <2>8 DEF Writers, Owners
<1>13. ASSUME NEW d \in Made PROVE UploadOK(d)' /\ FilledOK(d)'
  <2>1. UploadOK(d) /\ FilledOK(d) /\ Buf(d) \in Obj
    BY <1>0, MadeFacts DEF MarksWell
  <2>2. /\ Op(d)' = Op(d) /\ Buf(d)' = Buf(d) /\ Producer(d)' = Producer(d) /\ Rpc(d)' = Rpc(d)
    BY <1>2 DEF Op, Buf, Producer, Rpc
  <2>3. PICK W, V : W = Writers(Buf(d)) /\ V = Writers(Buf(d))'
    OBVIOUS
  <2>4. V = IF Buf(d) = o /\ Producer(c) THEN W \cup {c} ELSE W
    <3>1. PICK x : x = Buf(d)
      OBVIOUS
    <3>2. Writers(x)' = V
      BY <2>2, <2>3, <3>1 DEF Writers, Owners
    <3> QED
      BY <1>8, <2>3, <3>1, <3>2
  <2>5. FilledOK(d)'
    BY <1>2, <1>4, <1>5, <2>1, <2>2 DEF FilledOK, None
  <2>6. UploadOK(d)'
    <3>1. CASE d = c
      <4> SUFFICES ASSUME Op(c) = "put", v # Anything
                   PROVE  /\ o \notin announced'
                          /\ V = {} => contents[o] = v
                          /\ \A e \in V : e = v
        BY <1>1, <1>2, <1>5, <2>2, <2>3, <3>1 DEF UploadOK, Uploads, Anything
      <4>1. ~Producer(c)
        BY DEF Producer
      <4>2. o \notin announced /\ o \notin announced'
        BY <1>1, <1>2, <4>1
      <4>3. V = Writers(o)
        BY <1>1, <2>3, <2>4, <3>1, <4>1
      <4>4. CASE Writers(o) = {}
        BY <1>1, <4>2, <4>3, <4>4
      <4>5. CASE Writers(o) # {}
        <5>1. v \in Writers(o)
          BY <1>1, <4>2, <4>5
        <5> QED
          BY <1>4, <4>2, <4>3, <5>1 DEF MarksWell, OneWriter
      <4> QED
        BY <4>4, <4>5
    <3>2. CASE d # c
      <4>1. Uploads(d)' = Uploads(d) /\ task'[d] = task[d] /\ expects'[d] = expects[d]
        BY <1>5, <1>6, <2>2, <3>2 DEF Uploads, Anything
      <4>2. task[d] = "running" /\ Producer(c) => Buf(d) # o
        BY <1>9 DEF Owners
      <4>3. task[d] = "running" => V = W
        BY <2>4, <4>2
      <4>4. announced' \subseteq announced
        BY <1>2
      <4> QED
        BY <1>2, <2>1, <2>2, <2>3, <4>1, <4>3, <4>4 DEF UploadOK
    <3> QED
      BY <3>1, <3>2
  <2> QED
    BY <2>5, <2>6
<1> QED
  BY <1>6, <1>10, <1>12, <1>13 DEF MarksWell

-----------------------------------------------------------------------------
(* As if blocking: the steps. *)

LEMMA BlockingStays ==
    ASSUME BlockingInv, RpcInv', UNCHANGED <<calls, order, counter>>,
           NEW f, NewTop(f), StubFits(f), \A c \in Made : TaskMoves(c),
           \A c \in Call : conn'[c].value = conn[c].value,
           \A c \in Call : SentOK(c)', MarksWell'
    PROVE  BlockingInv'
<1>1. TypeOK /\ OrderWell /\ CountsWell
  BY DEF BlockingInv, RpcInv
<1>2. OrderWell'
  BY <1>1, OrderStays
<1>3. CountsWell'
  <2>1. \A i \in DOMAIN order : order[i] \in Call
    BY <1>1, MadeFacts DEF TypeOK
  <2>2. \A i \in DOMAIN order : conn'[order[i]].value = conn[order[i]].value
    BY <2>1
  <2> QED
    BY <1>1, <2>2, CountsStay
<1>4. SentWell'
  <2> SUFFICES ASSUME NEW c \in Call' PROVE SentOK(c)'
    BY DEF SentWell
  <2>1. c \in Call
    BY DEF Call
  <2> QED
    BY <2>1
<1> QED
  BY <1>2, <1>3, <1>4 DEF BlockingInv

LEMMA SentAll ==
    ASSUME BlockingInv, \A c \in Call : SentSame(c)
    PROVE  \A c \in Call : SentOK(c)'
<1>1. \A c \in Call : SentOK(c)
  BY DEF BlockingInv, SentWell
<1> QED
  BY <1>1, SentStays

(* Nothing but frames, descriptors and marks without an owner. *)
LEMMA QuietBlocking ==
    ASSUME BlockingInv, RpcInv', UNCHANGED <<calls, order, task, contents, expects, conn, counter>>,
           announced' \subseteq announced,
           \A c \in Call : req'[c].sent = req[c].sent /\ req'[c].result = req[c].result,
           NEW f, NewTop(f), StubFits(f), DataFits(f)
    PROVE  BlockingInv'
<1>1. TypeOK /\ MarksWell /\ Made \subseteq Call
  BY MadeFacts DEF BlockingInv, RpcInv
<1>2. \A c \in Call : SentSame(c)
  BY DEF SentSame
<1>3. \A c \in Call : SentOK(c)'
  BY <1>2, SentAll
<1>4. MarksWell'
  <2>1. \A c \in Made : expects'[c] = expects[c] /\ req'[c].result = req[c].result
    BY <1>1
  <2>2. \A c \in Made : task'[c] = "running" <=> task[c] = "running"
    OBVIOUS
  <2> QED
    BY <1>1, <2>1, <2>2, MarksStay
<1>5. \A c \in Made : TaskMoves(c)
  BY DEF TaskMoves
<1>6. \A c \in Call : conn'[c].value = conn[c].value
  OBVIOUS
<1> QED
  BY <1>3, <1>4, <1>5, <1>6, BlockingStays

LEMMA PlainQuiet ==
    ASSUME BlockingInv, RpcInv', UNCHANGED <<calls, order, task, contents, expects, conn, counter>>,
           announced' \subseteq announced,
           \A c \in Call : req'[c].sent = req[c].sent /\ req'[c].result = req[c].result, Plain
    PROVE  BlockingInv'
<1>1. PICK f : NewTop(f) /\ StubFits(f) /\ DataFits(f)
  BY PlainFits
<1> QED
  BY <1>1, QuietBlocking

LEMMA StubWaitsBlocking ==
    ASSUME BlockingInv, RpcInv', NEW t \in Thread, StubWaits(t)
    PROVE  BlockingInv'
<1>0. TypeOK
  BY DEF BlockingInv, RpcInv
<1>1. /\ UNCHANGED <<calls, order, task, contents, expects, conn, counter, req>>
      /\ announced' \subseteq announced
  BY DEF StubWaits, netVars
<1>2. PICK d \in StubWaitsFor(t) : Push(t, PollFrame(d, "BLOCK"))
  BY DEF StubWaits
<1>3. d \in Made
  <2>1. ToSet(order) \subseteq Made
    BY <1>0 DEF ToSet, TypeOK
  <2> QED
    BY <2>1, <1>2 DEF StubWaitsFor, Conflicts, Owners
<1>4. Plain
  BY <1>0, <1>2, <1>3, PlainPush
<1> QED
  BY <1>1, <1>4, PlainQuiet

LEMMA ProgramPollsBlocking ==
    ASSUME BlockingInv, RpcInv', NEW t \in Thread, NEW c \in Made,
           NEW m \in {"CHECK", "PROGRESS", "BLOCK"}, ProgramPolls(t, c, m)
    PROVE  BlockingInv'
<1>0. TypeOK
  BY DEF BlockingInv, RpcInv
<1>1. /\ UNCHANGED <<calls, order, task, contents, expects, conn, counter, req>>
      /\ announced' \subseteq announced /\ Push(t, PollFrame(c, m))
  BY DEF ProgramPolls, netVars
<1>2. Plain
  BY <1>0, <1>1, PlainPush
<1> QED
  BY <1>1, <1>2, PlainQuiet

LEMMA WaitForReadBlocking ==
    ASSUME BlockingInv, RpcInv', NEW t \in Thread, WaitForRead(t)
    PROVE  BlockingInv'
<1>0. TypeOK
  BY DEF BlockingInv, RpcInv
<1>1. /\ UNCHANGED <<calls, order, task, contents, expects, conn, counter, req>>
      /\ announced' \subseteq announced /\ stack[t] # <<>> /\ (Pop(t) \/ UNCHANGED stack)
  BY DEF WaitForRead, netVars, At
<1>2. Plain
  BY <1>0, <1>1, PlainPop, PlainSame
<1> QED
  BY <1>1, <1>2, PlainQuiet

LEMMA PollLocksBlocking ==
    ASSUME BlockingInv, RpcInv', NEW t \in Thread, PollLocks(t)
    PROVE  BlockingInv'
<1>0. TypeOK
  BY DEF BlockingInv, RpcInv
<1>1. PICK S, w : S = {"lock"} /\ w = "go"
  OBVIOUS
<1>2. /\ UNCHANGED <<calls, order, task, contents, expects, conn, counter, req>>
      /\ announced' \subseteq announced /\ At(t, "poll", S) /\ (Pop(t) \/ Goes(t, w))
  BY <1>1 DEF PollLocks, netVars
<1>3. stack[t] # <<>>
  BY <1>2 DEF At
<1>4. Plain
  BY <1>0, <1>1, <1>2, <1>3, PlainPop, PlainGoes
<1> QED
  BY <1>2, <1>4, PlainQuiet

LEMMA AwaitsBlocking ==
    ASSUME BlockingInv, RpcInv', NEW t \in Thread, Awaits(t)
    PROVE  BlockingInv'
<1>0. TypeOK
  BY DEF BlockingInv, RpcInv
<1>1. /\ UNCHANGED <<calls, order, task, contents, expects, conn, counter, req>>
      /\ announced' \subseteq announced
  BY DEF Awaits, netVars
<1>2. ASSUME NEW S, At(t, "poll", S), Goes(t, "go") PROVE Plain
  <2>1. PICK w \in {"connect", "go", "POLLOUT", "POLLIN", "payload", "complete"} : Goes(t, w)
    BY <1>2
  <2> QED
    BY <1>0, <1>2, <2>1, PlainGoes
<1>3. ASSUME NEW d \in Writers(Buf(Top(t).call)), Push(t, PollFrame(d, "BLOCK")) PROVE Plain
  <2>1. d \in Made
    BY DEF Writers, Owners
  <2> QED
    BY <1>0, <1>3, <2>1, PlainPush
<1>4. Plain
  BY <1>2, <1>3 DEF Awaits
<1> QED
  BY <1>1, <1>4, PlainQuiet

LEMMA ChecksPayloadBlocking ==
    ASSUME BlockingInv, RpcInv', NEW t \in Thread, ChecksPayload(t)
    PROVE  BlockingInv'
<1>0. TypeOK
  BY DEF BlockingInv, RpcInv
<1>1. PICK S : S = {"go"}
  OBVIOUS
<1>2. /\ UNCHANGED <<calls, order, task, contents, expects, conn, counter, req>>
      /\ announced' \subseteq announced /\ At(t, "poll", S)
  BY <1>1 DEF ChecksPayload, netVars
<1>3. stack[t] # <<>> /\ Top(t).op = "poll"
  BY <1>2 DEF At
<1>4. CASE Pop(t)
  <2>1. Plain
    BY <1>0, <1>3, <1>4, PlainPop
  <2> QED
    BY <1>2, <2>1, PlainQuiet
<1>5. CASE Goes(t, "payload")
  <2>1. PICK w \in {"connect", "go", "POLLOUT", "POLLIN", "payload", "complete"} : Goes(t, w)
    BY <1>5
  <2>2. Plain
    BY <1>0, <1>2, <2>1, PlainGoes
  <2> QED
    BY <1>2, <2>2, PlainQuiet
<1>6. CASE ~IsPending(Buf(Top(t).call)) /\ Goes(t, "data")
  <2>1. PICK f, w : f = [Top(t) EXCEPT !.at = w] /\ w = "data"
    OBVIOUS
  <2>2. w \in {"locks", "marks", "body", "lock", "connect", "go", "data", "POLLOUT",
               "POLLIN", "payload", "complete"} /\ Goes(t, w)
    BY <1>6, <2>1
  <2>3. NewTop(f) /\ f.op = "poll" /\ f.call = Top(t).call
    BY <1>0, <1>3, <2>1, <2>2, GoesNew
  <2>4. StubFits(f) /\ DataFits(f)
    BY <1>6, <2>3 DEF StubFits, DataFits, IsPending
  <2> QED
    BY <1>2, <2>3, <2>4, QuietBlocking
<1> QED
  BY <1>4, <1>5, <1>6 DEF ChecksPayload, Stops

(* Requests that change in what the arguments do not read. *)
LEMMA SubmitsBlocking ==
    ASSUME BlockingInv, RpcInv', NEW t \in Thread, Submits(t)
    PROVE  BlockingInv'
<1>0. TypeOK
  BY DEF BlockingInv, RpcInv
<1>1. PICK c, g : c = Top(t).call /\ g = [PollFrame(c, "SUBMIT") EXCEPT !.at = "connect"]
  OBVIOUS
<1>2. /\ UNCHANGED <<calls, order, task, contents, expects, conn, counter>>
      /\ announced' \subseteq announced /\ req' = [req EXCEPT ![c].published = TRUE]
      /\ stack' = [stack EXCEPT ![t] = <<g>>]
  BY <1>1 DEF Submits, netVars
<1>3. g.op = "poll" /\ g.at = "connect"
  BY <1>1 DEF PollFrame
<1>4. NewTop(g)
  <2>1. stack'[t] = <<g>> /\ \A u \in Thread : u # t => stack'[u] = stack[u]
    BY <1>0, <1>2 DEF TypeOK
  <2>2. \A i \in DOMAIN <<g>> : <<g>>[i] = g
    OBVIOUS
  <2> QED
    BY <2>1, <2>2 DEF NewTop
<1>5. Plain
  BY <1>3, <1>4 DEF Plain
<1>6. \A d \in Call : req'[d].sent = req[d].sent /\ req'[d].result = req[d].result
  <2>1. req \in [Call -> Request]
    BY <1>0 DEF TypeOK
  <2>2. \A d \in Call : req'[d] = IF d = c THEN [req[d] EXCEPT !.published = TRUE] ELSE req[d]
    BY <1>2, <2>1
  <2> QED
    BY <2>1, <2>2 DEF Request
<1> QED
  BY <1>2, <1>5, <1>6, PlainQuiet

LEMMA StubBeginsBlocking ==
    ASSUME BlockingInv, RpcInv', NEW t \in Thread, NEW c \in Made, StubBegins(t, c)
    PROVE  BlockingInv'
<1>0. TypeOK /\ Made \subseteq Call /\ OrderWell /\ MarksWell
  BY MadeFacts DEF BlockingInv, RpcInv
<1>1. PICK f : f = [op |-> "stub", call |-> c, mode |-> "SUBMIT",
                    at |-> IF Op(c) \in {"step", "get"} THEN "locks" ELSE "marks"]
  OBVIOUS
<1>2. /\ UNCHANGED <<calls, order, announced, contents, expects, req, conn, counter>>
      /\ task[c] = "none" /\ task' = [task EXCEPT ![c] = "stub"] /\ Push(t, f)
  BY <1>1 DEF StubBegins, netVars
<1>3. /\ f.op = "stub" /\ f.call = c /\ f \in Frame
      /\ Numbered(c) <=> f.at = "locks"
  BY <1>0, <1>1 DEF Numbered, Frame, Call
<1>4. NewTop(f)
  BY <1>0, <1>2, <1>3, PushFacts DEF NewTop, TypeOK, StackType
<1>5. c \notin ToSet(order)
  BY <1>0, <1>2 DEF OrderWell, ToSet
<1>6. StubFits(f) /\ DataFits(f)
  BY <1>3, <1>5 DEF StubFits, DataFits
<1>7. task'[c] = "stub" /\ \A d \in Call : d # c => task'[d] = task[d]
  BY <1>0, <1>2 DEF TypeOK
<1>8. \A d \in Made : TaskMoves(d)
  BY <1>0, <1>2, <1>7 DEF TaskMoves
<1>9. \A d \in Call : SentSame(d)
  BY <1>2 DEF SentSame
<1>10. \A d \in Call : SentOK(d)'
  BY <1>9, SentAll
<1>11. MarksWell'
  <2>1. \A d \in Made : task'[d] = "running" <=> task[d] = "running"
    BY <1>0, <1>2, <1>7
  <2>2. \A d \in Made : expects'[d] = expects[d] /\ req'[d].result = req[d].result
    BY <1>2
  <2>3. announced' \subseteq announced
    BY <1>2
  <2> QED
    BY <1>0, <1>2, <1>4, <1>6, <2>1, <2>2, <2>3, MarksStay
<1>12. \A d \in Call : conn'[d].value = conn[d].value
  BY <1>2
<1> QED
  BY <1>2, <1>4, <1>6, <1>8, <1>10, <1>11, <1>12, BlockingStays

LEMMA StubMarksBlocking ==
    ASSUME BlockingInv, RpcInv', NEW t \in Thread, StubMarks(t)
    PROVE  BlockingInv'
<1>0. TypeOK /\ Pieces /\ Made \subseteq Call /\ OrderWell /\ RpcInv /\ MarksWell
  BY MadeFacts DEF BlockingInv, RpcInv
<1>1. PICK c : c = Top(t).call
  OBVIOUS
<1>2. /\ At(t, "stub", {"marks"}) /\ task' = [task EXCEPT ![c] = "running"]
      /\ Goes(t, "body") \/ Pop(t)
      /\ \A d \in Call : d # c => expects'[d] = expects[d]
      /\ UNCHANGED <<calls, order, contents, req, conn, counter>>
  BY <1>0, <1>1 DEF StubMarks, netVars, TypeOK
<1>3. /\ stack[t] # <<>> /\ Top(t).op = "stub" /\ Top(t).at = "marks" /\ c \in Made /\ c \in Call
      /\ Len(stack[t]) \in DOMAIN stack[t] /\ Top(t) = stack[t][Len(stack[t])]
      /\ FrameOK(t, Len(stack[t]), Top(t)) /\ CallOK(c)
  BY <1>0, <1>1, <1>2, AtFacts
<1>4. /\ task[c] = "stub" /\ conn[c].state = "none"
      /\ Numbered(c) => c \in ToSet(order)
  <2>1. task[c] = "stub" /\ conn[c].state = "none"
    BY <1>1, <1>3 DEF FrameOK, CallOK
  <2>2. Numbered(c) => c \in ToSet(order)
    BY <1>0, <1>1, <1>3 DEF OrderWell, StubFits
  <2> QED
    BY <2>1, <2>2
<1>5. PICK f : /\ NewTop(f)
               /\ \/ f.op = "stub" /\ f.at \in {"marks", "body"} /\ f.call = c
                  \/ f.op = "poll" /\ f.at # "data"
  <2>1. PICK w \in {"marks", "body"} : Goes(t, w) \/ Pop(t)
    BY <1>2
  <2> QED
    BY <1>0, <1>1, <1>3, <2>1, StubNew
<1>6. StubFits(f)
  BY <1>4, <1>5 DEF StubFits
<1>7. task'[c] = "running" /\ \A d \in Call : d # c => task'[d] = task[d]
  BY <1>0, <1>2, <1>3 DEF TypeOK
<1>8. \A d \in Made : TaskMoves(d)
  BY <1>0, <1>4, <1>7 DEF TaskMoves
<1>9. ASSUME NEW d \in Call PROVE SentOK(d)'
  <2>1. SentOK(d)
    BY DEF BlockingInv, SentWell
  <2>2. CASE d # c
    <3>1. SentSame(d)
      BY <1>2, <2>2 DEF SentSame
    <3> QED
      BY <2>1, <3>1, SentStays
  <2>3. CASE d = c
    <3>1. /\ conn[d].state = "none" /\ conn[d].got = <<>> /\ conn[d].out = <<>>
          /\ conn[d].value = None
      <4>1. ReplyOK(d)
        BY <1>0 DEF RpcInv, ReplyWell
      <4> QED
        BY <1>4, <2>1, <2>3, <4>1 DEF SentOK, ReplyOK
    <3>2. req[d].sent = Len(conn[d].got) + Len(conn[d].out)
      BY <2>1, <3>1 DEF SentOK
    <3> QED
      BY <1>2, <3>1, <3>2 DEF SentOK, None
  <2> QED
    BY <2>2, <2>3
<1>10. MarksWell'
  BY <1>0, StubMarksMarks
<1>11. \A d \in Call : conn'[d].value = conn[d].value
  BY <1>2
<1> QED
  BY <1>2, <1>5, <1>6, <1>8, <1>9, <1>10, <1>11, BlockingStays

LEMMA ProgramMarksBlocking ==
    ASSUME BlockingInv, RpcInv', NEW o \in Obj, Store(o) \/ Announce(o) \/ Resolve(o)
    PROVE  BlockingInv'
<1>0. RpcInv /\ MarksWell
  BY DEF BlockingInv
<1>1. UNCHANGED <<calls, stack, task, order, expects, req, conn, counter>>
  BY DEF Store, Announce, Resolve, netVars
<1>2. MarksWell'
  BY <1>0, ProgramMarks
<1>3. Plain
  BY <1>1, PlainSame
<1>4. PICK f : NewTop(f) /\ StubFits(f)
  BY <1>3, PlainFits
<1>5. \A c \in Made : TaskMoves(c)
  BY <1>1 DEF TaskMoves
<1>6. \A c \in Call : SentSame(c) /\ conn'[c].value = conn[c].value
  BY <1>1 DEF SentSame
<1>7. \A c \in Call : SentOK(c)'
  BY <1>6, SentAll
<1> QED
  BY <1>1, <1>2, <1>4, <1>5, <1>6, <1>7, BlockingStays

(* Calls that are done. *)
LEMMA DoneBlocking ==
    ASSUME BlockingInv, RpcInv', NEW c \in Made, task[c] = "running",
           task' = [task EXCEPT ![c] = "done"],
           UNCHANGED <<calls, order, announced, expects, conn, counter>>,
           Producer(c) => contents'[Buf(c)] = c, ~Producer(c) => contents' = contents,
           \A x \in Obj : x # Buf(c) => contents'[x] = contents[x],
           \A d \in Call : req'[d].sent = req[d].sent /\ req'[d].result = req[d].result, Plain
    PROVE  BlockingInv'
<1>0. TypeOK /\ Made \subseteq Call /\ OrderWell /\ RpcInv /\ MarksWell
  BY MadeFacts DEF BlockingInv, RpcInv
<1>1. PICK f : NewTop(f) /\ StubFits(f) /\ DataFits(f)
  BY PlainFits
<1>2. task'[c] = "done" /\ \A d \in Call : d # c => task'[d] = task[d]
  BY <1>0 DEF TypeOK
<1>3. \A d \in Made : TaskMoves(d)
  BY <1>0, <1>2 DEF TaskMoves, OrderWell
<1>4. \A d \in Call : SentSame(d) /\ conn'[d].value = conn[d].value
  BY DEF SentSame
<1>5. \A d \in Call : SentOK(d)'
  BY <1>4, SentAll
<1>6. MarksWell'
  <2>1. \A d \in Made : req'[d].result = req[d].result
    BY <1>0
  <2> QED
    BY <1>0, <1>1, <2>1, DoneMarks
<1> QED
  BY <1>1, <1>3, <1>4, <1>5, <1>6, BlockingStays

LEMMA ReadLandsBlocking ==
    ASSUME BlockingInv, RpcInv', NEW c \in Call, ReadLands(c)
    PROVE  BlockingInv'
<1>0. TypeOK /\ KickedReads
  BY DEF BlockingInv, RpcInv
<1>1. /\ UNCHANGED <<calls, stack, order, announced, expects, req, conn, counter>>
      /\ c \in kicked /\ task[c] = "running"
      /\ task' = [task EXCEPT ![c] = "done"]
      /\ contents' = [contents EXCEPT ![Buf(c)] = c]
  BY DEF ReadLands, netVars
<1>2. c \in Made /\ ~Rpc(c)
  BY <1>0, <1>1 DEF KickedReads
<1>3. Producer(c) /\ Buf(c) \in Obj
  BY <1>0, <1>2, MadeFacts DEF Producer, Rpc
<1>4. contents'[Buf(c)] = c /\ \A x \in Obj : x # Buf(c) => contents'[x] = contents[x]
  BY <1>0, <1>1, <1>3 DEF TypeOK
<1>5. Plain
  BY <1>1, PlainSame
<1>6. \A d \in Call : req'[d].sent = req[d].sent /\ req'[d].result = req[d].result
  BY <1>1
<1> QED
  BY <1>1, <1>2, <1>3, <1>4, <1>5, <1>6, DoneBlocking

LEMMA CompletesBlocking ==
    ASSUME BlockingInv, RpcInv', NEW t \in Thread, Completes(t)
    PROVE  BlockingInv'
<1>0. TypeOK /\ Pieces /\ MarksWell
  BY DEF BlockingInv, RpcInv
<1>1. PICK c, S, n : c = Top(t).call /\ S = {"complete"} /\ n = Len(stack[t])
  OBVIOUS
<1>2. /\ UNCHANGED <<calls, order, announced, contents, expects, conn, counter>>
      /\ At(t, "poll", S) /\ task' = [task EXCEPT ![c] = "done"]
      /\ req' = [req EXCEPT ![c].done = TRUE] /\ Pop(t)
  BY <1>1 DEF Completes, netVars
<1>3. /\ stack[t] # <<>> /\ c \in Call /\ c \in Made /\ FrameOK(t, n, Top(t)) /\ Top(t).at = "complete"
      /\ Rpc(c) /\ task[c] = "running"
  BY <1>0, <1>1, <1>2, HolderFacts
<1>4. req[c].result # None
  <2>1. Top(t).op = "poll"
    BY <1>2 DEF At
  <2> QED
    BY <1>1, <1>3, <2>1 DEF FrameOK
<1>5. Producer(c) => contents'[Buf(c)] = c
  BY <1>0, <1>2, <1>3, <1>4 DEF MarksWell, FilledOK
<1>6. \A d \in Call : req'[d].sent = req[d].sent /\ req'[d].result = req[d].result
  <2>1. req \in [Call -> Request]
    BY <1>0 DEF TypeOK
  <2>2. \A d \in Call : req'[d] = IF d = c THEN [req[d] EXCEPT !.done = TRUE] ELSE req[d]
    BY <1>2, <2>1
  <2> QED
    BY <2>1, <2>2 DEF Request
<1>7. Plain
  BY <1>0, <1>2, <1>3, PlainPop
<1> QED
  BY <1>2, <1>3, <1>5, <1>6, <1>7, DoneBlocking

(* finish(), whatever the result. *)
LEMMA FinishBlocking ==
    ASSUME BlockingInv, RpcInv', NEW t \in Thread, NEW S, At(t, "poll", S), "lock" \notin S,
           NEW c, c = Top(t).call, NEW r, Finishes(t, c, r),
           UNCHANGED <<calls, task, order, announced, expects, counter>>,
           \A d \in Call : /\ conn'[d].value = conn[d].value
                           /\ conn'[d] = conn[d] \/ conn'[d].state = "failed"
    PROVE  BlockingInv'
<1>0. TypeOK /\ Pieces /\ RpcInv /\ MarksWell /\ Made \subseteq Call
  BY MadeFacts DEF BlockingInv, RpcInv
<1>1. PICK n, w : n = Len(stack[t]) /\ w = "complete"
  OBVIOUS
<1>2. c \in Call /\ c \in Made /\ task[c] = "running"
  BY <1>0, <1>1, HolderFacts
<1>3. /\ req' = [req EXCEPT ![c].result = r] /\ Goes(t, w)
      /\ contents' = IF Producer(c) THEN [contents EXCEPT ![Buf(c)] = c] ELSE contents
  BY <1>1 DEF Finishes
<1>4. w \in {"connect", "go", "POLLOUT", "POLLIN", "payload", "complete"}
  BY <1>1
<1>5. Plain
  BY <1>0, <1>3, <1>4, PlainGoes
<1>6. PICK f : NewTop(f) /\ StubFits(f) /\ DataFits(f)
  BY <1>5, PlainFits
<1>7. /\ \A d \in Call : req'[d].sent = req[d].sent
      /\ \A d \in Call : d # c => req'[d] = req[d]
  <2>1. req \in [Call -> Request]
    BY <1>0 DEF TypeOK
  <2>2. \A d \in Call : req'[d] = IF d = c THEN [req[d] EXCEPT !.result = r] ELSE req[d]
    BY <1>3, <2>1
  <2> QED
    BY <2>1, <2>2 DEF Request
<1>8. MarksWell'
  <2>1. \A d \in Made : d # c => req'[d] = req[d]
    BY <1>0, <1>7
  <2>2. UNCHANGED <<calls, task, announced, expects>>
    OBVIOUS
  <2> QED
    BY <1>0, <1>2, <1>3, <1>6, <2>1, <2>2, FinishMarks
<1>9. \A d \in Call : SentSame(d)
  BY <1>7 DEF SentSame
<1>10. \A d \in Call : SentOK(d)'
  BY <1>9, SentAll
<1>11. \A d \in Made : TaskMoves(d)
  BY DEF TaskMoves
<1>12. UNCHANGED <<calls, order, counter>> /\ \A d \in Call : conn'[d].value = conn[d].value
  OBVIOUS
<1> QED
  BY <1>6, <1>8, <1>10, <1>11, <1>12, BlockingStays

LEMMA SubmitConnectsBlocking ==
    ASSUME BlockingInv, RpcInv', NEW t \in Thread, SubmitConnects(t)
    PROVE  BlockingInv'
<1>0. TypeOK /\ Pieces /\ RpcInv /\ MarksWell /\ Made \subseteq Call
  BY MadeFacts DEF BlockingInv, RpcInv
<1>1. PICK c, S, n, r : c = Top(t).call /\ S = {"connect"} /\ n = Len(stack[t]) /\ r = Error
  OBVIOUS
<1>2. /\ At(t, "poll", S) /\ "lock" \notin S
      /\ UNCHANGED <<calls, task, order, announced, expects, kicked, counter>>
  BY <1>1 DEF SubmitConnects
<1>3. c \in Call /\ FrameOK(t, n, Top(t)) /\ Top(t).at = "connect"
  BY <1>0, <1>1, <1>2, HolderFacts
<1>4. conn[c].state = "none"
  <2>1. Top(t).op = "poll"
    BY <1>2 DEF At
  <2> QED
    BY <1>1, <1>3, <2>1 DEF FrameOK
<1>5. conn \in [Call -> Connection] /\ req \in [Call -> Request]
  BY <1>0 DEF TypeOK
<1>6. ASSUME conn' = [conn EXCEPT ![c].state = "failed"], Finishes(t, c, r)
      PROVE  BlockingInv'
  <2>1. \A d \in Call : conn'[d] = IF d = c THEN [conn[d] EXCEPT !.state = "failed"] ELSE conn[d]
    BY <1>5, <1>6
  <2>2. \A d \in Call : /\ conn'[d].value = conn[d].value
                        /\ conn'[d] = conn[d] \/ conn'[d].state = "failed"
    BY <1>5, <2>1 DEF Connection
  <2>3. UNCHANGED <<calls, task, order, announced, expects, counter>>
    BY <1>2
  <2> QED
    BY <1>1, <1>2, <1>6, <2>2, <2>3, FinishBlocking
<1>7. ASSUME NEW x, req' = [req EXCEPT ![c].fd = x], conn' = [conn EXCEPT ![c].state = "connecting"],
             Goes(t, "go"), UNCHANGED contents
      PROVE  BlockingInv'
  <2>1. \A d \in Call : conn'[d] = IF d = c THEN [conn[d] EXCEPT !.state = "connecting"] ELSE conn[d]
    BY <1>5, <1>7
  <2>2. \A d \in Call : req'[d] = IF d = c THEN [req[d] EXCEPT !.fd = x] ELSE req[d]
    BY <1>5, <1>7
  <2>3. \A d \in Call : req'[d].sent = req[d].sent /\ req'[d].result = req[d].result
    BY <1>5, <2>2 DEF Request
  <2>4. /\ \A d \in Call : /\ conn'[d].value = conn[d].value /\ conn'[d].got = conn[d].got
                           /\ conn'[d].out = conn[d].out
        /\ \A d \in Call : d # c => conn'[d].state = conn[d].state
        /\ conn'[c].state = "connecting"
    BY <1>3, <1>5, <2>1 DEF Connection
  <2>5. PICK w \in {"connect", "go", "POLLOUT", "POLLIN", "payload", "complete"} : Goes(t, w)
    BY <1>7
  <2>6. Plain
    BY <1>0, <1>2, <2>5, PlainGoes
  <2>7. PICK f : NewTop(f) /\ StubFits(f) /\ DataFits(f)
    BY <2>6, PlainFits
  <2>8. \A d \in Call : SentSame(d)
    BY <1>2, <1>4, <2>3, <2>4 DEF SentSame
  <2>9. \A d \in Call : SentOK(d)'
    BY <2>8, SentAll
  <2>10. MarksWell'
    <3>1. \A d \in Made : expects'[d] = expects[d] /\ req'[d].result = req[d].result
      BY <1>0, <1>2, <2>3
    <3>2. \A d \in Made : task'[d] = "running" <=> task[d] = "running"
      BY <1>2
    <3>3. announced' \subseteq announced /\ UNCHANGED <<calls, contents>>
      BY <1>2, <1>7
    <3> QED
      BY <1>0, <2>7, <3>1, <3>2, <3>3, MarksStay
  <2>11. \A d \in Made : TaskMoves(d)
    BY <1>2 DEF TaskMoves
  <2> QED
    BY <1>2, <2>4, <2>7, <2>9, <2>10, <2>11, BlockingStays
<1> QED
  BY <1>1, <1>6, <1>7 DEF SubmitConnects

(* recv() and send(). *)
LEMMA PollStaysBlocking ==
    ASSUME BlockingInv, RpcInv', NEW c \in Call,
           UNCHANGED <<calls, stack, task, order, announced, contents, expects, counter>>,
           \A d \in Call : req'[d].result = req[d].result /\ conn'[d].value = conn[d].value,
           \A d \in Call : d # c => req'[d] = req[d] /\ conn'[d] = conn[d], SentOK(c)'
    PROVE  BlockingInv'
<1>0. TypeOK /\ MarksWell /\ Made \subseteq Call
  BY MadeFacts DEF BlockingInv, RpcInv
<1>1. Plain
  BY PlainSame
<1>2. PICK f : NewTop(f) /\ StubFits(f) /\ DataFits(f)
  BY <1>1, PlainFits
<1>3. \A d \in Call : SentOK(d)'
  <2>1. \A d \in Call : SentOK(d)
    BY DEF BlockingInv, SentWell
  <2>2. \A d \in Call : d # c => SentSame(d)
    BY DEF SentSame
  <2> QED
    BY <2>1, <2>2, SentStays
<1>4. MarksWell'
  <2>1. \A d \in Made : expects'[d] = expects[d] /\ req'[d].result = req[d].result
    BY <1>0
  <2>2. \A d \in Made : task'[d] = "running" <=> task[d] = "running"
    OBVIOUS
  <2>3. announced' \subseteq announced
    OBVIOUS
  <2> QED
    BY <1>0, <1>2, <2>1, <2>2, <2>3, MarksStay
<1>5. \A d \in Made : TaskMoves(d)
  BY DEF TaskMoves
<1> QED
  BY <1>2, <1>3, <1>4, <1>5, BlockingStays

LEMMA StopsBlocking ==
    ASSUME BlockingInv, RpcInv', NEW t \in Thread, NEW S, At(t, "poll", S),
           NEW w \in {"POLLOUT", "POLLIN"}, Stops(t, w),
           UNCHANGED <<calls, task, order, announced, contents, expects, req, conn, counter>>
    PROVE  BlockingInv'
<1>0. TypeOK /\ stack[t] # <<>>
  BY DEF BlockingInv, RpcInv, At
<1>1. w \in {"connect", "go", "POLLOUT", "POLLIN", "payload", "complete"}
  OBVIOUS
<1>2. Plain
  BY <1>0, <1>1, PlainPop, PlainGoes DEF Stops
<1>3. announced' \subseteq announced
  OBVIOUS
<1> QED
  BY <1>2, <1>3, PlainQuiet

(* The next piece that goes out is the right one. *)
LEMMA NextPiece ==
    ASSUME BlockingInv, NEW t \in Thread, NEW S, At(t, "poll", S), "lock" \notin S,
           NEW c, c = Top(t).call, NEW n \in Nat, n > CommandLen => Top(t).at = "data",
           NEW x, x = IF n =< CommandLen THEN n ELSE contents[Buf(c)]
    PROVE  Piece(c, n, x)
<1>0. TypeOK /\ Pieces /\ MarksWell
  BY DEF BlockingInv, RpcInv
<1>1. PICK m : m = Len(stack[t])
  OBVIOUS
<1>2. c \in Made /\ task[c] = "running" /\ stack[t] # <<>>
  BY <1>0, <1>1, HolderFacts
<1>3. m \in DOMAIN stack[t] /\ Top(t) = stack[t][m] /\ Top(t).op = "poll"
  BY <1>0, <1>1, <1>2, TopFacts DEF TypeOK, StackType, At
<1>4. CASE n =< CommandLen
  BY <1>4, Sizes DEF Piece
<1>5. CASE n > CommandLen
  <2>1. x = contents[Buf(c)] /\ Top(t).at = "data" /\ ~(n =< CommandLen)
    BY <1>5, Sizes
  <2>2. Uploads(c) => Writers(Buf(c)) = {}
    BY <1>0, <1>3, <2>1 DEF MarksWell, DataFits, Uploads
  <2>3. Uploads(c) => contents[Buf(c)] = expects[c]
    BY <1>0, <1>2, <2>2 DEF MarksWell, UploadOK
  <2> QED
    BY <2>1, <2>3 DEF Piece
<1> QED
  BY <1>4, <1>5, Sizes

LEMMA SendsBlocking ==
    ASSUME BlockingInv, RpcInv', NEW t \in Thread, Sends(t)
    PROVE  BlockingInv'
<1>0. TypeOK /\ Pieces /\ OwnDescriptor /\ RpcInv
  BY DEF BlockingInv, RpcInv
<1>1. PICK c, n, S, r : c = Top(t).call /\ n = Len(stack[t]) /\ S = {"go", "data"} /\ r = Error
  OBVIOUS
<1>2. /\ At(t, "poll", S) /\ "lock" \notin S
      /\ UNCHANGED <<calls, task, order, announced, expects, kicked, counter>>
  BY <1>1 DEF Sends
<1>3. /\ c \in Call /\ c \in Made /\ Top(t).at \in S
      /\ Top(t).at \notin {"connect", "complete"} =>
            c \in open /\ conn[c].state # "none" /\ req[c].result = None
  BY <1>0, <1>1, <1>2, HolderFacts
<1>4. c \in open /\ conn[c].state # "none" /\ Reached(c) = c
  BY <1>0, <1>1, <1>3, ReachesOwn
<1>5. conn \in [Call -> Connection] /\ req \in [Call -> Request]
  BY <1>0 DEF TypeOK
<1>6. CASE Finishes(t, c, r) /\ UNCHANGED conn
  <2>1. \A d \in Call : /\ conn'[d].value = conn[d].value
                        /\ conn'[d] = conn[d] \/ conn'[d].state = "failed"
    BY <1>6
  <2>2. UNCHANGED <<calls, task, order, announced, expects, counter>>
    BY <1>2
  <2> QED
    BY <1>1, <1>2, <1>6, <2>1, <2>2, FinishBlocking
<1>7. CASE Stops(t, "POLLOUT") /\ UNCHANGED <<contents, req, open, conn>>
  <2>1. PICK w \in {"POLLOUT", "POLLIN"} : Stops(t, w)
    BY <1>7
  <2>2. UNCHANGED <<calls, task, order, announced, contents, expects, req, conn, counter>>
    BY <1>2, <1>7
  <2> QED
    BY <1>2, <2>1, <2>2, StopsBlocking
<1>8. ASSUME NEW m, m = req[c].sent + 1, m > CommandLen => Top(t).at = "data",
             NEW x, x = IF m =< CommandLen THEN m ELSE contents[Buf(c)],
             req' = [req EXCEPT ![c].sent = m],
             conn' = [conn EXCEPT ![c].out = Append(@, x)], UNCHANGED <<stack, contents, open>>
      PROVE  BlockingInv'
  <2>1. PICK h, k, y : h = req[c] /\ k = conn[c] /\ y = Append(k.out, x)
    OBVIOUS
  <2>2. /\ h \in Request /\ h.sent \in Nat /\ k \in Connection /\ k.out \in Seq(Int)
        /\ k.got \in Seq(Int)
    BY <1>0, <1>3, <2>1, CallFacts, ConnFacts
  <2>3. m \in Nat /\ m = h.sent + 1
    BY <1>8, <2>1, <2>2
  <2>4. Piece(c, m, x)
    BY <1>1, <1>2, <1>8, <2>3, NextPiece
  <2>5. req'[c] = [h EXCEPT !.sent = m] /\ \A d \in Call : d # c => req'[d] = req[d]
    BY <1>3, <1>5, <1>8, <2>1
  <2>6. conn'[c] = [k EXCEPT !.out = y] /\ \A d \in Call : d # c => conn'[d] = conn[d]
    BY <1>3, <1>5, <1>8, <2>1
  <2>7. req'[c].sent = m /\ req'[c].result = h.result
    BY <2>2, <2>5 DEF Request
  <2>8. /\ conn'[c].out = y /\ conn'[c].got = k.got /\ conn'[c].value = k.value
        /\ conn'[c].state = k.state
    BY <2>2, <2>6 DEF Connection
  <2>9. Uploads(c)' = Uploads(c) /\ \A i, z : Piece(c, i, z)' = Piece(c, i, z)
    BY <1>2 DEF Uploads, Piece, Made, Op, Anything
  <2>10. SentOK(c)
    BY <1>3 DEF BlockingInv, SentWell
  <2>11. SentOK(c)'
    <3>1. k.state \in {"none", "connecting", "open"} =>
            /\ m = Len(k.got) + Len(y)
            /\ \A i \in DOMAIN k.got : Piece(c, i, k.got[i])
            /\ \A i \in DOMAIN y : Piece(c, Len(k.got) + i, y[i])
      <4> SUFFICES ASSUME k.state \in {"none", "connecting", "open"}
                   PROVE  /\ m = Len(k.got) + Len(y)
                          /\ \A i \in DOMAIN k.got : Piece(c, i, k.got[i])
                          /\ \A i \in DOMAIN y : Piece(c, Len(k.got) + i, y[i])
        OBVIOUS
      <4>1. /\ h.sent = Len(k.got) + Len(k.out)
            /\ \A i \in DOMAIN k.got : Piece(c, i, k.got[i])
            /\ \A i \in DOMAIN k.out : Piece(c, Len(k.got) + i, k.out[i])
        BY <2>1, <2>10 DEF SentOK
      <4>2. PICK o, g : o = k.out /\ g = Len(k.got)
        OBVIOUS
      <4>3. o \in Seq(Int) /\ g \in Nat /\ y = Append(o, x) /\ m = g + Len(o) + 1
        BY <2>1, <2>2, <2>3, <4>1, <4>2
      <4>4. /\ Len(y) = Len(o) + 1 /\ Len(o) \in Nat
            /\ \A i \in DOMAIN y : (i \in DOMAIN o /\ y[i] = o[i]) \/ (i = Len(o) + 1 /\ y[i] = x)
        <5>1. DOMAIN y = 1 .. Len(o) + 1
          BY <4>3
        <5> QED
          BY <4>3, <5>1
      <4>5. \A i \in DOMAIN y : Piece(c, g + i, y[i])
        <5> SUFFICES ASSUME NEW i \in DOMAIN y PROVE Piece(c, g + i, y[i])
          OBVIOUS
        <5>1. CASE i \in DOMAIN o /\ y[i] = o[i]
          BY <4>1, <4>2, <5>1
        <5>2. CASE i = Len(o) + 1 /\ y[i] = x
          <6>1. g + i = m
            BY <4>3, <4>4, <5>2
          <6> QED
            BY <2>4, <5>2, <6>1
        <5> QED
          BY <4>4, <5>1, <5>2
      <4>6. m = g + Len(y)
        BY <4>3, <4>4
      <4> QED
        BY <4>1, <4>2, <4>5, <4>6
    <3>2. Uploads(c) /\ k.value # None => \E T \in SUBSET {expects[c]} : k.value = Value(T)
      BY <2>1, <2>10 DEF SentOK
    <3>3. conn'[c].state # "none"
      BY <1>4, <2>1, <2>8
    <3>4. (conn[c].state \in {"none", "connecting", "open"} =>
             /\ req[c].sent = Len(conn[c].got) + Len(conn[c].out)
             /\ \A i \in DOMAIN conn[c].got : Piece(c, i, conn[c].got[i])
             /\ \A i \in DOMAIN conn[c].out : Piece(c, Len(conn[c].got) + i, conn[c].out[i]))'
      BY <2>7, <2>8, <2>9, <3>1
    <3>5. (Uploads(c) /\ conn[c].value # None =>
             \E T \in SUBSET {expects[c]} : conn[c].value = Value(T))'
      BY <1>2, <2>8, <2>9, <3>2 DEF None, Value
    <3> QED
      BY <3>3, <3>4, <3>5 DEF SentOK
  <2>12. \A d \in Call : req'[d].result = req[d].result /\ conn'[d].value = conn[d].value
    BY <2>1, <2>5, <2>6, <2>7, <2>8
  <2>13. \A d \in Call : d # c => req'[d] = req[d] /\ conn'[d] = conn[d]
    BY <2>5, <2>6
  <2>14. UNCHANGED <<calls, stack, task, order, announced, contents, expects, counter>>
    BY <1>2, <1>8
  <2> QED
    BY <1>3, <2>11, <2>12, <2>13, <2>14, PollStaysBlocking
<1> QED
  BY <1>1, <1>4, <1>6, <1>7, <1>8 DEF Sends

LEMMA ReceivesBlocking ==
    ASSUME BlockingInv, RpcInv', NEW t \in Thread, Receives(t)
    PROVE  BlockingInv'
<1>0. TypeOK /\ Pieces /\ OwnDescriptor /\ RpcInv
  BY DEF BlockingInv, RpcInv
<1>1. PICK c, n, S : c = Top(t).call /\ n = Len(stack[t]) /\ S = {"go", "data"}
  OBVIOUS
<1>2. /\ At(t, "poll", S) /\ "lock" \notin S
      /\ UNCHANGED <<calls, task, order, announced, expects, kicked, counter>>
  BY <1>1 DEF Receives
<1>3. /\ c \in Call /\ Top(t).at \in S
      /\ Top(t).at \notin {"connect", "complete"} =>
            c \in open /\ conn[c].state # "none" /\ req[c].result = None
  BY <1>0, <1>1, <1>2, HolderFacts
<1>4. Reached(c) = c
  BY <1>0, <1>1, <1>3, ReachesOwn
<1>5. conn \in [Call -> Connection] /\ req \in [Call -> Request]
  BY <1>0 DEF TypeOK
<1>6. ASSUME NEW r, Finishes(t, c, r), UNCHANGED conn PROVE BlockingInv'
  <2>1. \A d \in Call : /\ conn'[d].value = conn[d].value
                        /\ conn'[d] = conn[d] \/ conn'[d].state = "failed"
    BY <1>6
  <2>2. UNCHANGED <<calls, task, order, announced, expects, counter>>
    BY <1>2
  <2> QED
    BY <1>1, <1>2, <1>6, <2>1, <2>2, FinishBlocking
<1>7. CASE Stops(t, "POLLIN") /\ UNCHANGED <<contents, req, open, conn>>
  <2>1. PICK w \in {"POLLOUT", "POLLIN"} : Stops(t, w)
    BY <1>7
  <2>2. UNCHANGED <<calls, task, order, announced, contents, expects, req, conn, counter>>
    BY <1>2, <1>7
  <2> QED
    BY <1>2, <2>1, <2>2, StopsBlocking
<1>8. ASSUME NEW y, NEW e, req' = [req EXCEPT ![c].received = y], conn' = [conn EXCEPT ![c].in = e],
             UNCHANGED <<stack, contents, open>>
      PROVE  BlockingInv'
  <2>1. req'[c] = [req[c] EXCEPT !.received = y] /\ \A d \in Call : d # c => req'[d] = req[d]
    BY <1>3, <1>5, <1>8
  <2>2. conn'[c] = [conn[c] EXCEPT !.in = e] /\ \A d \in Call : d # c => conn'[d] = conn[d]
    BY <1>3, <1>5, <1>8
  <2>3. req'[c].sent = req[c].sent /\ req'[c].result = req[c].result
    BY <1>3, <1>5, <2>1 DEF Request
  <2>4. /\ conn'[c].out = conn[c].out /\ conn'[c].got = conn[c].got
        /\ conn'[c].value = conn[c].value /\ conn'[c].state = conn[c].state
    BY <1>3, <1>5, <2>2 DEF Connection
  <2>5. SentSame(c) /\ SentOK(c)
    BY <1>2, <1>3, <2>3, <2>4 DEF SentSame, BlockingInv, SentWell
  <2>6. SentOK(c)'
    BY <1>3, <2>5, SentStays
  <2>7. \A d \in Call : req'[d].result = req[d].result /\ conn'[d].value = conn[d].value
    BY <2>1, <2>2, <2>3, <2>4
  <2>8. \A d \in Call : d # c => req'[d] = req[d] /\ conn'[d] = conn[d]
    BY <2>1, <2>2
  <2>9. UNCHANGED <<calls, stack, task, order, announced, contents, expects, counter>>
    BY <1>2, <1>8
  <2> QED
    BY <1>3, <2>6, <2>7, <2>8, <2>9, PollStaysBlocking
<1> QED
  BY <1>1, <1>4, <1>6, <1>7, <1>8 DEF Receives

LEMMA NetBlocking ==
    ASSUME BlockingInv, RpcInv', NEW d \in Call, UNCHANGED <<clientVars, req, counter>>,
           NEW k \in Connection, conn' = [conn EXCEPT ![d] = k], k.value = conn[d].value,
           SentOK(d)'
    PROVE  BlockingInv'
<1>1. TypeOK
  BY DEF BlockingInv, RpcInv
<1>2. conn'[d] = k /\ \A c \in Call : c # d => conn'[c] = conn[c]
  BY <1>1, ConnAfter
<1>3. UNCHANGED <<calls, stack, task, order, announced, contents, expects, counter>>
  BY DEF clientVars
<1>4. \A c \in Call : req'[c].result = req[c].result /\ conn'[c].value = conn[c].value
  BY <1>2
<1>5. \A c \in Call : c # d => req'[c] = req[c] /\ conn'[c] = conn[c]
  BY <1>2
<1> QED
  BY <1>3, <1>4, <1>5, PollStaysBlocking

(* Handshakes, replies, and connections given up on. *)
LEMMA ServerBlocking ==
    ASSUME BlockingInv, RpcInv', NEW d \in Call, Connects(d) \/ ServerReplies(d) \/ ServerDrops(d)
    PROVE  BlockingInv'
<1>0. TypeOK /\ RpcInv
  BY DEF BlockingInv, RpcInv
<1>1. PICK k : k = conn'[d]
  OBVIOUS
<1>2. conn' \in [Call -> Connection] /\ conn \in [Call -> Connection] /\ conn[d] \in Connection
  BY <1>0 DEF BlockingInv, RpcInv, TypeOK, Call
<1>3. k \in Connection
  BY <1>1, <1>2
<1>4. /\ k.value = conn[d].value /\ conn' = [conn EXCEPT ![d] = k]
      /\ UNCHANGED <<clientVars, req, counter>>
      /\ conn[d].state # "none" /\ k.state # "none"
      /\ \/ k.state = "open" /\ k.got = conn[d].got /\ k.out = conn[d].out /\ conn[d].state = "connecting"
         \/ k.state \in {"refused", "replied", "dropped"}
  <2>1. CASE Connects(d)
    <3>1. PICK s \in {"open", "refused"} : conn' = [conn EXCEPT ![d].state = s]
      BY <2>1 DEF Connects
    <3>2. k = [conn[d] EXCEPT !.state = s] /\ conn[d].state = "connecting"
      BY <1>1, <1>2, <2>1, <3>1 DEF Connects
    <3>3. /\ k.state = s /\ k.value = conn[d].value /\ k.got = conn[d].got /\ k.out = conn[d].out
      BY <1>2, <3>2 DEF Connection
    <3>4. conn' = [conn EXCEPT ![d] = k]
      BY <1>2, <3>1, <3>2
    <3> QED
      BY <2>1, <3>2, <3>3, <3>4 DEF Connects
  <2>2. CASE ServerReplies(d)
    <3>1. PICK e, r : e = <<>> /\ r = <<<<d, 1>>, <<d, 2>>>>
      OBVIOUS
    <3>2. /\ conn' = [conn EXCEPT ![d].state = "replied", ![d].got = e, ![d].in = r]
          /\ conn[d].state = "served"
      BY <2>2, <3>1 DEF ServerReplies
    <3>3. k = [conn[d] EXCEPT !.state = "replied", !.got = e, !.in = r]
      BY <1>1, <1>2, <3>2
    <3>4. k.state = "replied" /\ k.value = conn[d].value
      BY <1>2, <3>3 DEF Connection
    <3>5. conn' = [conn EXCEPT ![d] = k]
      BY <1>2, <3>2, <3>3
    <3> QED
      BY <2>2, <3>2, <3>4, <3>5 DEF ServerReplies
  <2>3. CASE ServerDrops(d)
    <3>1. PICK e : e = <<>>
      OBVIOUS
    <3>2. /\ conn' = [conn EXCEPT ![d].state = "dropped", ![d].out = e]
          /\ conn[d].state = "open"
      BY <2>3, <3>1 DEF ServerDrops
    <3>3. k = [conn[d] EXCEPT !.state = "dropped", !.out = e]
      BY <1>1, <1>2, <3>2
    <3>4. k.state = "dropped" /\ k.value = conn[d].value
      BY <1>2, <3>3 DEF Connection
    <3>5. conn' = [conn EXCEPT ![d] = k]
      BY <1>2, <3>2, <3>3
    <3> QED
      BY <2>3, <3>2, <3>4, <3>5 DEF ServerDrops
  <2> QED
    BY <2>1, <2>2, <2>3
<1>5. SentSame(d) /\ SentOK(d)
  BY <1>1, <1>4 DEF SentSame, BlockingInv, SentWell, clientVars
<1>6. SentOK(d)'
  BY <1>5, SentStays
<1> QED
  BY <1>3, <1>4, <1>6, NetBlocking

LEMMA ServerReadsBlocking ==
    ASSUME BlockingInv, RpcInv', NEW d \in Call, ServerReads(d)
    PROVE  BlockingInv'
<1>0. TypeOK /\ RpcInv
  BY DEF BlockingInv, RpcInv
<1>1. PICK h : h = conn[d]
  OBVIOUS
<1>2. /\ h \in Connection /\ h.state = "open" /\ h.out # <<>> /\ h.out \in Seq(Int)
      /\ h.got \in Seq(Int)
  BY <1>0, <1>1, ConnFacts DEF ServerReads
<1>3. PICK a, b, x, y : a = h.got /\ b = h.out /\ x = Append(h.got, Head(h.out)) /\ y = Tail(h.out)
  OBVIOUS
<1>4. x \in Seq(Int) /\ y \in Seq(Int)
  BY <1>2, <1>3
<1>5. PICK k : k = [h EXCEPT !.got = x, !.out = y]
  OBVIOUS
<1>6. k \in Connection /\ k.state = "open" /\ k.got = x /\ k.out = y /\ k.value = h.value
  BY <1>2, <1>4, <1>5 DEF Connection
<1>7. conn' = [conn EXCEPT ![d] = k]
  <2>1. conn' = [conn EXCEPT ![d].got = x, ![d].out = y]
    BY <1>1, <1>3 DEF ServerReads
  <2> QED
    BY <1>1, <1>5, <2>1
<1>8. UNCHANGED <<clientVars, req, counter>>
  BY DEF ServerReads
<1>9. conn'[d] = k
  BY <1>0, <1>6, <1>7, ConnAfter
<1>10. SentOK(d)
  BY DEF BlockingInv, SentWell
<1>11. /\ req[d].sent = Len(a) + Len(b)
       /\ \A n \in DOMAIN a : Piece(d, n, a[n])
       /\ \A n \in DOMAIN b : Piece(d, Len(a) + n, b[n])
       /\ Uploads(d) /\ h.value # None => \E S \in SUBSET {expects[d]} : h.value = Value(S)
  BY <1>1, <1>2, <1>3, <1>10 DEF SentOK
<1>12. /\ a \in Seq(Int) /\ b \in Seq(Int) /\ b # <<>> /\ Len(a) \in Nat /\ Len(b) \in Nat \ {0}
       /\ x = Append(a, b[1]) /\ Len(x) = Len(a) + 1 /\ Len(y) = Len(b) - 1
       /\ 1 \in DOMAIN b
  BY <1>2, <1>3
<1>13. \A n \in DOMAIN x : (n \in DOMAIN a /\ x[n] = a[n]) \/ (n = Len(a) + 1 /\ x[n] = b[1])
  <2>1. DOMAIN x = 1 .. Len(a) + 1
    BY <1>12
  <2> QED
    BY <1>12, <2>1
<1>14. \A n \in DOMAIN y : n + 1 \in DOMAIN b /\ y[n] = b[n + 1] /\ n \in Nat
  BY <1>2, <1>3, <1>12
<1>15. \A n \in DOMAIN x : Piece(d, n, x[n])
  BY <1>11, <1>12, <1>13
<1>16. \A n \in DOMAIN y : Piece(d, Len(x) + n, y[n])
  <2> SUFFICES ASSUME NEW n \in DOMAIN y PROVE Piece(d, Len(x) + n, y[n])
    OBVIOUS
  <2>1. Piece(d, Len(a) + (n + 1), b[n + 1]) /\ y[n] = b[n + 1] /\ n \in Nat
    BY <1>11, <1>14
  <2>2. Len(x) + n = Len(a) + (n + 1)
    BY <1>12, <2>1
  <2> QED
    BY <2>1, <2>2
<1>17. req[d].sent = Len(x) + Len(y)
  BY <1>11, <1>12
<1>18. UNCHANGED <<calls, expects, req>>
  BY <1>8 DEF clientVars
<1>19. Uploads(d)' = Uploads(d) /\ \A n, z : Piece(d, n, z)' = Piece(d, n, z)
  BY <1>18 DEF Uploads, Piece, Made, Op, Anything
<1>20. SentOK(d)'
  <2>1. (conn[d].state \in {"none", "connecting", "open"} =>
           /\ req[d].sent = Len(conn[d].got) + Len(conn[d].out)
           /\ \A n \in DOMAIN conn[d].got : Piece(d, n, conn[d].got[n])
           /\ \A n \in DOMAIN conn[d].out : Piece(d, Len(conn[d].got) + n, conn[d].out[n]))'
    <3>1. conn'[d].got = x /\ conn'[d].out = y /\ req'[d].sent = req[d].sent
      BY <1>6, <1>9, <1>18
    <3> QED
      BY <1>15, <1>16, <1>17, <1>19, <3>1
  <2>2. (Uploads(d) /\ conn[d].value # None =>
           \E S \in SUBSET {expects[d]} : conn[d].value = Value(S))'
    BY <1>6, <1>9, <1>11, <1>18, <1>19 DEF None, Value
  <2>3. conn'[d].state # "none"
    BY <1>6, <1>9
  <2> QED
    BY <2>1, <2>2, <2>3 DEF SentOK
<1> QED
  BY <1>1, <1>6, <1>7, <1>8, <1>20, NetBlocking

(* A call takes the counter's lock: it is the last, and those before it    *)
(* that it must not overtake are done.                                     *)
LEMMA StubLocksBlocking ==
    ASSUME BlockingInv, RpcInv', NEW t \in Thread, StubLocks(t)
    PROVE  BlockingInv'
<1>0. TypeOK /\ Pieces /\ Made \subseteq Call /\ OrderWell /\ CountsWell /\ RpcInv /\ MarksWell
  BY MadeFacts DEF BlockingInv, RpcInv
<1>1. PICK c, n, f, w : /\ c = Top(t).call /\ n = Len(order) /\ w = "marks"
                        /\ f = [Top(t) EXCEPT !.at = w]
  OBVIOUS
<1>2. /\ At(t, "stub", {"locks"}) /\ StubWaitsFor(t) = {} /\ order' = Append(order, c) /\ Goes(t, w)
      /\ UNCHANGED <<calls, task, announced, contents, expects, req, conn, counter>>
  BY <1>1 DEF StubLocks, netVars
<1>3. /\ stack[t] # <<>> /\ Top(t).op = "stub" /\ Top(t).at = "locks" /\ c \in Made /\ c \in Call
      /\ Len(stack[t]) \in DOMAIN stack[t] /\ Top(t) = stack[t][Len(stack[t])]
      /\ FrameOK(t, Len(stack[t]), Top(t)) /\ CallOK(c) /\ Top(t) \in Frame
  BY <1>0, <1>1, <1>2, AtFacts
<1>4. /\ task[c] = "stub" /\ conn[c].state = "none" /\ conn[c].value = None
  <2>1. task[c] = "stub" /\ conn[c].state = "none"
    BY <1>1, <1>3 DEF FrameOK, CallOK
  <2>2. ReplyOK(c)
    BY <1>0, <1>3 DEF RpcInv, ReplyWell
  <2> QED
    BY <2>1, <2>2 DEF ReplyOK
<1>5. Numbered(c) /\ c \notin ToSet(order)
  <2>1. StubFits(Top(t))
    BY <1>0, <1>3 DEF OrderWell
  <2> QED
    BY <1>1, <1>3, <2>1 DEF StubFits
<1>6. /\ order \in Seq(Made) /\ n \in Nat /\ DOMAIN order = 1 .. n
      /\ Len(order') = n + 1 /\ DOMAIN order' = 1 .. n + 1
      /\ \A i \in DOMAIN order : order'[i] = order[i] /\ order[i] \in Made /\ order[i] # c
      /\ order'[n + 1] = c
  <2>1. order \in Seq(Made) /\ n \in Nat /\ DOMAIN order = 1 .. n
    BY <1>0, <1>1 DEF TypeOK
  <2>2. \A i \in DOMAIN order : order[i] # c
    BY <1>5 DEF ToSet
  <2> QED
    BY <1>1, <1>2, <1>3, <2>1, <2>2
<1>7. ToSet(order') = ToSet(order) \cup {c}
  BY <1>6 DEF ToSet
<1>8. \A i \in DOMAIN order : "step" \in {Op(order[i]), Op(c)} => task[order[i]] = "done"
  <2>1. Conflicts(c) = {}
    BY <1>1, <1>2, <1>3 DEF StubWaitsFor
  <2>2. \A i \in DOMAIN order : order[i] \in ToSet(order)
    BY DEF ToSet
  <2> QED
    BY <2>1, <2>2 DEF Conflicts
<1>9. NewTop(f) /\ f.op = "stub" /\ f.at = "marks" /\ f.call = c
  <2>1. w \in {"locks", "marks", "body", "lock", "connect", "go", "data", "POLLOUT",
               "POLLIN", "payload", "complete"}
    BY <1>1
  <2> QED
    BY <1>0, <1>1, <1>2, <1>3, <2>1, GoesNew
<1>10. /\ \A d : Numbered(d)' <=> Numbered(d)
       /\ \A d : Op(d)' = Op(d)
       /\ Made' = Made
  BY <1>2 DEF Numbered, Op, Made
<1>11. OrderWell'
  <2>1. (\A i, j \in DOMAIN order : order[i] = order[j] => i = j)'
    BY <1>0, <1>6 DEF OrderWell
  <2>2. (\A i \in DOMAIN order : order[i] \in Made /\ Numbered(order[i]) /\ task[order[i]] # "none")'
    BY <1>0, <1>2, <1>3, <1>4, <1>5, <1>6, <1>10 DEF OrderWell
  <2>3. (\A u \in Thread : \A i \in DOMAIN stack[u] : StubFits(stack[u][i]))'
    <3> SUFFICES ASSUME NEW u \in Thread, NEW i \in DOMAIN stack'[u], NEW g, g = stack'[u][i],
                        g.op = "stub"
                 PROVE  /\ g.at = "locks" => Numbered(g.call)
                        /\ Numbered(g.call) => (g.call \in ToSet(order') <=> g.at # "locks")
      BY <1>10 DEF StubFits, ToSet
    <3>1. CASE g = f
      BY <1>7, <1>9, <3>1
    <3>2. CASE g # f
      <4>1. i \in DOMAIN stack[u] /\ g = stack[u][i]
        BY <1>9, <3>2 DEF NewTop
      <4>2. StubFits(g) /\ FrameOK(u, i, g)
        BY <1>0, <4>1 DEF OrderWell, Pieces, FramesWell
      <4>3. g.call # c
        <5> SUFFICES ASSUME g.call = c PROVE FALSE
          OBVIOUS
        <5>1. i = 1 /\ calls[c].by = u /\ Len(stack[t]) = 1 /\ calls[c].by = t
          BY <1>1, <1>3, <4>2 DEF FrameOK
        <5>2. stack'[t][1] = f
          BY <1>1, <1>2, <1>3, <5>1, <1>0, GoesFacts DEF TypeOK, StackType
        <5> QED
          BY <3>2, <5>1, <5>2
      <4> QED
        BY <1>7, <4>2, <4>3 DEF StubFits
    <3> QED
      BY <3>1, <3>2
  <2>4. (\A d \in Made : Numbered(d) /\ task[d] \in {"running", "done"} => d \in ToSet(order))'
    <3>1. \A d \in Made : Numbered(d) /\ task[d] \in {"running", "done"} => d \in ToSet(order')
      BY <1>0, <1>7 DEF OrderWell
    <3> QED
      BY <1>2, <1>10, <3>1 DEF ToSet
  <2>5. (\A i, j \in DOMAIN order :
            i < j /\ "step" \in {Op(order[i]), Op(order[j])} => task[order[i]] = "done")'
    <3> SUFFICES ASSUME NEW i \in 1 .. n + 1, NEW j \in 1 .. n + 1, i < j,
                        "step" \in {Op(order'[i]), Op(order'[j])}
                 PROVE  task[order'[i]] = "done"
      BY <1>2, <1>6, <1>10
    <3>1. i \in DOMAIN order /\ order'[i] = order[i]
      BY <1>6
    <3>2. CASE j = n + 1
      BY <1>6, <1>8, <3>1, <3>2
    <3>3. CASE j # n + 1
      <4>1. j \in DOMAIN order /\ order'[j] = order[j]
        BY <1>6, <3>3
      <4> QED
        BY <1>0, <3>1, <4>1 DEF OrderWell
    <3> QED
      BY <3>2, <3>3
  <2> QED
    BY <2>1, <2>2, <2>3, <2>4, <2>5 DEF OrderWell
<1>12. CountsWell'
  <2>1. \A m \in 0 .. n : Steps(m)' = Steps(m)
    <3> SUFFICES ASSUME NEW m \in 0 .. n PROVE Steps(m)' = Steps(m)
      OBVIOUS
    <3>1. \A j \in 1 .. m : Counted(j)' <=> Counted(j)
      BY <1>2, <1>6, <1>10 DEF Counted
    <3> QED
      BY <3>1 DEF Steps
  <2>2. Steps(n + 1)' = Steps(n)
    <3>1. \A j \in 1 .. n : Counted(j)' <=> Counted(j)
      BY <1>2, <1>6, <1>10 DEF Counted
    <3>2. ~Counted(n + 1)'
      BY <1>2, <1>4, <1>6 DEF Counted, None
    <3>3. \A j : j \in 1 .. n + 1 <=> (j \in 1 .. n \/ j = n + 1)
      BY <1>6
    <3> QED
      BY <3>1, <3>2, <3>3 DEF Steps
  <2>3. (counter = Cardinality(Steps(Len(order))))'
    <3>1. PICK m : m = n + 1
      OBVIOUS
    <3>2. Steps(m)' = Steps(n) /\ Len(order)' = m
      BY <1>6, <2>2, <3>1 DEF Steps, Counted
    <3>3. Steps(Len(order))' = Steps(n)
      BY <3>2 DEF Steps
    <3> QED
      BY <1>0, <1>1, <1>2, <3>3 DEF CountsWell
  <2>4. (\A i \in DOMAIN order :
            conn[order[i]].value # None => conn[order[i]].value = Value(Cardinality(Steps(i))))'
    <3> SUFFICES ASSUME NEW i \in 1 .. n + 1, conn[order'[i]].value # None
                 PROVE  conn[order'[i]].value = Value(Cardinality(Steps(i)'))
      BY <1>2, <1>6 DEF Value, None
    <3>1. i # n + 1
      BY <1>4, <1>6
    <3>2. i \in DOMAIN order /\ order'[i] = order[i] /\ i \in 0 .. n
      BY <1>6, <3>1
    <3> QED
      BY <1>0, <2>1, <3>2 DEF CountsWell
  <2> QED
    BY <2>3, <2>4 DEF CountsWell
<1>13. SentWell'
  <2>1. \A d \in Call : SentSame(d)
    BY <1>2 DEF SentSame
  <2>2. \A d \in Call : SentOK(d)'
    BY <2>1, SentAll
  <2> SUFFICES ASSUME NEW d \in Call' PROVE SentOK(d)'
    BY DEF SentWell
  <2>3. d \in Call
    BY DEF Call
  <2> QED
    BY <2>2, <2>3
<1>14. MarksWell'
  <2>1. DataFits(f)
    BY <1>9 DEF DataFits
  <2>2. \A d \in Made : expects'[d] = expects[d] /\ req'[d].result = req[d].result
    BY <1>2
  <2>3. \A d \in Made : task'[d] = "running" <=> task[d] = "running"
    BY <1>2
  <2>4. announced' \subseteq announced
    BY <1>2
  <2> QED
    BY <1>0, <1>2, <1>9, <2>1, <2>2, <2>3, <2>4, MarksStay
<1> QED
  BY <1>11, <1>12, <1>13, <1>14 DEF BlockingInv

(* What the server has read is the command and the payload in order. *)
LEMMA WholeCommand ==
    ASSUME BlockingInv, NEW d \in Call, conn[d].state = "open", Len(conn[d].got) = Total(d)
    PROVE  /\ d \in Made /\ Rpc(d) /\ task[d] = "running" /\ conn[d].value = None
           /\ SubSeq(conn[d].got, 1, CommandLen) = [i \in 1 .. CommandLen |-> i]
           /\ Uploads(d) => ToSet(SubSeq(conn[d].got, CommandLen + 1, Total(d))) \subseteq {expects[d]}
<1>0. TypeOK /\ RpcInv /\ CallOK(d) /\ OwnOK(d) /\ ReplyOK(d) /\ SentOK(d)
  BY CallFacts DEF BlockingInv, RpcInv, SentWell
<1>1. req[d].published /\ d \in Made /\ Rpc(d) /\ req[d].result = None /\ conn[d].value = None
  BY <1>0 DEF CallOK, OwnOK, ReplyOK
<1>2. task[d] = "running"
  BY <1>0, <1>1 DEF CallOK
<1>3. PICK g, m, k : g = conn[d].got /\ m = CommandLen /\ k = Total(d)
  OBVIOUS
<1>4. g \in Seq(Int) /\ m \in Nat /\ k \in Nat /\ m =< k /\ k = Len(g)
  <2>1. g \in Seq(Int)
    BY <1>0, <1>3, ConnFacts
  <2>2. calls[d].len \in Nat
    BY <1>0, <1>1, MadeFacts DEF CallType
  <2> QED
    BY <1>3, <2>1, <2>2, Sizes DEF Total
<1>5. \A n \in DOMAIN g : Piece(d, n, g[n])
  BY <1>0, <1>3 DEF SentOK
<1>6. \A n \in 1 .. m : g[n] = n
  BY <1>3, <1>4, <1>5 DEF Piece
<1>7. SubSeq(g, 1, m) = [i \in 1 .. m |-> i]
  <2>1. SubSeq(g, 1, m) \in Seq(Int) /\ Len(SubSeq(g, 1, m)) = m
        /\ \A i \in 1 .. m : SubSeq(g, 1, m)[i] = g[i]
    BY <1>4
  <2> QED
    BY <1>4, <1>6, <2>1
<1>8. Uploads(d) => \A n \in m + 1 .. k : g[n] = expects[d]
  <2> SUFFICES ASSUME Uploads(d), NEW n \in m + 1 .. k PROVE g[n] = expects[d]
    OBVIOUS
  <2>1. n \in DOMAIN g /\ n > m
    BY <1>4
  <2> QED
    BY <1>3, <1>5, <2>1 DEF Piece
<1>9. Uploads(d) => ToSet(SubSeq(g, m + 1, k)) \subseteq {expects[d]}
  <2> SUFFICES ASSUME Uploads(d), NEW x \in ToSet(SubSeq(g, m + 1, k)) PROVE x = expects[d]
    OBVIOUS
  <2>1. PICK a : a = m + 1
    OBVIOUS
  <2>2. a \in Nat /\ a >= 1
    BY <1>4, <2>1
  <2>3. PICK i \in DOMAIN SubSeq(g, a, k) : x = SubSeq(g, a, k)[i]
    BY <2>1 DEF ToSet
  <2>4. x = g[a + i - 1] /\ a + i - 1 \in a .. k
    BY <1>4, <2>2, <2>3
  <2> QED
    BY <1>8, <2>1, <2>4
<1> QED
  BY <1>1, <1>2, <1>3, <1>7, <1>9

LEMMA StepsFinite ==
    ASSUME NEW n \in Nat
    PROVE  IsFiniteSet(Steps(n)) /\ Cardinality(Steps(n)) \in Nat
<1>1. IsFiniteSet(1 .. n)
  BY FS_Interval
<1>2. Steps(n) \subseteq 1 .. n
  BY DEF Steps
<1>3. IsFiniteSet(Steps(n))
  BY <1>1, <1>2, FS_Subset
<1> QED
  BY <1>3, FS_CardinalityType

(* The counter under the server's lock: the call that is served is the     *)
(* last of those it conflicts with.                                        *)
LEMMA ServesCounts ==
    ASSUME TypeOK, OrderWell, CountsWell, UNCHANGED <<calls, order>>, NEW d \in Made,
           task[d] = "running", conn[d].value = None,
           \A c \in Call : c # d => conn'[c].value = conn[c].value,
           counter' = IF Op(d) = "step" THEN counter + 1 ELSE counter,
           Op(d) # "read", conn'[d].value # None,
           Numbered(d) => conn'[d].value = Value(counter')
    PROVE  CountsWell'
<1>0. PICK n : n = Len(order)
  OBVIOUS
<1>1. /\ order \in Seq(Made) /\ n \in Nat /\ DOMAIN order = 1 .. n
      /\ \A j \in DOMAIN order : order[j] \in Call /\ order[j] \in Made
  BY <1>0, MadeFacts DEF TypeOK
<1>2. CASE ~Numbered(d)
  <2>1. counter' = counter
    BY <1>2 DEF Numbered
  <2>2. \A j \in DOMAIN order : order[j] # d
    BY <1>2 DEF OrderWell
  <2>3. \A j \in DOMAIN order : conn'[order[j]].value = conn[order[j]].value
    BY <1>1, <2>2
  <2> QED
    BY <2>1, <2>3, CountsStay
<1>3. CASE Numbered(d)
  <2>1. PICK i \in DOMAIN order : order[i] = d
    BY <1>3 DEF OrderWell, ToSet
  <2>2. \A j \in DOMAIN order : j # i => order[j] # d /\ conn'[order[j]].value = conn[order[j]].value
    BY <1>1, <2>1 DEF OrderWell
  <2>3. \A j \in DOMAIN order : i < j => Op(order[j]) # "step" /\ Op(d) # "step"
    BY <2>1 DEF OrderWell
  <2>4. /\ \A j \in DOMAIN order : j # i => (Counted(j)' <=> Counted(j))
        /\ Counted(i)' <=> Op(d) = "step"
        /\ ~Counted(i)
    BY <2>1, <2>2 DEF Counted, Op, None
  <2>5. \A m \in 0 .. n : m < i => Steps(m)' = Steps(m)
    <3> SUFFICES ASSUME NEW m \in 0 .. n, m < i PROVE Steps(m)' = Steps(m)
      OBVIOUS
    <3>1. \A j \in 1 .. m : j \in DOMAIN order /\ j # i
      BY <1>1
    <3> QED
      BY <2>4, <3>1 DEF Steps
  <2>6. counter = Cardinality(Steps(n))
    BY <1>0 DEF CountsWell
  <2>7. CASE Op(d) # "step"
    <3>1. counter' = counter
      BY <2>7
    <3>2. \A m \in 0 .. n : Steps(m)' = Steps(m)
      <4> SUFFICES ASSUME NEW m \in 0 .. n PROVE Steps(m)' = Steps(m)
        OBVIOUS
      <4>1. \A j \in 1 .. m : Counted(j)' <=> Counted(j)
        BY <1>1, <2>4, <2>7
      <4> QED
        BY <4>1 DEF Steps
    <3>3. Steps(i) = Steps(n)
      <4>1. \A j \in 1 .. n : j > i => ~Counted(j)
        BY <1>1, <2>3 DEF Counted
      <4>2. \A j : j \in 1 .. i <=> j \in 1 .. n /\ ~(j > i)
        BY <1>1
      <4> QED
        BY <4>1, <4>2 DEF Steps
    <3>4. (counter = Cardinality(Steps(Len(order))))'
      <4>1. Steps(n)' = Steps(n)
        BY <1>1, <3>2
      <4>2. Steps(Len(order))' = Steps(n)
        BY <1>0, <4>1 DEF Steps
      <4> QED
        BY <2>6, <3>1, <4>2
    <3>5. (\A j \in DOMAIN order :
              conn[order[j]].value # None => conn[order[j]].value = Value(Cardinality(Steps(j))))'
      <4> SUFFICES ASSUME NEW j \in DOMAIN order, conn'[order[j]].value # None
                   PROVE  conn'[order[j]].value = Value(Cardinality(Steps(j)'))
        BY DEF Value, None
      <4>1. Steps(j)' = Steps(j)
        BY <1>1, <3>2
      <4>2. CASE j = i
        BY <1>3, <2>1, <2>6, <3>1, <3>3, <4>1, <4>2
      <4>3. CASE j # i
        BY <2>2, <4>1, <4>3 DEF CountsWell
      <4> QED
        BY <4>2, <4>3
    <3> QED
      BY <3>4, <3>5 DEF CountsWell
  <2>8. CASE Op(d) = "step"
    <3>1. i = n /\ n \in 1 .. n
      <4>1. n \in DOMAIN order /\ i =< n
        BY <1>1, <2>1
      <4>2. ~(i < n)
        BY <2>3, <2>8, <4>1
      <4> QED
        BY <1>1, <2>1, <4>1, <4>2
    <3>2. counter' = counter + 1
      BY <2>8
    <3>3. Steps(n)' = Steps(n) \cup {n}
      <4>1. \A j \in 1 .. n : j # n => (Counted(j)' <=> Counted(j))
        BY <1>1, <2>4, <3>1
      <4>2. Counted(n)'
        BY <2>4, <2>8, <3>1
      <4> QED
        BY <3>1, <4>1, <4>2 DEF Steps
    <3>4. n \notin Steps(n)
      BY <2>4, <3>1 DEF Steps
    <3>5. Cardinality(Steps(n) \cup {n}) = Cardinality(Steps(n)) + 1
      <4>1. PICK S : S = Steps(n)
        OBVIOUS
      <4>2. IsFiniteSet(S) /\ n \notin S
        BY <1>1, <3>4, <4>1, StepsFinite
      <4>3. Cardinality(S \cup {n}) = Cardinality(S) + 1
        BY <4>2, FS_AddElement
      <4> QED
        BY <4>1, <4>3
    <3>6. counter' = Cardinality(Steps(n)')
      BY <2>6, <3>2, <3>3, <3>5
    <3>7. (counter = Cardinality(Steps(Len(order))))'
      <4>1. Steps(Len(order))' = Steps(n)'
        BY <1>0 DEF Steps
      <4> QED
        BY <3>6, <4>1
    <3>8. (\A j \in DOMAIN order :
              conn[order[j]].value # None => conn[order[j]].value = Value(Cardinality(Steps(j))))'
      <4> SUFFICES ASSUME NEW j \in DOMAIN order, conn'[order[j]].value # None
                   PROVE  conn'[order[j]].value = Value(Cardinality(Steps(j)'))
        BY DEF Value, None
      <4>1. CASE j = i
        BY <1>3, <2>1, <3>1, <3>6, <4>1
      <4>2. CASE j # i
        <5>1. j < i /\ j \in 0 .. n
          BY <1>1, <3>1, <4>2
        <5>2. Steps(j)' = Steps(j)
          BY <2>5, <5>1
        <5> QED
          BY <2>2, <4>2, <5>2 DEF CountsWell
      <4> QED
        BY <4>1, <4>2
    <3> QED
      BY <3>7, <3>8 DEF CountsWell
  <2> QED
    BY <2>7, <2>8
<1> QED
  BY <1>2, <1>3

LEMMA ServerServesBlocking ==
    ASSUME BlockingInv, RpcInv', NEW d \in Call, ServerServes(d)
    PROVE  BlockingInv'
<1>0. TypeOK /\ OrderWell /\ CountsWell /\ RpcInv /\ MarksWell /\ Made \subseteq Call
  BY MadeFacts DEF BlockingInv, RpcInv
<1>1. conn[d].state = "open" /\ Len(conn[d].got) = Total(d) /\ UNCHANGED <<clientVars, req, open>>
  BY DEF ServerServes
<1>2. PICK payload : payload = ToSet(SubSeq(conn[d].got, CommandLen + 1, Total(d)))
  OBVIOUS
<1>3. /\ d \in Made /\ Rpc(d) /\ task[d] = "running" /\ conn[d].value = None
      /\ SubSeq(conn[d].got, 1, CommandLen) = [i \in 1 .. CommandLen |-> i]
      /\ Uploads(d) => payload \subseteq {expects[d]}
  BY <1>1, <1>2, WholeCommand
<1>4. PICK v : /\ counter' = IF Op(d) = "step" THEN counter + 1 ELSE counter
               /\ v = IF Op(d) = "put" THEN Value(payload) ELSE Value(counter')
               /\ conn' = [conn EXCEPT ![d].state = "served", ![d].value = v]
  BY <1>2, <1>3 DEF ServerServes
<1>5. conn[d] \in Connection /\ conn \in [Call -> Connection]
  BY <1>0 DEF TypeOK
<1>6. conn'[d] = [conn[d] EXCEPT !.state = "served", !.value = v]
      /\ \A c \in Call : c # d => conn'[c] = conn[c]
  BY <1>4, <1>5
<1>7. conn'[d].state = "served" /\ conn'[d].value = v
  BY <1>5, <1>6 DEF Connection
<1>8. UNCHANGED <<calls, stack, task, order, announced, contents, expects, req>>
  BY <1>1 DEF clientVars
<1>9. v # None
  BY <1>4, AnswerFacts
<1>10. CountsWell'
  <2>1. Op(d) # "read" /\ Numbered(d) => v = Value(counter')
    BY <1>3, <1>4 DEF Rpc, Numbered
  <2>2. \A c \in Call : c # d => conn'[c].value = conn[c].value
    BY <1>6
  <2>3. Op(d) # "read"
    BY <1>3 DEF Rpc
  <2> QED
    BY <1>0, <1>3, <1>4, <1>7, <1>8, <1>9, <2>1, <2>2, <2>3, ServesCounts
<1>11. Plain
  BY <1>8, PlainSame
<1>12. PICK f : NewTop(f) /\ StubFits(f) /\ DataFits(f)
  BY <1>11, PlainFits
<1>13. OrderWell'
  <2>1. \A c \in Made : TaskMoves(c)
    BY <1>8 DEF TaskMoves
  <2> QED
    BY <1>0, <1>8, <1>12, <2>1, OrderStays
<1>14. MarksWell'
  <2>1. \A c \in Made : expects'[c] = expects[c] /\ req'[c].result = req[c].result
    BY <1>8
  <2>2. \A c \in Made : task'[c] = "running" <=> task[c] = "running"
    BY <1>8
  <2>3. announced' \subseteq announced
    BY <1>8
  <2> QED
    BY <1>0, <1>8, <1>12, <2>1, <2>2, <2>3, MarksStay
<1>15. SentWell'
  <2> SUFFICES ASSUME NEW c \in Call' PROVE SentOK(c)'
    BY DEF SentWell
  <2>1. c \in Call
    BY DEF Call
  <2>2. CASE c # d
    <3>1. SentSame(c) /\ SentOK(c)
      BY <1>6, <1>8, <2>1, <2>2 DEF SentSame, BlockingInv, SentWell
    <3> QED
      BY <2>1, <3>1, SentStays
  <2>3. CASE c = d
    <3>1. Uploads(c)' = Uploads(c)
      BY <1>8 DEF Uploads, Made, Op, Anything
    <3>2. (Uploads(c) /\ conn[c].value # None =>
             \E S \in SUBSET {expects[c]} : conn[c].value = Value(S))'
      <4> SUFFICES ASSUME Uploads(d) PROVE \E S \in SUBSET {expects[d]} : v = Value(S)
        BY <1>7, <1>8, <2>3, <3>1 DEF Value
      <4> QED
        BY <1>3, <1>4 DEF Uploads
    <3> QED
      BY <1>7, <2>3, <3>2 DEF SentOK
  <2> QED
    BY <2>2, <2>3
<1> QED
  BY <1>10, <1>13, <1>14, <1>15 DEF BlockingInv

-----------------------------------------------------------------------------
LEMMA InitBlocking == Init => BlockingInv
<1> SUFFICES ASSUME Init PROVE BlockingInv
  OBVIOUS
<1>1. RpcInv
  BY InitInv
<1>2. /\ DOMAIN order = {} /\ Len(order) = 0 /\ announced = {} /\ counter = 0
      /\ \A t \in Thread : DOMAIN stack[t] = {}
      /\ \A c \in Call : task[c] = "none" /\ conn[c] = NoConn /\ req[c].sent = 0
  BY DEF Init
<1>3. TypeOK /\ Made \subseteq Call
  BY <1>1, MadeFacts DEF RpcInv
<1>4. OrderWell
  BY <1>2, <1>3 DEF OrderWell
<1>5. CountsWell
  <2>1. Steps(0) = {}
    BY DEF Steps
  <2>2. Cardinality({}) = 0
    BY FS_EmptySet
  <2> QED
    BY <1>2, <2>1, <2>2 DEF CountsWell
<1>6. SentWell
  <2> SUFFICES ASSUME NEW c \in Call PROVE SentOK(c)
    BY DEF SentWell
  <2>1. /\ conn[c].got = <<>> /\ conn[c].out = <<>> /\ conn[c].value = None
    BY <1>2 DEF NoConn
  <2>2. Len(conn[c].got) = 0 /\ Len(conn[c].out) = 0 /\ req[c].sent = 0
        /\ DOMAIN conn[c].got = {} /\ DOMAIN conn[c].out = {}
    BY <1>2, <2>1
  <2> QED
    BY <2>1, <2>2 DEF SentOK
<1>7. MarksWell
  <2>1. \A o : Owners(o) = {} /\ Writers(o) = {}
    BY <1>2, <1>3 DEF Owners, Writers
  <2> QED
    BY <1>2, <1>3, <2>1 DEF MarksWell, OneWriter, UploadOK, FilledOK
<1> QED
  BY <1>1, <1>4, <1>5, <1>6, <1>7 DEF BlockingInv

LEMMA StutterBlocking ==
    ASSUME BlockingInv, RpcInv', UNCHANGED vars
    PROVE  BlockingInv'
<1>1. UNCHANGED <<calls, stack, task, order, announced, contents, expects, req, conn, counter>>
  BY DEF vars, clientVars, netVars
<1>2. Plain
  BY <1>1, PlainSame
<1>3. announced' \subseteq announced
      /\ \A c \in Call : req'[c].sent = req[c].sent /\ req'[c].result = req[c].result
  BY <1>1
<1> QED
  BY <1>1, <1>2, <1>3, PlainQuiet

LEMMA NextBlocking ==
    ASSUME BlockingInv, [Next]_vars
    PROVE  BlockingInv'
<1>0. RpcInv'
  BY NextInv DEF BlockingInv
<1>1. ASSUME NEW t \in Thread, Turn(t) \/ PollLocks(t) PROVE BlockingInv'
  BY <1>0, <1>1, StubLocksBlocking, StubMarksBlocking, StubWaitsBlocking, SubmitsBlocking,
     SubmitConnectsBlocking, WaitForReadBlocking, SendsBlocking, ChecksPayloadBlocking,
     ReceivesBlocking, AwaitsBlocking, CompletesBlocking, PollLocksBlocking DEF Turn
<1>2. ASSUME NEW t \in Thread, NEW c \in Made, StubBegins(t, c) PROVE BlockingInv'
  BY <1>0, <1>2, StubBeginsBlocking
<1>3. ASSUME NEW t \in Thread, NEW c \in Made, NEW m \in {"CHECK", "PROGRESS", "BLOCK"},
             ProgramPolls(t, c, m)
      PROVE  BlockingInv'
  BY <1>0, <1>3, ProgramPollsBlocking
<1>4. ASSUME NEW o \in Obj, Store(o) \/ Announce(o) \/ Resolve(o) PROVE BlockingInv'
  BY <1>0, <1>4, ProgramMarksBlocking
<1>5. ASSUME NEW c \in Call, ReadLands(c) \/ Connects(c) \/ Serves(c) \/ ServerDrops(c)
      PROVE  BlockingInv'
  BY <1>0, <1>5, ReadLandsBlocking, ServerBlocking, ServerReadsBlocking, ServerServesBlocking
     DEF Serves
<1> QED
  BY <1>0, <1>1, <1>2, <1>3, <1>4, <1>5, StutterBlocking DEF Next

(* Every step and every get is answered as if the calls were made one      *)
(* after the other in the order of the counter's lock, and a put uploads   *)
(* what the call that filled its payload left there: for all programs,     *)
(* threads, sizes of commands, payloads and socket buffers, and failures.  *)
THEOREM CallsAsIfBlocking == Spec => []AsIfBlocking
<1>1. Init => BlockingInv
  BY InitBlocking
<1>2. BlockingInv /\ [Next]_vars => BlockingInv'
  BY NextBlocking
<1>3. BlockingInv => AsIfBlocking
  <2> SUFFICES ASSUME BlockingInv PROVE AsIfBlocking
    OBVIOUS
  <2>0. TypeOK /\ CountsWell /\ SentWell /\ Made \subseteq Call /\ \A c \in Call : OwnOK(c)
    BY MadeFacts, OwnReplyIs DEF BlockingInv, RpcInv
  <2>1. \A c \in Call : req[c].result \notin {None, Error} => req[c].result = conn[c].value
    BY <2>0 DEF OwnOK
  <2>2. ASSUME NEW i \in DOMAIN order, NEW c, c = order[i], req[c].result \notin {None, Error}
        PROVE  req[c].result = Value(Cardinality({j \in 1 .. i : /\ Op(order[j]) = "step"
                                                               /\ conn[order[j]].value # None}))
    <3>1. c \in Call
      BY <2>0, <2>2 DEF TypeOK
    <3>2. conn[c].value = Value(Cardinality(Steps(i))) /\ req[c].result = conn[c].value
      BY <2>0, <2>1, <2>2, <3>1 DEF CountsWell
    <3> QED
      BY <3>2 DEF Steps, Counted
  <2>3. ASSUME NEW c \in Made, Op(c) = "put", req[c].result \notin {None, Error},
               expects[c] # Anything
        PROVE  req[c].result[2] \subseteq {expects[c]}
    <3>1. req[c].result = conn[c].value /\ SentOK(c) /\ Uploads(c)
      BY <2>0, <2>1, <2>3 DEF SentWell, Uploads
    <3>2. PICK S \in SUBSET {expects[c]} : req[c].result = Value(S)
      BY <2>3, <3>1 DEF SentOK
    <3>3. Value(S)[2] = S
      BY DEF Value
    <3> QED
      BY <3>2, <3>3
  <2> QED
    BY <2>2, <2>3 DEF AsIfBlocking
<1> QED
  BY <1>1, <1>2, <1>3, PTL DEF Spec

=============================================================================
