--------------------------- MODULE Trackers_proofs ---------------------------
(***************************************************************************)
(* Tagged requests for any number of threads, requests and slots and any   *)
(* length of a tracker's queue. RequestsInv says what the slots and the    *)
(* ring have of each request, TrackInv what the trackers know of those     *)
(* that are still to be done; together they are inductive.                 *)
(***************************************************************************)
EXTENDS Trackers, FiniteSetTheorems, TLAPS

Tracked == [req : Op, kind : Kinds]

TaggedCall == [req : Op, kind : Kinds, by : Thread]

Frame ==
    {Idle}
    \cup [op : {"scan"}, kind : Kinds, i : Nat \ {0}, keep : Seq(Tracked)]
    \cup [op : {"track"}, req : Op, kind : Kinds]
    \cup [op : {"result"}, req : Op]

Record == [req : Op \cup {NoOp}, state : {"free", "pending", "done"}, result : Op \cup {NoOp}]

Position == [at : Nat, tail : Nat, hit : {"no", "yes", "half"}, on : BOOLEAN]

-----------------------------------------------------------------------------
(* What the slots, the ring and the drains have of a request. *)

Live(o) == at[o] # NoSlot /\ got[o] = {}
InCq(o) == \E i \in 1 .. Len(cq) : cq[i] = o
InFree(s) == \E i \in 1 .. Len(free) : free[i] = s

\* Its completion has reached its user, or will.
Applied(o) ==
    \/ o \in struck
    \/ got[o] = {o}
    \/ Live(o) /\ slot[at[o]] = [req |-> o, state |-> "done", result |-> o]

RequestsTypeOK ==
    /\ slot \in [Slot -> Record]
    /\ free \in Seq(Slot)
    /\ at \in [Op -> Slot \cup {NoSlot}]
    /\ got \in [Op -> SUBSET (Op \cup {NoOp})]
    /\ queued \in SUBSET Op
    /\ kernel \in SUBSET Op
    /\ cq \in Seq(Op)
    /\ head \in 0 .. Len(cq)
    /\ wait \in [Thread -> [slot : Slot \cup {NoSlot}, sent : BOOLEAN]]
    /\ drain \in [Thread -> Position]
    /\ struck \in SUBSET Op

\* A slot is once in the free list.
FreeOnce == \A i, j \in 1 .. Len(free) : free[i] = free[j] => i = j

\* A request that is not collected has its slot, and the slot is in use.
SlotsHold ==
    \A o \in Op :
        /\ at[o] # NoSlot => slot[at[o]].req \in Op
        /\ Live(o) => /\ slot[at[o]].req = o
                      /\ slot[at[o]].state \in {"pending", "done"}
                      /\ ~InFree(at[o])

\* What is done or collected was completed, and has its own result.
OwnResults ==
    \A o \in Op \ struck :
        /\ Live(o) /\ slot[at[o]].state = "done" => slot[at[o]].result = o /\ InCq(o)
        /\ got[o] # {} => got[o] = {o} /\ InCq(o)

\* Where in the ring a request is.
RingHas ==
    /\ queued \cap kernel = {}
    /\ \A o \in Op :
        /\ o \in queued \cup kernel => at[o] # NoSlot /\ ~InCq(o)
        /\ InCq(o) \/ got[o] # {} => at[o] # NoSlot

\* What a drain has been past is applied.
DrainsApply ==
    \A th \in Thread :
        LET d == drain[th]
            o == cq[d.at + 1] IN
        /\ d.at =< d.tail /\ d.tail =< Len(cq)
        /\ d.hit # "no" => d.at < d.tail
        /\ d.hit = "half" /\ Live(o) /\ o \notin struck => slot[at[o]].result = o
        /\ \A i \in 1 .. d.at : Applied(cq[i])

HeadApplied == \A i \in 1 .. head : Applied(cq[i])

\* Whoever collects a request has the lock, and stops waiting when it is done.
CollectsDone ==
    \A th \in Thread :
        /\ pc[th].op = "idle" => wait[th] = NoWait
        /\ pc[th].op = "result" =>
              /\ holder = th
              /\ Live(pc[th].req)
              /\ wait[th] # NoWait => wait[th].slot = at[pc[th].req]
              /\ wait[th] = NoWait => slot[at[pc[th].req]].state # "pending"

RequestsInv ==
    /\ RequestsTypeOK
    /\ FreeOnce
    /\ SlotsHold
    /\ OwnResults
    /\ RingHas
    /\ DrainsApply
    /\ HeadApplied
    /\ CollectsDone

-----------------------------------------------------------------------------
(* What the trackers know. *)

\* Still to be done, as far as fasync_token_wait can tell.
Busy(o) == o \in queued \cup kernel /\ o \notin struck

TrackTypeOK ==
    /\ q \in [Thread -> Seq(Tracked)]
    /\ pc \in [Thread -> Frame]
    /\ tagged \in Seq(TaggedCall)

\* What is tagged or tracked was issued.
Issued ==
    /\ \A i \in 1 .. Len(tagged) : at[tagged[i].req] # NoSlot
    /\ \A th \in Thread : \A k \in 1 .. Len(q[th]) : at[q[th][k].req] # NoSlot
    /\ \A th \in Thread : pc[th].op = "scan" =>
          \A k \in 1 .. Len(pc[th].keep) : at[pc[th].keep[k].req] # NoSlot
    /\ \A th \in Thread : pc[th].op = "track" => at[pc[th].req] # NoSlot

\* A tagged request that is busy is in its tracker, or on its way there.
TrackerHasIt ==
    \A i \in 1 .. Len(tagged) : Busy(tagged[i].req) =>
        \/ \E k \in 1 .. Len(q[tagged[i].by]) :
              /\ q[tagged[i].by][k].req = tagged[i].req
              /\ q[tagged[i].by][k].kind = tagged[i].kind
        \/ /\ pc[tagged[i].by].op = "track"
           /\ pc[tagged[i].by].req = tagged[i].req
           /\ pc[tagged[i].by].kind = tagged[i].kind

\* What a scan has been past is not busy, or does not conflict and is kept.
ScanKeeps ==
    \A th \in Thread : pc[th].op = "scan" =>
        \A k \in 1 .. Len(q[th]) :
            k < pc[th].i /\ Busy(q[th][k].req) =>
                /\ ~token_conflicts(q[th][k].kind, pc[th].kind)
                /\ \E m \in 1 .. Len(pc[th].keep) : pc[th].keep[m] = q[th][k]

TrackInv ==
    /\ TrackTypeOK
    /\ Issued
    /\ TrackerHasIt
    /\ ScanKeeps
    /\ TaggedOrder

TrackerInv == RequestsInv /\ TrackInv

-----------------------------------------------------------------------------
(* The kinds of frames, told apart by op. *)
LEMMA FrameFacts ==
    ASSUME NEW f \in Frame
    PROVE  /\ f.op \in {"idle", "scan", "track", "result"}
           /\ f.op = "idle" <=> f = Idle
           /\ f.op \in {"track", "result"} => f.req \in Op
           /\ f.op \in {"scan", "track"} => f.kind \in Kinds
           /\ f.op = "scan" => f.i \in Nat \ {0} /\ f.keep \in Seq(Tracked)
BY SMT DEF Frame, Idle

LEMMA PcFacts ==
    ASSUME TrackTypeOK, NEW th \in Thread
    PROVE  /\ pc[th] \in Frame
           /\ pc[th].op \in {"idle", "scan", "track", "result"}
           /\ pc[th].op = "idle" <=> pc[th] = Idle
           /\ pc[th].op \in {"track", "result"} => pc[th].req \in Op
           /\ pc[th].op \in {"scan", "track"} => pc[th].kind \in Kinds
           /\ pc[th].op = "scan" => pc[th].i \in Nat \ {0} /\ pc[th].keep \in Seq(Tracked)
<1>1. pc[th] \in Frame
  BY DEF TrackTypeOK
<1> QED
  BY <1>1, FrameFacts

(* The elements of the sequences. *)
LEMMA ElementFacts ==
    ASSUME TrackTypeOK
    PROVE  /\ Len(tagged) \in Nat
           /\ \A i \in 1 .. Len(tagged) :
                 tagged[i].req \in Op /\ tagged[i].kind \in Kinds /\ tagged[i].by \in Thread
           /\ \A x \in Thread : /\ Len(q[x]) \in Nat
                                /\ \A k \in 1 .. Len(q[x]) : q[x][k] \in Tracked /\ q[x][k].req \in Op
           /\ \A x \in Thread : pc[x].op = "scan" =>
                 /\ Len(pc[x].keep) \in Nat
                 /\ \A k \in 1 .. Len(pc[x].keep) : pc[x].keep[k] \in Tracked /\ pc[x].keep[k].req \in Op
<1>1. \A e \in Tracked : e.req \in Op
  BY DEF Tracked
<1>2. \A e \in TaggedCall : e.req \in Op /\ e.kind \in Kinds /\ e.by \in Thread
  BY DEF TaggedCall
<1>3. \A x \in Thread : q[x] \in Seq(Tracked)
  BY DEF TrackTypeOK
<1>4. \A s \in Seq(Tracked) : Len(s) \in Nat /\ \A k \in 1 .. Len(s) : s[k] \in Tracked
  OBVIOUS
<1>5. \A s \in Seq(TaggedCall) : Len(s) \in Nat /\ \A k \in 1 .. Len(s) : s[k] \in TaggedCall
  OBVIOUS
<1>7. Len(tagged) \in Nat /\ \A i \in 1 .. Len(tagged) : tagged[i] \in TaggedCall
  BY <1>5 DEF TrackTypeOK
<1> QED
  BY <1>1, <1>2, <1>3, <1>4, <1>7, PcFacts

LEMMA InitTracker == Init => TrackerInv
<1> SUFFICES ASSUME Init PROVE TrackerInv
  OBVIOUS
<1> USE DEF Init
<1>1. \A th \in Thread : pc[th].op = "idle" /\ q[th] = <<>>
  BY DEF Idle
<1>2. free \in Seq(Slot) /\ FreeOnce
  <2>1. Cardinality(Slot) \in Nat
    BY SlotsFinite, FS_CardinalityType
  <2>2. free \in [1 .. Cardinality(Slot) -> Slot] /\ \A i, j \in DOMAIN free : free[i] = free[j] => i = j
    OBVIOUS
  <2>3. free \in Seq(Slot)
    BY <2>1, <2>2
  <2>4. DOMAIN free = 1 .. Len(free)
    BY <2>3
  <2> QED
    BY <2>2, <2>3, <2>4 DEF FreeOnce
<1>3. RequestsTypeOK
  BY <1>2 DEF RequestsTypeOK, Record, Position, NoDrain, NoWait
<1>4. SlotsHold /\ OwnResults /\ RingHas /\ CollectsDone
  BY <1>1, NoSlotIsNot DEF SlotsHold, OwnResults, RingHas, CollectsDone, Live, InCq
<1>5. DrainsApply /\ HeadApplied
  BY DEF DrainsApply, HeadApplied, NoDrain
<1>6. TrackTypeOK
  BY DEF TrackTypeOK, Frame
<1>7. Issued /\ TrackerHasIt /\ ScanKeeps /\ TaggedOrder
  BY <1>1 DEF Issued, TrackerHasIt, ScanKeeps, TaggedOrder
<1> QED
  BY <1>2, <1>3, <1>4, <1>5, <1>6, <1>7 DEF TrackerInv, RequestsInv, TrackInv

-----------------------------------------------------------------------------
(* What follows for one request: busy is pending, and a completed request  *)
(* that is not pending is applied.                                         *)
LEMMA BusyPending ==
    ASSUME RequestsInv, NEW o \in Op, Busy(o)
    PROVE  Pending(o)
<1>1. at[o] # NoSlot /\ ~InCq(o) /\ o \notin struck
  BY DEF Busy, RequestsInv, RingHas
<1>2. got[o] = {}
  BY <1>1 DEF RequestsInv, OwnResults
<1>3. Live(o)
  BY <1>1, <1>2 DEF Live
<1>4. slot[at[o]].req = o /\ slot[at[o]].state \in {"pending", "done"}
  BY <1>3 DEF RequestsInv, SlotsHold
<1>5. slot[at[o]].state # "done"
  BY <1>1, <1>3 DEF RequestsInv, OwnResults
<1> QED
  BY <1>1, <1>4, <1>5 DEF Pending

LEMMA OverApplied ==
    ASSUME RequestsInv, NEW o \in Op, InCq(o), ~Pending(o)
    PROVE  Applied(o)
<1>1. at[o] # NoSlot
  BY DEF RequestsInv, RingHas
<1>2. CASE o \in struck \/ got[o] # {}
  BY <1>2 DEF RequestsInv, OwnResults, Applied
<1>3. CASE o \notin struck /\ got[o] = {}
  <2>1. Live(o)
    BY <1>1, <1>3 DEF Live
  <2>2. slot[at[o]].req = o /\ slot[at[o]].state = "done"
    BY <1>1, <2>1 DEF RequestsInv, SlotsHold, Pending
  <2>3. slot[at[o]].result = o
    BY <1>3, <2>1, <2>2 DEF RequestsInv, OwnResults
  <2>4. at[o] \in Slot /\ slot[at[o]] \in Record
    BY <1>1 DEF RequestsInv, RequestsTypeOK
  <2>5. \A r \in Record : r.req = o /\ r.state = "done" /\ r.result = o
           => r = [req |-> o, state |-> "done", result |-> o]
    BY DEF Record
  <2> QED
    BY <2>1, <2>2, <2>3, <2>4, <2>5 DEF Applied
<1> QED
  BY <1>2, <1>3

(* The completions are of requests. *)
LEMMA CqFacts ==
    ASSUME RequestsTypeOK
    PROVE  /\ Len(cq) \in Nat /\ head \in Nat /\ head =< Len(cq)
           /\ \A i \in 1 .. Len(cq) : cq[i] \in Op /\ InCq(cq[i])
BY DEF RequestsTypeOK, InCq

-----------------------------------------------------------------------------
(* One step, and the requests. *)

(* Steps that only submit what is queued. *)
LEMMA SubmitRequests ==
    ASSUME RequestsInv,
           UNCHANGED <<slot, free, at, got, cq, head, holder, drain, struck>>,
           \/ queued' = {} /\ kernel' = kernel \cup queued
           \/ UNCHANGED <<queued, kernel>>,
           wait' \in [Thread -> [slot : Slot \cup {NoSlot}, sent : BOOLEAN]],
           CollectsDone'
    PROVE  RequestsInv'
<1> USE DEF RequestsInv
<1>1. RequestsTypeOK'
  BY DEF RequestsTypeOK
<1>2. RingHas'
  <2>1. queued' \cap kernel' = {} /\ queued' \cup kernel' = queued \cup kernel
    BY DEF RingHas, RequestsTypeOK
  <2> QED
    BY <2>1 DEF RingHas, InCq
<1>3. FreeOnce' /\ SlotsHold' /\ OwnResults'
  BY DEF FreeOnce, SlotsHold, OwnResults, Live, InCq, InFree
<1>4. DrainsApply' /\ HeadApplied'
  BY DEF DrainsApply, HeadApplied, Applied, Live
<1> QED
  BY <1>1, <1>2, <1>3, <1>4

LEMMA SubmitStep ==
    ASSUME TrackerInv, Submit
    PROVE  RequestsInv'
<1>1. CollectsDone'
  BY DEF TrackerInv, RequestsInv, CollectsDone, Submit, slotVars, threadVars, Live
<1> QED
  BY <1>1, SubmitRequests DEF TrackerInv, RequestsInv, RequestsTypeOK, Submit, slotVars, threadVars, pastVars

LEMMA WaitSubmitsStep ==
    ASSUME TrackerInv, NEW th \in Thread, WaitSubmits(th)
    PROVE  RequestsInv'
<1> DEFINE w == [wait[th] EXCEPT !.sent = TRUE]
<1>1. /\ ~wait[th].sent
      /\ wait' = [wait EXCEPT ![th] = w]
      /\ kernel' = kernel \cup queued /\ queued' = {}
      /\ UNCHANGED <<slot, free, at, got, cq, head, holder, pc, drain, struck>>
  BY DEF WaitSubmits, slotVars, pastVars
<1>2. wait[th] \in [slot : Slot \cup {NoSlot}, sent : BOOLEAN]
  BY DEF TrackerInv, RequestsInv, RequestsTypeOK
<1>3. w \in [slot : Slot \cup {NoSlot}, sent : BOOLEAN] /\ w.slot = wait[th].slot
  BY <1>2
<1>4. wait[th] # NoWait
  BY <1>1 DEF NoWait
<1> HIDE DEF w
<1>5. /\ wait' \in [Thread -> [slot : Slot \cup {NoSlot}, sent : BOOLEAN]]
      /\ wait'[th] = w /\ \A x \in Thread : x # th => wait'[x] = wait[x]
  BY <1>1, <1>3 DEF TrackerInv, RequestsInv, RequestsTypeOK
<1>6. CollectsDone'
  <2>0. \A x \in Thread : pc[x].op = "idle" => wait'[x] = NoWait
    BY <1>4, <1>5 DEF TrackerInv, RequestsInv, CollectsDone
  <2> SUFFICES ASSUME NEW x \in Thread, pc[x].op = "result"
               PROVE  /\ holder = x
                      /\ Live(pc[x].req)
                      /\ wait'[x] # NoWait => wait'[x].slot = at[pc[x].req]
                      /\ wait'[x] = NoWait => slot[at[pc[x].req]].state # "pending"
    BY <1>1, <2>0 DEF CollectsDone, Live
  <2>1. /\ holder = x /\ Live(pc[x].req)
        /\ wait[x] # NoWait => wait[x].slot = at[pc[x].req]
        /\ wait[x] = NoWait => slot[at[pc[x].req]].state # "pending"
    BY DEF TrackerInv, RequestsInv, CollectsDone
  <2>2. CASE x # th
    BY <1>5, <2>1, <2>2
  <2>3. CASE x = th
    <3>1. pc[x].req \in Op
      BY PcFacts DEF TrackerInv, TrackInv
    <3>2. at[pc[x].req] # NoSlot
      BY <2>1 DEF Live
    <3>3. w.slot = at[pc[x].req]
      BY <1>3, <1>4, <2>1, <2>3
    <3> QED
      BY <1>5, <2>1, <2>3, <3>2, <3>3 DEF NoWait
  <2> QED
    BY <2>2, <2>3
<1> QED
  BY <1>1, <1>5, <1>6, SubmitRequests DEF TrackerInv

LEMMA WaitEndsStep ==
    ASSUME TrackerInv, NEW th \in Thread, WaitEnds(th)
    PROVE  RequestsInv'
<1>1. /\ wait[th] # NoWait /\ slot[wait[th].slot].state # "pending"
      /\ wait' = [wait EXCEPT ![th] = NoWait]
      /\ UNCHANGED <<slot, free, at, got, queued, kernel, cq, head, holder, pc, drain, struck>>
  BY DEF WaitEnds, slotVars, ringVars, pastVars
<1>2. /\ wait' \in [Thread -> [slot : Slot \cup {NoSlot}, sent : BOOLEAN]]
      /\ wait'[th] = NoWait /\ \A x \in Thread : x # th => wait'[x] = wait[x]
  BY <1>1 DEF TrackerInv, RequestsInv, RequestsTypeOK, NoWait
<1>3. CollectsDone'
  BY <1>1, <1>2 DEF TrackerInv, RequestsInv, CollectsDone, Live
<1> QED
  BY <1>1, <1>2, <1>3, SubmitRequests DEF TrackerInv

(* Waiting for a tracked request. *)
LEMMA AwaitsStep ==
    ASSUME TrackerInv, NEW th \in Thread, NEW o \in Op, Pending(o), Awaits(th, at[o]),
           pc[th].op \notin {"idle", "result"},
           UNCHANGED <<slot, free, at, got, queued, kernel, cq, head, holder, pc, drain, struck>>
    PROVE  RequestsInv'
<1>1. /\ wait' \in [Thread -> [slot : Slot \cup {NoSlot}, sent : BOOLEAN]]
      /\ \A x \in Thread : x # th => wait'[x] = wait[x]
  BY DEF TrackerInv, RequestsInv, RequestsTypeOK, Awaits, Pending
<1>2. CollectsDone'
  BY <1>1 DEF TrackerInv, RequestsInv, CollectsDone, Live
<1> QED
  BY <1>1, <1>2, SubmitRequests DEF TrackerInv

(* Steps of a tagged call that change its frame only. *)
LEMMA FrameRequests ==
    ASSUME TrackerInv, NEW th \in Thread, NEW f,
           UNCHANGED <<slot, free, at, got, queued, kernel, cq, head, holder, wait, drain, struck>>,
           pc' = [pc EXCEPT ![th] = f], f.op # "result", f.op = "idle" => wait[th] = NoWait
    PROVE  RequestsInv'
<1>1. pc'[th] = f /\ \A x \in Thread : x # th => pc'[x] = pc[x]
  BY DEF TrackerInv, TrackInv, TrackTypeOK
<1>2. CollectsDone'
  BY <1>1 DEF TrackerInv, RequestsInv, CollectsDone, Live
<1> QED
  BY <1>2, SubmitRequests DEF TrackerInv, RequestsInv, RequestsTypeOK

LEMMA TagStep ==
    ASSUME TrackerInv, NEW th \in Thread, NEW kind \in Kinds, Tag(th, kind)
    PROVE  RequestsInv'
<1> DEFINE f == [op |-> "scan", kind |-> kind, i |-> 1, keep |-> <<>>]
<1>1. f.op = "scan"
  OBVIOUS
<1>2. /\ pc' = [pc EXCEPT ![th] = f]
      /\ UNCHANGED <<slot, free, at, got, queued, kernel, cq, head, holder, wait, drain, struck>>
  BY DEF Tag, Goes, slotVars, ringVars, pastVars
<1> HIDE DEF f
<1> QED
  BY <1>1, <1>2, FrameRequests

(* The frame of a scan that goes on. *)
LEMMA ScanOn ==
    ASSUME TrackTypeOK, NEW th \in Thread, pc[th].op = "scan", pc[th].i =< Len(q[th])
    PROVE  LET f == pc[th]
               e == q[th][f.i]
               g == Kept(f, e) IN
           /\ f.i \in 1 .. Len(q[th]) /\ e \in Tracked
           /\ g \in Frame
           /\ g.op = "scan" /\ g.kind = f.kind /\ g.i = f.i + 1
           /\ g.keep = IF Pending(e.req) THEN Append(f.keep, e) ELSE f.keep
<1> DEFINE f == pc[th]
           e == q[th][f.i]
           g == Kept(f, e)
<1>1. /\ f \in [op : {"scan"}, kind : Kinds, i : Nat \ {0}, keep : Seq(Tracked)]
      /\ f.i \in Nat \ {0} /\ f.keep \in Seq(Tracked) /\ f.kind \in Kinds
  <2>1. f \in Frame
    BY PcFacts
  <2> HIDE DEF f
  <2> QED
    BY <2>1 DEF Frame, Idle, f
<1>2. Len(q[th]) \in Nat /\ f.i \in 1 .. Len(q[th]) /\ e \in Tracked
  BY <1>1, ElementFacts
<1> DEFINE k == IF Pending(e.req) THEN Append(f.keep, e) ELSE f.keep
<1>3. k \in Seq(Tracked)
  BY <1>1, <1>2
<1>4. g = [f EXCEPT !.i = f.i + 1, !.keep = k]
  BY <1>1 DEF Kept
<1> HIDE DEF k, f
<1>5. g = [op |-> "scan", kind |-> f.kind, i |-> f.i + 1, keep |-> k]
  BY <1>1, <1>4
<1> HIDE DEF g
<1>6. f.i + 1 \in Nat \ {0}
  BY <1>1
<1>7. g \in Frame /\ g.op = "scan" /\ g.kind = f.kind /\ g.i = f.i + 1 /\ g.keep = k
  BY <1>1, <1>3, <1>5, <1>6 DEF Frame
<1> QED
  BY <1>2, <1>7 DEF f, g, k

LEMMA ScanStep ==
    ASSUME TrackerInv, NEW th \in Thread, Scan(th)
    PROVE  RequestsInv'
<1> DEFINE f == pc[th]
           e == q[th][f.i]
           g == Kept(f, e)
<1>1. /\ f.op = "scan" /\ f.i =< Len(q[th])
      /\ UNCHANGED <<slot, free, at, got, queued, kernel, cq, head, holder, drain, struck>>
      /\ \/ Pending(e.req) /\ Awaits(th, at[e.req]) /\ UNCHANGED pc
         \/ pc' = [pc EXCEPT ![th] = g] /\ UNCHANGED wait
  BY DEF Scan, Goes, slotVars, ringVars, pastVars
<1>2. e.req \in Op /\ g.op = "scan"
  BY <1>1, ScanOn DEF TrackerInv, TrackInv, Tracked
<1> HIDE DEF e, g
<1> QED
  BY <1>1, <1>2, AwaitsStep, FrameRequests

LEMMA TrackStep ==
    ASSUME TrackerInv, NEW th \in Thread, Track(th)
    PROVE  RequestsInv'
<1>1. /\ pc[th].op = "track"
      /\ UNCHANGED <<slot, free, at, got, queued, kernel, cq, head, holder, drain, struck>>
      /\ wait[th] = NoWait
      /\ \/ pc' = [pc EXCEPT ![th] = Idle] /\ UNCHANGED wait
         \/ /\ Len(q[th]) >= QLen /\ Pending(q[th][1].req)
            /\ Awaits(th, at[q[th][1].req]) /\ UNCHANGED pc
         \/ UNCHANGED <<pc, wait>>
  BY DEF Track, Goes, slotVars, ringVars, pastVars
<1>2. CASE pc' = [pc EXCEPT ![th] = Idle] /\ UNCHANGED wait
  BY <1>1, <1>2, FrameRequests DEF Idle
<1>3. CASE Len(q[th]) >= QLen /\ Pending(q[th][1].req) /\ Awaits(th, at[q[th][1].req]) /\ UNCHANGED pc
  <2>1. 1 \in 1 .. Len(q[th])
    BY <1>3, QLenPositive, ElementFacts DEF TrackerInv, TrackInv
  <2>2. q[th][1].req \in Op
    BY <2>1, ElementFacts DEF TrackerInv, TrackInv
  <2> QED
    BY <1>1, <1>3, <2>2, AwaitsStep
<1>4. CASE UNCHANGED <<pc, wait>>
  <2>1. CollectsDone'
    BY <1>1, <1>4 DEF TrackerInv, RequestsInv, CollectsDone, Live
  <2> QED
    BY <1>1, <1>4, <2>1, SubmitRequests DEF TrackerInv, RequestsInv, RequestsTypeOK
<1> QED
  BY <1>1, <1>2, <1>3, <1>4

LEMMA ResultStep ==
    ASSUME TrackerInv, NEW th \in Thread, NEW o \in Op, Result(th, o)
    PROVE  RequestsInv'
<1> USE DEF TrackerInv, RequestsInv
<1> DEFINE f == [op |-> "result", req |-> o]
<1>1. /\ holder = NoThread /\ holder' = th
      /\ pc' = [pc EXCEPT ![th] = f]
      /\ Live(o)
      /\ UNCHANGED <<slot, free, at, got, queued, kernel, cq, head, drain, struck>>
      /\ \/ Pending(o) /\ wait' = [wait EXCEPT ![th] = [slot |-> at[o], sent |-> FALSE]]
         \/ ~Pending(o) /\ UNCHANGED wait
  BY DEF Result, LockFree, Goes, Awaits, slotVars, ringVars, pastVars, Live
<1>2. f.op = "result" /\ f.req = o
  OBVIOUS
<1> HIDE DEF f
<1>3. pc'[th] = f /\ \A x \in Thread : x # th => pc'[x] = pc[x]
  BY <1>1 DEF TrackInv, TrackTypeOK
<1>4. at[o] \in Slot /\ slot[at[o]].req = o
  BY <1>1 DEF RequestsTypeOK, SlotsHold, Live
<1>5. \A x \in Thread : pc[x].op # "result"
  BY <1>1, NoThreadIsNot DEF CollectsDone
<1>6. CollectsDone'
  <2>0. \A x \in Thread : pc'[x].op = "idle" => wait'[x] = NoWait
    BY <1>1, <1>2, <1>3 DEF CollectsDone, RequestsTypeOK
  <2> SUFFICES ASSUME NEW x \in Thread, pc'[x].op = "result"
               PROVE  /\ th = x
                      /\ Live(o)
                      /\ wait'[x] # NoWait => wait'[x].slot = at[o]
                      /\ wait'[x] = NoWait => slot[at[o]].state # "pending"
    BY <1>1, <1>2, <1>3, <1>5, <2>0 DEF CollectsDone, Live
  <2>1. x = th
    BY <1>3, <1>5
  <2>2. CASE Pending(o) /\ wait' = [wait EXCEPT ![th] = [slot |-> at[o], sent |-> FALSE]]
    BY <1>1, <2>1, <2>2 DEF RequestsTypeOK, NoWait
  <2>3. CASE ~Pending(o) /\ UNCHANGED wait
    <3>1. pc[th].op = "idle"
      BY DEF Result, Idle
    <3> QED
      BY <1>1, <1>4, <2>1, <2>3, <3>1 DEF Pending, CollectsDone, Live
  <2> QED
    BY <1>1, <2>1, <2>2, <2>3
<1>7. RequestsTypeOK'
  <2> DEFINE w == [slot |-> at[o], sent |-> FALSE]
  <2>1. w \in [slot : Slot \cup {NoSlot}, sent : BOOLEAN]
    BY <1>4
  <2>2. wait' = [wait EXCEPT ![th] = w] \/ wait' = wait
    BY <1>1
  <2> HIDE DEF w
  <2>3. wait' \in [Thread -> [slot : Slot \cup {NoSlot}, sent : BOOLEAN]]
    BY <2>1, <2>2 DEF RequestsTypeOK
  <2>4. UNCHANGED <<slot, free, at, got, queued, kernel, cq, head, drain, struck>>
    BY <1>1
  <2> QED
    BY <2>3, <2>4 DEF RequestsTypeOK
<1>8. UNCHANGED <<slot, free, at, got, queued, kernel, cq, head, drain, struck>>
  BY <1>1
<1>9. FreeOnce' /\ SlotsHold' /\ OwnResults' /\ RingHas'
  BY <1>8 DEF FreeOnce, SlotsHold, OwnResults, RingHas, Live, InCq, InFree
<1>10. DrainsApply' /\ HeadApplied'
  BY <1>8 DEF DrainsApply, HeadApplied, Live, Applied
<1> QED
  BY <1>6, <1>7, <1>9, <1>10

LEMMA KernelStep ==
    ASSUME TrackerInv, NEW o \in Op, KernelCompletes(o)
    PROVE  RequestsInv'
<1> USE DEF TrackerInv, RequestsInv
<1>1. /\ o \in kernel /\ kernel' = kernel \ {o}
      /\ cq' = Append(cq, o)
      /\ UNCHANGED <<slot, free, at, got, queued, head, holder, pc, wait, drain, struck>>
  BY DEF KernelCompletes, slotVars, threadVars, pastVars
<1>2. /\ cq \in Seq(Op) /\ Len(cq) \in Nat
      /\ Len(cq') = Len(cq) + 1 /\ cq' \in Seq(Op)
      /\ \A i \in 1 .. Len(cq) : cq'[i] = cq[i]
      /\ cq'[Len(cq) + 1] = o
  BY <1>1 DEF RequestsTypeOK
<1>3. RequestsTypeOK'
  BY <1>1, <1>2 DEF RequestsTypeOK
<1>4. /\ \A r \in Op : InCq(r) => InCq(r)'
      /\ \A r \in Op : InCq(r)' => InCq(r) \/ r = o
  <2>1. \A i \in 1 .. Len(cq) : i \in 1 .. Len(cq')
    BY <1>2
  <2>2. \A i \in 1 .. Len(cq') : i \in 1 .. Len(cq) \/ i = Len(cq) + 1
    BY <1>2
  <2> QED
    BY <1>2, <2>1, <2>2 DEF InCq
<1>5. FreeOnce' /\ SlotsHold' /\ CollectsDone'
  BY <1>1 DEF FreeOnce, SlotsHold, CollectsDone, Live, InFree
<1>6. OwnResults'
  BY <1>1, <1>4 DEF OwnResults, Live
<1>7. RingHas'
  <2>1. o \notin queued /\ at[o] # NoSlot
    BY <1>1 DEF RingHas
  <2> QED
    BY <1>1, <1>4, <2>1 DEF RingHas
<1>8. DrainsApply'
  <2> SUFFICES ASSUME NEW x \in Thread
               PROVE  LET d == drain[x]
                          p == cq'[d.at + 1] IN
                      /\ d.at =< d.tail /\ d.tail =< Len(cq')
                      /\ d.hit # "no" => d.at < d.tail
                      /\ d.hit = "half" /\ Live(p) /\ p \notin struck => slot[at[p]].result = p
                      /\ \A i \in 1 .. d.at : Applied(cq'[i])
    BY <1>1 DEF DrainsApply, Applied, Live
  <2>1. LET d == drain[x]
            p == cq[d.at + 1] IN
        /\ d.at =< d.tail /\ d.tail =< Len(cq)
        /\ d.hit # "no" => d.at < d.tail
        /\ d.hit = "half" /\ Live(p) /\ p \notin struck => slot[at[p]].result = p
        /\ \A i \in 1 .. d.at : Applied(cq[i])
    BY DEF DrainsApply
  <2>2. drain[x].at \in Nat /\ drain[x].tail \in Nat
    BY DEF RequestsTypeOK, Position
  <2>3. \A i \in 1 .. drain[x].at : cq'[i] = cq[i]
    BY <1>2, <2>1, <2>2
  <2>4. drain[x].hit # "no" => cq'[drain[x].at + 1] = cq[drain[x].at + 1]
    BY <1>2, <2>1, <2>2
  <2> QED
    BY <1>2, <2>1, <2>2, <2>3, <2>4
<1>9. HeadApplied'
  <2>1. \A i \in 1 .. head : cq'[i] = cq[i]
    BY <1>2 DEF RequestsTypeOK
  <2>2. \A r : Applied(r) => Applied(r)'
    BY <1>1 DEF Applied, Live
  <2> QED
    BY <1>1, <2>1, <2>2 DEF HeadApplied
<1> QED
  BY <1>3, <1>5, <1>6, <1>7, <1>8, <1>9

(* Steps of a drain that write to no slot. *)
LEMMA LookRequests ==
    ASSUME TrackerInv, NEW th \in Thread, NEW d \in Position,
           UNCHANGED <<slot, free, at, got, queued, kernel, cq, holder, pc, wait, struck>>,
           drain' = [drain EXCEPT ![th] = d],
           d.at =< d.tail, d.tail =< Len(cq), d.hit # "half", d.hit # "no" => d.at < d.tail,
           \A i \in 1 .. d.at : Applied(cq[i]),
           head' \in 0 .. Len(cq), \A i \in 1 .. head' : Applied(cq[i])
    PROVE  RequestsInv'
<1> USE DEF TrackerInv, RequestsInv
<1>1. RequestsTypeOK'
  BY DEF RequestsTypeOK
<1>2. FreeOnce' /\ SlotsHold' /\ OwnResults' /\ RingHas' /\ CollectsDone'
  BY DEF FreeOnce, SlotsHold, OwnResults, RingHas, CollectsDone, Live, InCq, InFree
<1>3. DrainsApply'
  <2>1. drain'[th] = d /\ \A x \in Thread : x # th => drain'[x] = drain[x]
    BY DEF RequestsTypeOK
  <2>2. \A r : Applied(r) => Applied(r)'
    BY DEF Applied, Live
  <2> SUFFICES ASSUME NEW x \in Thread
               PROVE  LET e == drain'[x]
                          p == cq[e.at + 1] IN
                      /\ e.at =< e.tail /\ e.tail =< Len(cq)
                      /\ e.hit # "no" => e.at < e.tail
                      /\ e.hit = "half" /\ Live(p) /\ p \notin struck => slot[at[p]].result = p
                      /\ \A i \in 1 .. e.at : Applied(cq[i])
    BY <2>2 DEF DrainsApply, Live
  <2>3. CASE x = th
    BY <2>1, <2>3
  <2>4. CASE x # th
    BY <2>1, <2>4 DEF DrainsApply
  <2> QED
    BY <2>3, <2>4
<1>4. HeadApplied'
  BY DEF HeadApplied, Applied, Live
<1> QED
  BY <1>1, <1>2, <1>3, <1>4

LEMMA DrainBeginsStep ==
    ASSUME TrackerInv, NEW th \in Thread, DrainBegins(th)
    PROVE  RequestsInv'
<1> DEFINE d == [at |-> head, tail |-> Len(cq), hit |-> "no", on |-> TRUE]
<1>1. head \in Nat /\ Len(cq) \in Nat /\ head =< Len(cq)
  BY CqFacts DEF TrackerInv, RequestsInv
<1>2. drain' = [drain EXCEPT ![th] = d]
      /\ UNCHANGED <<slot, free, at, got, queued, kernel, cq, head, holder, pc, wait, struck>>
  BY DEF DrainBegins, slotVars, ringVars, pastVars
<1>3. d \in Position /\ d.at = head /\ d.tail = Len(cq) /\ d.hit = "no"
  BY <1>1 DEF Position
<1>4. \A i \in 1 .. head : Applied(cq[i])
  BY DEF TrackerInv, RequestsInv, HeadApplied
<1> HIDE DEF d
<1>5. /\ d.at =< d.tail /\ d.tail =< Len(cq) /\ d.hit # "half" /\ (d.hit # "no" => d.at < d.tail)
      /\ \A i \in 1 .. d.at : Applied(cq[i])
      /\ head' \in 0 .. Len(cq) /\ \A i \in 1 .. head' : Applied(cq[i])
  BY <1>1, <1>2, <1>3, <1>4
<1> QED
  BY <1>2, <1>3, <1>5, LookRequests

LEMMA DrainLooksStep ==
    ASSUME TrackerInv, NEW th \in Thread, DrainLooks(th)
    PROVE  RequestsInv'
<1> USE DEF TrackerInv, RequestsInv
<1> DEFINE d == drain[th]
<1>1. d \in Position
  BY DEF RequestsTypeOK
<1>2. PICK i \in d.at .. d.tail - 1 :
         /\ \A j \in d.at .. i - 1 : ~Pending(cq[j + 1])
         /\ drain' = [drain EXCEPT ![th] = [d EXCEPT !.at = i, !.hit = "yes"]]
  BY DEF DrainLooks
<1>3. UNCHANGED <<slot, free, at, got, queued, kernel, cq, head, holder, pc, wait, struck>>
  BY DEF DrainLooks, slotVars, ringVars, pastVars
<1>4. d.at \in Nat /\ d.tail \in Nat /\ i \in Nat /\ d.at =< i /\ i < d.tail
  BY <1>1, <1>2 DEF Position
<1> DEFINE e == [d EXCEPT !.at = i, !.hit = "yes"]
<1>5. e \in Position /\ e.at = i /\ e.tail = d.tail /\ e.hit = "yes"
  <2> HIDE DEF d
  <2> QED
    BY <1>1, <1>4 DEF Position
<1>6. d.tail =< Len(cq) /\ \A j \in 1 .. d.at : Applied(cq[j])
  BY DEF DrainsApply
<1>7. \A j \in 1 .. i : Applied(cq[j])
  <2> TAKE j \in 1 .. i
  <2>1. CASE j =< d.at
    BY <1>4, <1>6, <2>1
  <2>2. CASE j > d.at
    <3>1. j - 1 \in d.at .. i - 1 /\ (j - 1) + 1 = j /\ j \in 1 .. Len(cq)
      BY <1>4, <1>6, <2>2, CqFacts
    <3>2. ~Pending(cq[j])
      BY <1>2, <3>1
    <3> QED
      BY <3>1, <3>2, CqFacts, OverApplied
  <2> QED
    BY <1>4, <2>1, <2>2
<1>8. head' \in 0 .. Len(cq) /\ \A j \in 1 .. head' : Applied(cq[j])
  BY <1>3 DEF RequestsTypeOK, HeadApplied
<1>9. drain' = [drain EXCEPT ![th] = e]
  BY <1>2
<1> HIDE DEF e
<1>10. e.at =< e.tail /\ e.tail =< Len(cq) /\ e.hit # "half" /\ e.at < e.tail
  BY <1>4, <1>5, <1>6
<1> QED
  BY <1>3, <1>5, <1>7, <1>8, <1>9, <1>10, LookRequests

LEMMA DrainEndsStep ==
    ASSUME TrackerInv, NEW th \in Thread, DrainEnds(th)
    PROVE  RequestsInv'
<1> USE DEF TrackerInv, RequestsInv
<1> DEFINE d == drain[th]
<1>1. d \in Position
  BY DEF RequestsTypeOK
<1>2. /\ \A j \in d.at .. d.tail - 1 : ~Pending(cq[j + 1])
      /\ head' = d.tail
      /\ drain' = [drain EXCEPT ![th] = NoDrain]
      /\ UNCHANGED <<slot, free, at, got, queued, kernel, cq, holder, pc, wait, struck>>
  BY DEF DrainEnds, slotVars, pastVars
<1>3. d.at \in Nat /\ d.tail \in Nat
  BY <1>1 DEF Position
<1>4. d.tail =< Len(cq) /\ \A j \in 1 .. d.at : Applied(cq[j])
  BY DEF DrainsApply
<1>5. \A j \in 1 .. d.tail : Applied(cq[j])
  <2> TAKE j \in 1 .. d.tail
  <2>1. CASE j =< d.at
    BY <1>3, <1>4, <2>1
  <2>2. CASE j > d.at
    <3>1. j - 1 \in d.at .. d.tail - 1 /\ (j - 1) + 1 = j /\ j \in 1 .. Len(cq)
      BY <1>3, <1>4, <2>2, CqFacts
    <3>2. ~Pending(cq[j])
      BY <1>2, <3>1
    <3> QED
      BY <3>1, <3>2, CqFacts, OverApplied
  <2> QED
    BY <1>3, <2>1, <2>2
<1>6. head' \in 0 .. Len(cq)
  BY <1>2, <1>3, <1>4, CqFacts
<1>7. NoDrain \in Position /\ NoDrain.at = 0 /\ NoDrain.tail = 0 /\ NoDrain.hit = "no"
  BY DEF NoDrain, Position
<1>8. 0 =< Len(cq) /\ \A i \in 1 .. 0 : Applied(cq[i])
  BY CqFacts
<1>9. /\ NoDrain.at =< NoDrain.tail /\ NoDrain.tail =< Len(cq) /\ NoDrain.hit # "half"
      /\ (NoDrain.hit # "no" => NoDrain.at < NoDrain.tail)
      /\ \A i \in 1 .. NoDrain.at : Applied(cq[i])
  BY <1>7, <1>8
<1>10. \A j \in 1 .. head' : Applied(cq[j])
  BY <1>2, <1>5
<1> QED
  BY <1>2, <1>6, <1>7, <1>9, <1>10, LookRequests

(* What a drain writes for p to its slot, whoever has it: if that is       *)
(* another request, it is struck.                                          *)
LEMMA Writes ==
    ASSUME TrackerInv, NEW p \in Op, at[p] # NoSlot, InCq(p), NEW r \in Record,
           slot' = [slot EXCEPT ![at[p]] = r],
           r.req = slot[at[p]].req,
           r.state \in {slot[at[p]].state, "done"},
           r.result \in {slot[at[p]].result, p},
           Live(p) /\ p \notin struck /\ r.state = "done" => r.result = p,
           Strikes(p),
           UNCHANGED <<free, at, got, queued, kernel, cq, head, holder, pc, wait>>
    PROVE  /\ slot' \in [Slot -> Record] /\ struck' \in SUBSET Op
           /\ FreeOnce' /\ SlotsHold' /\ OwnResults' /\ RingHas' /\ CollectsDone'
           /\ struck \subseteq struck'
           /\ \A o \in Op : Applied(o) => Applied(o)'
           /\ \A o \in Op \ struck' : Live(o) /\ slot[at[o]].result = o => slot'[at[o]].result = o
<1> USE DEF TrackerInv, RequestsInv
<1> DEFINE s == at[p]
<1>1. s \in Slot /\ slot \in [Slot -> Record] /\ slot[s].req \in Op
  BY DEF RequestsTypeOK, SlotsHold
<1>2. /\ slot' \in [Slot -> Record]
      /\ slot'[s] = r /\ \A x \in Slot : x # s => slot'[x] = slot[x]
  BY <1>1
<1>3. struck' = struck \cup {x \in {slot[s].req} \ {p} : got[x] = {}}
  BY DEF Strikes
<1>4. struck' \in SUBSET Op /\ struck \subseteq struck'
  BY <1>1, <1>3 DEF RequestsTypeOK
\* Of the requests that are not struck only p can be in the slot.
<1>5. \A o \in Op : at[o] # NoSlot => at[o] \in Slot
  BY DEF RequestsTypeOK
<1>6. \A o \in Op \ struck' : Live(o) => o = p \/ slot'[at[o]] = slot[at[o]]
  <2> TAKE o \in Op \ struck'
  <2> HAVE Live(o)
  <2>1. slot[at[o]].req = o /\ at[o] \in Slot
    BY <1>5 DEF SlotsHold, Live
  <2>2. CASE at[o] = s
    <3>1. slot[s].req = o /\ got[o] = {}
      BY <2>1, <2>2 DEF Live
    <3> QED
      BY <1>3, <3>1
  <2>3. CASE at[o] # s
    BY <1>2, <2>1, <2>3
  <2> QED
    BY <2>2, <2>3
<1>7. \A o \in Op : Live(o)' <=> Live(o)
  BY DEF Live
<1>8. \A o \in Op : Live(o) =>
         /\ slot'[at[o]].req = slot[at[o]].req
         /\ slot'[at[o]].state \in {slot[at[o]].state, "done"}
  BY <1>2, <1>5 DEF Live
<1>9. SlotsHold'
  <2>1. \A o \in Op : at[o] # NoSlot => slot'[at[o]].req \in Op
    BY <1>1, <1>2, <1>5 DEF SlotsHold
  <2> QED
    BY <1>7, <1>8, <2>1 DEF SlotsHold, InFree
<1>10. OwnResults'
  <2> SUFFICES ASSUME NEW o \in Op \ struck'
               PROVE  /\ Live(o) /\ slot'[at[o]].state = "done" => slot'[at[o]].result = o /\ InCq(o)
                      /\ got[o] # {} => got[o] = {o} /\ InCq(o)
    BY DEF OwnResults, Live, InCq
  <2>1. o \in Op \ struck
    BY <1>4
  <2>2. ASSUME Live(o), slot'[at[o]].state = "done"
        PROVE  slot'[at[o]].result = o /\ InCq(o)
    <3>1. CASE o = p
      BY <1>2, <2>1, <2>2, <3>1
    <3>2. CASE slot'[at[o]] = slot[at[o]]
      BY <2>1, <2>2, <3>2 DEF OwnResults
    <3> QED
      BY <1>6, <2>2, <3>1, <3>2
  <2> QED
    BY <2>1, <2>2 DEF OwnResults
<1>11. RingHas' /\ FreeOnce'
  BY DEF RingHas, InCq, FreeOnce
<1>12. CollectsDone'
  <2> SUFFICES ASSUME NEW x \in Thread
               PROVE  /\ pc[x].op = "idle" => wait[x] = NoWait
                      /\ pc[x].op = "result" =>
                            /\ holder = x
                            /\ Live(pc[x].req)
                            /\ wait[x] # NoWait => wait[x].slot = at[pc[x].req]
                            /\ wait[x] = NoWait => slot'[at[pc[x].req]].state # "pending"
    BY DEF CollectsDone, Live
  <2>1. pc[x].op = "result" => pc[x].req \in Op
    BY PcFacts DEF TrackInv
  <2> QED
    BY <1>8, <2>1 DEF CollectsDone
<1>13. \A o \in Op \ struck' : Live(o) /\ slot[at[o]].result = o => slot'[at[o]].result = o
  BY <1>2, <1>6
<1>14. \A o \in Op : Applied(o) => Applied(o)'
  <2> TAKE o \in Op
  <2> HAVE Applied(o)
  <2>1. CASE o \in struck'
    BY <2>1 DEF Applied
  <2>2. CASE o \notin struck' /\ got[o] = {o}
    BY <2>2 DEF Applied
  <2>3. CASE o \notin struck' /\ got[o] # {o}
    <3>1. Live(o) /\ slot[at[o]] = [req |-> o, state |-> "done", result |-> o]
      BY <1>4, <2>3 DEF Applied
    <3>2. /\ slot'[at[o]] \in Record
          /\ slot'[at[o]].req = o /\ slot'[at[o]].state = "done" /\ slot'[at[o]].result = o
      <4>1. slot'[at[o]] \in Record
        BY <1>2, <1>5, <3>1 DEF Live
      <4> QED
        BY <1>8, <1>13, <2>3, <3>1, <4>1
    <3>3. \A z \in Record : z.req = o /\ z.state = "done" /\ z.result = o
             => z = [req |-> o, state |-> "done", result |-> o]
      BY DEF Record
    <3> QED
      BY <1>7, <3>1, <3>2, <3>3 DEF Applied
  <2> QED
    BY <2>1, <2>2, <2>3
<1> QED
  BY <1>2, <1>4, <1>9, <1>10, <1>11, <1>12, <1>13, <1>14

(* A drain's own record after such a write. *)
LEMMA DrainWrites ==
    ASSUME TrackerInv, NEW th \in Thread, NEW e \in Position,
           drain' = [drain EXCEPT ![th] = e],
           slot' \in [Slot -> Record], struck' \in SUBSET Op,
           UNCHANGED <<free, at, got, queued, kernel, cq, head, wait>>,
           FreeOnce', SlotsHold', OwnResults', RingHas', CollectsDone',
           struck \subseteq struck',
           \A o \in Op : Applied(o) => Applied(o)',
           \A o \in Op \ struck' : Live(o) /\ slot[at[o]].result = o => slot'[at[o]].result = o,
           e.at =< e.tail, e.tail =< Len(cq), e.hit # "no" => e.at < e.tail,
           LET p == cq[e.at + 1] IN
              e.hit = "half" /\ Live(p) /\ p \notin struck' => slot'[at[p]].result = p,
           \A i \in 1 .. e.at : Applied(cq[i])'
    PROVE  RequestsInv'
<1> USE DEF TrackerInv, RequestsInv
<1>1. RequestsTypeOK'
  BY DEF RequestsTypeOK
<1>2. drain'[th] = e /\ \A x \in Thread : x # th => drain'[x] = drain[x]
  BY DEF RequestsTypeOK
<1>3. \A i \in 1 .. Len(cq) : cq[i] \in Op
  BY CqFacts
<1>4. DrainsApply'
  <2> SUFFICES ASSUME NEW x \in Thread
               PROVE  LET d == drain'[x]
                          p == cq[d.at + 1] IN
                      /\ d.at =< d.tail /\ d.tail =< Len(cq)
                      /\ d.hit # "no" => d.at < d.tail
                      /\ d.hit = "half" /\ Live(p) /\ p \notin struck' => slot'[at[p]].result = p
                      /\ \A i \in 1 .. d.at : Applied(cq[i])'
    BY DEF DrainsApply, Live
  <2>1. CASE x = th
    BY <1>2, <2>1
  <2>2. CASE x # th
    <3> DEFINE d == drain[x]
               p == cq[d.at + 1]
    <3>1. /\ d.at =< d.tail /\ d.tail =< Len(cq)
          /\ d.hit # "no" => d.at < d.tail
          /\ d.hit = "half" /\ Live(p) /\ p \notin struck => slot[at[p]].result = p
          /\ \A i \in 1 .. d.at : Applied(cq[i])
      BY DEF DrainsApply
    <3>2. d.at \in Nat /\ d.tail \in Nat /\ Len(cq) \in Nat
      BY CqFacts DEF RequestsTypeOK, Position
    <3>3. d.hit = "half" => p \in Op
      BY <1>3, <3>1, <3>2
    <3>4. d.hit = "half" /\ Live(p) /\ p \notin struck' => slot'[at[p]].result = p
      BY <3>1, <3>3
    <3>5. \A i \in 1 .. d.at : Applied(cq[i])'
      BY <1>3, <3>1, <3>2
    <3> QED
      BY <1>2, <2>2, <3>1, <3>4, <3>5
  <2> QED
    BY <2>1, <2>2
<1>5. HeadApplied'
  <2>1. \A i \in 1 .. head : Applied(cq[i])'
    BY <1>3, CqFacts DEF HeadApplied
  <2> QED
    BY <2>1 DEF HeadApplied
<1> QED
  BY <1>1, <1>4, <1>5

LEMMA DrainResultStep ==
    ASSUME TrackerInv, NEW th \in Thread, DrainResult(th)
    PROVE  RequestsInv'
<1> USE DEF TrackerInv, RequestsInv
<1> DEFINE d == drain[th]
           o == cq[d.at + 1]
           r == [slot[at[o]] EXCEPT !.result = o]
           e == [d EXCEPT !.hit = "half"]
<1>1. d \in Position /\ d.hit = "yes"
  BY DEF RequestsTypeOK, DrainResult
<1>2. /\ slot' = [slot EXCEPT ![at[o]].result = o]
      /\ Strikes(o)
      /\ drain' = [drain EXCEPT ![th].hit = "half"]
      /\ UNCHANGED <<free, at, got, queued, kernel, cq, head, holder, pc, wait>>
  BY DEF DrainResult, ringVars
<1>3. d.at < d.tail /\ d.tail =< Len(cq) /\ d.at \in Nat /\ d.tail \in Nat /\ Len(cq) \in Nat
      /\ \A i \in 1 .. d.at : Applied(cq[i])
  BY <1>1, CqFacts DEF DrainsApply, Position
<1>4. o \in Op /\ InCq(o) /\ at[o] # NoSlot
  <2>1. d.at + 1 \in 1 .. Len(cq)
    BY <1>3
  <2>2. o \in Op /\ InCq(o)
    BY <2>1, CqFacts
  <2> QED
    BY <2>2 DEF RingHas
<1>5. at[o] \in Slot /\ slot[at[o]] \in Record
  BY <1>4 DEF RequestsTypeOK
<1>6. r \in Record /\ r.req = slot[at[o]].req /\ r.state = slot[at[o]].state /\ r.result = o
  <2> HIDE DEF o
  <2> QED
    BY <1>4, <1>5 DEF Record
<1>7. e \in Position /\ e.at = d.at /\ e.tail = d.tail /\ e.hit = "half"
  <2> HIDE DEF d
  <2> QED
    BY <1>1 DEF Position, e
<1>8. slot' = [slot EXCEPT ![at[o]] = r] /\ drain' = [drain EXCEPT ![th] = e]
  BY <1>2
<1> HIDE DEF o, r, e
<1>9. /\ slot' \in [Slot -> Record] /\ struck' \in SUBSET Op
      /\ FreeOnce' /\ SlotsHold' /\ OwnResults' /\ RingHas' /\ CollectsDone'
      /\ struck \subseteq struck'
      /\ \A x \in Op : Applied(x) => Applied(x)'
      /\ \A x \in Op \ struck' : Live(x) /\ slot[at[x]].result = x => slot'[at[x]].result = x
  BY <1>2, <1>4, <1>6, <1>8, Writes
<1>10. slot'[at[o]].result = o
  BY <1>5, <1>6, <1>8 DEF RequestsTypeOK
<1>11. \A i \in 1 .. e.at : Applied(cq[i])'
  BY <1>2, <1>3, <1>7, <1>9, CqFacts
<1>12. LET p == cq[e.at + 1] IN e.hit = "half" /\ Live(p) /\ p \notin struck' => slot'[at[p]].result = p
  BY <1>7, <1>10 DEF o
<1>13. e.at =< e.tail /\ e.tail =< Len(cq) /\ (e.hit # "no" => e.at < e.tail)
  BY <1>3, <1>7
<1> QED
  BY <1>2, <1>7, <1>8, <1>9, <1>11, <1>12, <1>13, DrainWrites

LEMMA DrainStateStep ==
    ASSUME TrackerInv, NEW th \in Thread, DrainState(th)
    PROVE  RequestsInv'
<1> USE DEF TrackerInv, RequestsInv
<1> DEFINE d == drain[th]
           o == cq[d.at + 1]
           r == [slot[at[o]] EXCEPT !.state = "done"]
           e == [d EXCEPT !.hit = "no", !.at = d.at + 1]
<1>1. d \in Position /\ d.hit = "half"
  BY DEF RequestsTypeOK, DrainState
<1>2. /\ slot' = [slot EXCEPT ![at[o]].state = "done"]
      /\ Strikes(o)
      /\ drain' = [drain EXCEPT ![th] = [d EXCEPT !.hit = "no", !.at = @ + 1]]
      /\ UNCHANGED <<free, at, got, queued, kernel, cq, head, holder, pc, wait>>
  BY DEF DrainState
<1>3. d.at < d.tail /\ d.tail =< Len(cq) /\ d.at \in Nat /\ d.tail \in Nat /\ Len(cq) \in Nat
      /\ (Live(o) /\ o \notin struck => slot[at[o]].result = o)
      /\ \A i \in 1 .. d.at : Applied(cq[i])
  BY <1>1, CqFacts DEF DrainsApply, Position
<1>4. o \in Op /\ InCq(o) /\ at[o] # NoSlot
  <2>1. d.at + 1 \in 1 .. Len(cq)
    BY <1>3
  <2>2. o \in Op /\ InCq(o)
    BY <2>1, CqFacts
  <2> QED
    BY <2>2 DEF RingHas
<1>5. at[o] \in Slot /\ slot[at[o]] \in Record
  BY <1>4 DEF RequestsTypeOK
<1>6. r \in Record /\ r.req = slot[at[o]].req /\ r.state = "done" /\ r.result = slot[at[o]].result
  <2> HIDE DEF o
  <2> QED
    BY <1>4, <1>5 DEF Record
<1>7. e \in Position /\ e.at = d.at + 1 /\ e.tail = d.tail /\ e.hit = "no"
  <2> DEFINE b == [d EXCEPT !.hit = "no"]
  <2>1. b \in Position /\ b.at = d.at /\ b.tail = d.tail /\ b.hit = "no"
    <3> HIDE DEF d
    <3> QED
      BY <1>1 DEF Position, b
  <2>2. e = [b EXCEPT !.at = d.at + 1]
    <3> HIDE DEF d
    <3> QED
      BY <1>1 DEF Position, b, e
  <2> HIDE DEF b, e, d
  <2> QED
    BY <1>3, <2>1, <2>2 DEF Position
<1>8. slot' = [slot EXCEPT ![at[o]] = r] /\ drain' = [drain EXCEPT ![th] = e]
  BY <1>2
<1> HIDE DEF o, r, e
<1>9. /\ slot' \in [Slot -> Record] /\ struck' \in SUBSET Op
      /\ FreeOnce' /\ SlotsHold' /\ OwnResults' /\ RingHas' /\ CollectsDone'
      /\ struck \subseteq struck'
      /\ \A x \in Op : Applied(x) => Applied(x)'
      /\ \A x \in Op \ struck' : Live(x) /\ slot[at[x]].result = x => slot'[at[x]].result = x
  BY <1>2, <1>3, <1>4, <1>6, <1>8, Writes
<1>10. slot'[at[o]].state = "done"
  BY <1>5, <1>6, <1>8 DEF RequestsTypeOK
<1>11. \A p \in Op : p = o => Applied(p)'
  <2> SUFFICES ASSUME NEW p \in Op, p = o PROVE Applied(p)'
    OBVIOUS
  <2>1. InCq(p)' /\ got' = got /\ at' = at
    BY <1>2, <1>4 DEF InCq
  <2>2. CASE p \in struck' \/ got[p] # {}
    BY <1>9, <2>1, <2>2 DEF OwnResults, Applied
  <2>3. CASE p \notin struck' /\ got[p] = {}
    <3>1. Live(p)'
      BY <1>4, <2>1, <2>3 DEF Live
    <3>2. slot'[at[p]].req = p /\ slot'[at[p]].result = p
      BY <1>9, <1>10, <2>1, <2>3, <3>1 DEF SlotsHold, OwnResults
    <3>3. \A z \in Record : z.req = p /\ z.state = "done" /\ z.result = p
             => z = [req |-> p, state |-> "done", result |-> p]
      BY DEF Record
    <3>4. slot'[at[p]] \in Record
      BY <1>5, <1>9
    <3> QED
      BY <1>10, <2>1, <3>1, <3>2, <3>3, <3>4 DEF Applied
  <2> QED
    BY <2>2, <2>3
<1>12. \A i \in 1 .. e.at : Applied(cq[i])'
  <2> TAKE i \in 1 .. e.at
  <2>1. CASE i = d.at + 1
    BY <1>2, <1>4, <1>11, <2>1 DEF o
  <2>2. CASE i # d.at + 1
    <3>1. i \in 1 .. d.at /\ i \in 1 .. Len(cq)
      BY <1>3, <1>7, <2>2
    <3> QED
      BY <1>2, <1>3, <1>9, <3>1, CqFacts
  <2> QED
    BY <2>1, <2>2
<1>13. e.at =< e.tail /\ e.tail =< Len(cq) /\ (e.hit # "no" => e.at < e.tail) /\ e.hit # "half"
  BY <1>3, <1>7
<1> QED
  BY <1>2, <1>7, <1>8, <1>9, <1>12, <1>13, DrainWrites

(* The rest of a free list, and one with a slot put back. *)
LEMMA FreeTail ==
    ASSUME NEW S, NEW f \in Seq(S), f # <<>>,
           \A i, j \in 1 .. Len(f) : f[i] = f[j] => i = j
    PROVE  /\ Head(f) \in S /\ Head(f) = f[1] /\ 1 \in 1 .. Len(f)
           /\ Tail(f) \in Seq(S)
           /\ \A i \in 1 .. Len(Tail(f)) : Tail(f)[i] = f[i + 1] /\ i + 1 \in 1 .. Len(f)
           /\ \A i \in 1 .. Len(Tail(f)) : Tail(f)[i] # Head(f)
           /\ \A i, j \in 1 .. Len(Tail(f)) : Tail(f)[i] = Tail(f)[j] => i = j
<1>1. Len(f) \in Nat \ {0} /\ Head(f) \in S /\ Head(f) = f[1] /\ Tail(f) \in Seq(S) /\ Len(Tail(f)) = Len(f) - 1
  OBVIOUS
<1>2. \A i \in 1 .. Len(Tail(f)) : Tail(f)[i] = f[i + 1] /\ i + 1 \in 1 .. Len(f)
  BY <1>1
<1>3. 1 \in 1 .. Len(f)
  BY <1>1
<1>4. \A i \in 1 .. Len(Tail(f)) : i \in Nat /\ i + 1 # 1
  BY <1>1
<1> QED
  BY <1>1, <1>2, <1>3, <1>4

LEMMA FreePut ==
    ASSUME NEW S, NEW f \in Seq(S), NEW s \in S,
           \A i, j \in 1 .. Len(f) : f[i] = f[j] => i = j,
           \A i \in 1 .. Len(f) : f[i] # s
    PROVE  LET g == <<s>> \o f IN
           /\ g \in Seq(S)
           /\ \A i \in 1 .. Len(g) : g[i] = s \/ \E k \in 1 .. Len(f) : g[i] = f[k]
           /\ \A i, j \in 1 .. Len(g) : g[i] = g[j] => i = j
<1> DEFINE g == <<s>> \o f
<1>1. Len(f) \in Nat /\ g \in Seq(S) /\ Len(g) = Len(f) + 1 /\ g[1] = s
  OBVIOUS
<1>2. \A i \in 1 .. Len(g) : i = 1 \/ (i - 1 \in 1 .. Len(f) /\ g[i] = f[i - 1])
  BY <1>1
<1> HIDE DEF g
<1>3. \A i, j \in 1 .. Len(g) : g[i] = g[j] => i = j
  <2> TAKE i, j \in 1 .. Len(g)
  <2> HAVE g[i] = g[j]
  <2>1. CASE i = 1 \/ j = 1
    BY <1>1, <1>2, <2>1
  <2>2. CASE i # 1 /\ j # 1
    <3>1. i - 1 = j - 1
      BY <1>2, <2>2
    <3> QED
      BY <1>1, <3>1
  <2> QED
    BY <2>1, <2>2
<1> QED
  BY <1>1, <1>2, <1>3 DEF g

LEMMA IssueStep ==
    ASSUME TrackerInv, NEW th \in Thread, Issue(th)
    PROVE  RequestsInv'
<1> USE DEF TrackerInv, RequestsInv
<1>1. /\ wait[th] = NoWait /\ pc[th].op = "scan"
      /\ UNCHANGED <<got, kernel, cq, head, holder, wait, drain, struck>>
  BY DEF Issue
<1>2. CASE pc' = [pc EXCEPT ![th] = Idle] /\ UNCHANGED <<slot, free, at, queued>>
  <2>1. Idle.op = "idle"
    BY DEF Idle
  <2> HIDE DEF TrackerInv, RequestsInv
  <2> QED
    BY <1>1, <1>2, <2>1, FrameRequests
<1>3. ASSUME NEW n \in Op, at[n] = NoSlot, req_alloc(n), queued' = queued \cup {n},
             pc' = [pc EXCEPT ![th] = [op |-> "track", req |-> n, kind |-> pc[th].kind]]
      PROVE  RequestsInv'
  <2>0. PICK s : s = Head(free)
    OBVIOUS
  <2> DEFINE r == [req |-> n, state |-> "pending", result |-> NoOp]
             f == [op |-> "track", req |-> n, kind |-> pc[th].kind]
  <2>1. /\ free # <<>> /\ free' = Tail(free)
        /\ at' = [at EXCEPT ![n] = s] /\ slot' = [slot EXCEPT ![s] = r]
    BY <1>3, <2>0 DEF req_alloc
  <2>2. /\ s \in Slot /\ InFree(s) /\ free' \in Seq(Slot) /\ FreeOnce'
        /\ \A i \in 1 .. Len(free') : free'[i] # s /\ InFree(free'[i])
    <3>1. free \in Seq(Slot)
      BY DEF RequestsTypeOK
    <3>2. \A i, j \in 1 .. Len(free) : free[i] = free[j] => i = j
      BY DEF FreeOnce
    <3> HIDE DEF TrackerInv, RequestsInv
    <3>3. /\ Head(free) \in Slot /\ Head(free) = free[1] /\ 1 \in 1 .. Len(free)
          /\ Tail(free) \in Seq(Slot)
          /\ \A i \in 1 .. Len(Tail(free)) : Tail(free)[i] = free[i + 1] /\ i + 1 \in 1 .. Len(free)
          /\ \A i \in 1 .. Len(Tail(free)) : Tail(free)[i] # Head(free)
          /\ \A i, j \in 1 .. Len(Tail(free)) : Tail(free)[i] = Tail(free)[j] => i = j
      BY <2>1, <3>1, <3>2, FreeTail
    <3>4. free' \in Seq(Slot) /\ FreeOnce'
      BY <2>1, <3>3 DEF FreeOnce
    <3>5. \A i \in 1 .. Len(free') : free'[i] # s /\ InFree(free'[i])
      BY <2>0, <2>1, <3>3 DEF InFree
    <3> QED
      BY <2>0, <3>3, <3>4, <3>5 DEF InFree
  <2>3. r \in Record /\ r.req = n /\ r.state = "pending"
    BY DEF Record
  <2>4. f.op = "track" /\ pc' = [pc EXCEPT ![th] = f]
    BY <1>3
  <2>5. got[n] = {} /\ ~InCq(n) /\ n \notin kernel \cup queued
    BY <1>3 DEF RingHas
  <2> HIDE DEF r, f
  <2>6. /\ slot' \in [Slot -> Record] /\ slot'[s] = r /\ \A x \in Slot : x # s => slot'[x] = slot[x]
        /\ at' \in [Op -> Slot \cup {NoSlot}] /\ at'[n] = s /\ \A o \in Op : o # n => at'[o] = at[o]
    BY <2>1, <2>2, <2>3 DEF RequestsTypeOK
  <2>7. RequestsTypeOK'
    <3>1. queued' \in SUBSET Op
      BY <1>3 DEF RequestsTypeOK
    <3> QED
      BY <1>1, <2>2, <2>6, <3>1 DEF RequestsTypeOK
  <2>8. s # NoSlot /\ \A o \in Op : at[o] # NoSlot => at[o] \in Slot /\ o # n
    BY <1>3, <2>2, NoSlotIsNot DEF RequestsTypeOK
  \* The slot taken is nobody's.
  <2>9. /\ \A o \in Op : o # n => (Live(o)' <=> Live(o))
        /\ \A o \in Op : Live(o) => /\ o # n /\ at'[o] = at[o] /\ slot'[at'[o]] = slot[at[o]]
        /\ Live(n)'
    <3>1. \A o \in Op : Live(o) => at[o] # s /\ at[o] # NoSlot
      BY <2>2 DEF SlotsHold, Live
    <3> QED
      BY <1>1, <2>5, <2>6, <2>8, <3>1 DEF Live
  <2>10. \A o \in Op : Applied(o) => Applied(o)' \/ o = n
    BY <1>1, <2>9 DEF Applied
  <2>11. SlotsHold'
    <3> SUFFICES ASSUME NEW o \in Op
                 PROVE  /\ at'[o] # NoSlot => slot'[at'[o]].req \in Op
                        /\ Live(o)' => /\ slot'[at'[o]].req = o
                                       /\ slot'[at'[o]].state \in {"pending", "done"}
                                       /\ \A i \in 1 .. Len(free') : free'[i] # at'[o]
      BY DEF SlotsHold, InFree
    <3>1. CASE o = n
      BY <2>2, <2>3, <2>6, <3>1
    <3>2. CASE o # n
      <4>1. at'[o] = at[o]
        BY <2>6, <3>2
      <4>2. at[o] # NoSlot => slot'[at[o]].req \in Op
        BY <2>3, <2>6, <2>8 DEF SlotsHold
      <4> QED
        BY <2>2, <2>9, <3>2, <4>1, <4>2 DEF SlotsHold
    <3> QED
      BY <3>1, <3>2
  <2>12. OwnResults'
    <3> SUFFICES ASSUME NEW o \in Op \ struck
                 PROVE  /\ Live(o)' /\ slot'[at'[o]].state = "done" => slot'[at'[o]].result = o /\ InCq(o)
                        /\ got[o] # {} => got[o] = {o} /\ InCq(o)
      BY <1>1 DEF OwnResults, InCq
    <3>1. CASE o = n
      BY <2>3, <2>5, <2>6, <3>1
    <3>2. CASE o # n
      BY <2>9, <3>2 DEF OwnResults
    <3> QED
      BY <3>1, <3>2
  <2>13. RingHas'
    <3>1. \A o \in Op : InCq(o)' <=> InCq(o)
      BY <1>1 DEF InCq
    <3>2. \A o \in Op : at[o] # NoSlot => at'[o] # NoSlot
      BY <2>6, <2>8
    <3>3. at'[n] # NoSlot
      BY <2>6, <2>8
    <3> QED
      BY <1>1, <1>3, <2>5, <3>1, <3>2, <3>3 DEF RingHas
  <2>14. \A i \in 1 .. Len(cq) : cq[i] \in Op /\ cq[i] # n
    BY <2>5, CqFacts
  <2>15. DrainsApply'
    <3> SUFFICES ASSUME NEW x \in Thread
                 PROVE  LET d == drain[x]
                            p == cq[d.at + 1] IN
                        /\ d.at =< d.tail /\ d.tail =< Len(cq)
                        /\ d.hit # "no" => d.at < d.tail
                        /\ d.hit = "half" /\ Live(p)' /\ p \notin struck => slot'[at'[p]].result = p
                        /\ \A i \in 1 .. d.at : Applied(cq[i])'
      BY <1>1 DEF DrainsApply, Live, Applied
    <3> DEFINE d == drain[x]
               p == cq[d.at + 1]
    <3>1. /\ d.at =< d.tail /\ d.tail =< Len(cq)
          /\ d.hit # "no" => d.at < d.tail
          /\ d.hit = "half" /\ Live(p) /\ p \notin struck => slot[at[p]].result = p
          /\ \A i \in 1 .. d.at : Applied(cq[i])
      BY DEF DrainsApply
    <3>2. d.at \in Nat /\ d.tail \in Nat /\ Len(cq) \in Nat
      BY CqFacts DEF RequestsTypeOK, Position
    <3>3. d.hit = "half" => p \in Op /\ p # n
      BY <2>14, <3>1, <3>2
    <3>4. ASSUME NEW o \in Op, o = p, d.hit = "half", Live(o)', o \notin struck
          PROVE  slot'[at'[o]].result = o
      BY <2>9, <3>1, <3>3, <3>4
    <3>5. \A i \in 1 .. d.at : Applied(cq[i])'
      BY <1>1, <2>10, <2>14, <3>1, <3>2
    <3> QED
      BY <1>1, <3>1, <3>3, <3>4, <3>5 DEF Live
  <2>16. HeadApplied'
    <3>1. \A i \in 1 .. head : Applied(cq[i])'
      BY <1>1, <2>10, <2>14, CqFacts DEF HeadApplied
    <3> QED
      BY <1>1, <3>1 DEF HeadApplied
  <2>17. CollectsDone'
    <3>1. pc'[th] = f /\ \A x \in Thread : x # th => pc'[x] = pc[x]
      BY <2>4 DEF TrackInv, TrackTypeOK
    <3> SUFFICES ASSUME NEW x \in Thread, x # th
                 PROVE  /\ pc[x].op = "idle" => wait[x] = NoWait
                        /\ pc[x].op = "result" =>
                              /\ holder = x
                              /\ Live(pc[x].req)'
                              /\ wait[x] # NoWait => wait[x].slot = at'[pc[x].req]
                              /\ wait[x] = NoWait => slot'[at'[pc[x].req]].state # "pending"
      BY <1>1, <2>4, <3>1 DEF CollectsDone, Live
    <3>2. pc[x].op = "result" => pc[x].req \in Op
      BY PcFacts DEF TrackInv
    <3>3. ASSUME NEW o \in Op, o = pc[x].req, pc[x].op = "result"
          PROVE  /\ holder = x /\ Live(o)'
                 /\ wait[x] # NoWait => wait[x].slot = at'[o]
                 /\ wait[x] = NoWait => slot'[at'[o]].state # "pending"
      BY <2>9, <3>3 DEF CollectsDone
    <3> QED
      BY <3>1, <3>2, <3>3 DEF CollectsDone, Live
  <2> QED
    BY <2>2, <2>7, <2>11, <2>12, <2>13, <2>15, <2>16, <2>17
<1> QED
  BY <1>2, <1>3 DEF Issue, Goes

LEMMA CollectsStep ==
    ASSUME TrackerInv, NEW th \in Thread, Collects(th)
    PROVE  RequestsInv'
<1> USE DEF TrackerInv, RequestsInv
<1>0. PICK n \in Op : n = pc[th].req /\ pc[th].op = "result"
  BY PcFacts DEF TrackInv, Collects
<1>1. PICK s : s = at[n]
  OBVIOUS
<1>2. /\ wait[th] = NoWait
      /\ got' = [got EXCEPT ![n] = {slot[s].result}]
      /\ slot' = [slot EXCEPT ![s].state = "free"]
      /\ free' = <<s>> \o free
      /\ holder' = NoThread
      /\ pc' = [pc EXCEPT ![th] = Idle]
      /\ UNCHANGED <<at, queued, kernel, cq, head, wait, drain, struck>>
  <2> HIDE DEF TrackerInv, RequestsInv
  <2>1. /\ wait[th] = NoWait
        /\ got' = [got EXCEPT ![pc[th].req] = {slot[at[pc[th].req]].result}]
        /\ slot' = [slot EXCEPT ![at[pc[th].req]].state = "free"]
        /\ free' = <<at[pc[th].req]>> \o free
    BY DEF Collects
  <2>2. /\ holder' = NoThread
        /\ pc' = [pc EXCEPT ![th] = Idle]
        /\ UNCHANGED <<at, queued, kernel, cq, head, wait, drain, struck>>
    BY DEF Collects, Goes, ringVars, pastVars
  <2> QED
    BY <1>0, <1>1, <2>1, <2>2
<1>3. /\ s \in Slot /\ slot[s].req = n /\ slot[s].state = "done" /\ ~InFree(s)
      /\ Live(n) /\ holder = th
  BY <1>0, <1>1, <1>2 DEF CollectsDone, SlotsHold, RequestsTypeOK, Live
<1> DEFINE r == [slot[s] EXCEPT !.state = "free"]
<1>4. r \in Record /\ r.req = n /\ r.state = "free" /\ slot[s].result \in Op \cup {NoOp}
  <2>1. slot[s] \in Record
    BY <1>3 DEF RequestsTypeOK
  <2> QED
    BY <1>3, <2>1 DEF Record
<1>5. slot' = [slot EXCEPT ![s] = r]
  BY <1>2
<1> HIDE DEF r
<1>6. /\ slot' \in [Slot -> Record] /\ slot'[s] = r /\ \A x \in Slot : x # s => slot'[x] = slot[x]
      /\ got' \in [Op -> SUBSET (Op \cup {NoOp})]
      /\ got'[n] = {slot[s].result} /\ \A o \in Op : o # n => got'[o] = got[o]
  <2>1. {slot[s].result} \in SUBSET (Op \cup {NoOp})
    BY <1>4
  <2> QED
    BY <1>2, <1>3, <1>4, <1>5, <2>1 DEF RequestsTypeOK
<1>7. /\ free' \in Seq(Slot) /\ FreeOnce'
      /\ \A i \in 1 .. Len(free') : free'[i] = s \/ InFree(free'[i])
  <2>1. free \in Seq(Slot)
    BY DEF RequestsTypeOK
  <2>2. /\ \A i, j \in 1 .. Len(free) : free[i] = free[j] => i = j
        /\ \A i \in 1 .. Len(free) : free[i] # s
    BY <1>3 DEF FreeOnce, InFree
  <2> HIDE DEF TrackerInv, RequestsInv
  <2>3. LET g == <<s>> \o free IN
        /\ g \in Seq(Slot)
        /\ \A i \in 1 .. Len(g) : g[i] = s \/ \E k \in 1 .. Len(free) : g[i] = free[k]
        /\ \A i, j \in 1 .. Len(g) : g[i] = g[j] => i = j
    BY <1>3, <2>1, <2>2, FreePut
  <2> QED
    BY <1>2, <2>3 DEF FreeOnce, InFree
<1>8. RequestsTypeOK'
  BY <1>2, <1>6, <1>7 DEF RequestsTypeOK
<1>9. \A o \in Op : at[o] # NoSlot => at[o] \in Slot
  BY DEF RequestsTypeOK
\* No other request is in the slot.
<1>10. /\ ~Live(n)'
       /\ \A o \in Op : o # n => (Live(o)' <=> Live(o))
       /\ \A o \in Op : o # n /\ Live(o) => at[o] # s /\ slot'[at[o]] = slot[at[o]]
  <2>1. \A o \in Op : o # n /\ Live(o) => at[o] # s
    BY <1>3 DEF SlotsHold
  <2> QED
    BY <1>2, <1>6, <1>9, <2>1 DEF Live
<1>11. n \in struck \/ (got'[n] = {n} /\ InCq(n))
  BY <1>1, <1>3, <1>6 DEF OwnResults
<1>12. \A o \in Op : Applied(o) => Applied(o)'
  BY <1>2, <1>6, <1>10, <1>11 DEF Applied
<1>13. SlotsHold'
  <2> SUFFICES ASSUME NEW o \in Op
               PROVE  /\ at[o] # NoSlot => slot'[at[o]].req \in Op
                      /\ Live(o)' => /\ slot'[at[o]].req = o
                                     /\ slot'[at[o]].state \in {"pending", "done"}
                                     /\ \A i \in 1 .. Len(free') : free'[i] # at[o]
    BY <1>2 DEF SlotsHold, InFree
  <2>1. at[o] # NoSlot => slot'[at[o]].req \in Op
    BY <1>4, <1>6, <1>9 DEF SlotsHold
  <2>2. ASSUME Live(o)'
        PROVE  /\ slot'[at[o]].req = o
               /\ slot'[at[o]].state \in {"pending", "done"}
               /\ \A i \in 1 .. Len(free') : free'[i] # at[o]
    <3>1. o # n /\ Live(o) /\ at[o] # s /\ slot'[at[o]] = slot[at[o]]
      BY <1>10, <2>2
    <3> QED
      BY <1>7, <3>1 DEF SlotsHold
  <2> QED
    BY <2>1, <2>2
<1>14. OwnResults'
  <2> SUFFICES ASSUME NEW o \in Op \ struck
               PROVE  /\ Live(o)' /\ slot'[at[o]].state = "done" => slot'[at[o]].result = o /\ InCq(o)
                      /\ got'[o] # {} => got'[o] = {o} /\ InCq(o)
    BY <1>2 DEF OwnResults, InCq
  <2>1. CASE o = n
    BY <1>10, <1>11, <2>1
  <2>2. CASE o # n
    BY <1>6, <1>10, <2>2 DEF OwnResults
  <2> QED
    BY <2>1, <2>2
<1>15. RingHas'
  <2>1. \A o \in Op : InCq(o)' <=> InCq(o)
    BY <1>2 DEF InCq
  <2>2. at[n] # NoSlot
    BY <1>3 DEF Live
  <2> QED
    BY <1>2, <1>6, <2>1, <2>2 DEF RingHas
<1>16. \A i \in 1 .. Len(cq) : cq[i] \in Op
  BY CqFacts
<1>17. DrainsApply'
  <2> SUFFICES ASSUME NEW x \in Thread
               PROVE  LET d == drain[x]
                          p == cq[d.at + 1] IN
                      /\ d.at =< d.tail /\ d.tail =< Len(cq)
                      /\ d.hit # "no" => d.at < d.tail
                      /\ d.hit = "half" /\ Live(p)' /\ p \notin struck => slot'[at[p]].result = p
                      /\ \A i \in 1 .. d.at : Applied(cq[i])'
    BY <1>2 DEF DrainsApply, Live, Applied
  <2> DEFINE d == drain[x]
             p == cq[d.at + 1]
  <2>1. /\ d.at =< d.tail /\ d.tail =< Len(cq)
        /\ d.hit # "no" => d.at < d.tail
        /\ d.hit = "half" /\ Live(p) /\ p \notin struck => slot[at[p]].result = p
        /\ \A i \in 1 .. d.at : Applied(cq[i])
    BY DEF DrainsApply
  <2>2. d.at \in Nat /\ d.tail \in Nat /\ Len(cq) \in Nat
    BY CqFacts DEF RequestsTypeOK, Position
  <2>3. d.hit = "half" => p \in Op
    BY <1>16, <2>1, <2>2
  <2>4. ASSUME NEW o \in Op, o = p, d.hit = "half", Live(o)', o \notin struck
        PROVE  slot'[at[o]].result = o
    BY <1>10, <2>1, <2>4
  <2>5. \A i \in 1 .. d.at : Applied(cq[i])'
    BY <1>2, <1>12, <1>16, <2>1, <2>2
  <2> QED
    BY <1>2, <2>1, <2>3, <2>4, <2>5 DEF Live
<1>18. HeadApplied'
  <2>1. \A i \in 1 .. head : Applied(cq[i])'
    BY <1>2, <1>12, <1>16, CqFacts DEF HeadApplied
  <2> QED
    BY <1>2, <2>1 DEF HeadApplied
<1>19. CollectsDone'
  <2>1. pc'[th] = Idle /\ \A x \in Thread : x # th => pc'[x] = pc[x]
    BY <1>2 DEF TrackInv, TrackTypeOK
  <2>2. \A x \in Thread : x # th => pc[x].op # "result"
    BY <1>3 DEF CollectsDone
  <2> QED
    BY <1>2, <2>1, <2>2 DEF CollectsDone, Idle
<1> QED
  BY <1>7, <1>8, <1>13, <1>14, <1>15, <1>17, <1>18, <1>19

LEMMA StepRequests == TrackerInv /\ [Next]_vars => RequestsInv'
<1> SUFFICES ASSUME TrackerInv, [Next]_vars PROVE RequestsInv'
  OBVIOUS
<1>1. CASE UNCHANGED vars
  <2>1. CollectsDone'
    BY <1>1 DEF vars, slotVars, threadVars, TrackerInv, RequestsInv, CollectsDone, Live
  <2> QED
    BY <1>1, <2>1, SubmitRequests
       DEF vars, slotVars, ringVars, threadVars, pastVars, TrackerInv, RequestsInv, RequestsTypeOK
<1>2. ASSUME NEW th \in Thread, Steps(th) PROVE RequestsInv'
  BY <1>2, WaitSubmitsStep, WaitEndsStep, DrainBeginsStep, DrainLooksStep, DrainResultStep, DrainStateStep,
     DrainEndsStep, ScanStep, IssueStep, TrackStep, CollectsStep DEF Steps
<1> QED
  BY <1>1, <1>2, TagStep, ResultStep, SubmitStep, KernelStep DEF Next

-----------------------------------------------------------------------------
(* One step, and the trackers. *)

(* Steps that change no tracker and no tagged call's frame. *)
LEMMA QuietTrack ==
    ASSUME TrackInv, UNCHANGED <<at, q, tagged>>,
           pc' \in [Thread -> Frame],
           \A x \in Thread :
              \/ pc'[x] = pc[x]
              \/ pc[x].op \in {"idle", "result"} /\ pc'[x].op \in {"idle", "result"},
           \A o \in Op : Busy(o)' => Busy(o)
    PROVE  TrackInv'
<1> USE DEF TrackInv
<1>1. TrackTypeOK'
  BY DEF TrackTypeOK
<1>2. \A x \in Thread : pc[x].op \in {"scan", "track"} \/ pc'[x].op \in {"scan", "track"} => pc'[x] = pc[x]
  OBVIOUS
<1>3. Issued'
  <2>1. \A x \in Thread : pc'[x].op = "scan" =>
           \A k \in 1 .. Len(pc'[x].keep) : at[pc'[x].keep[k].req] # NoSlot
    <3> SUFFICES ASSUME NEW x \in Thread, pc'[x].op = "scan"
                 PROVE  \A k \in 1 .. Len(pc'[x].keep) : at[pc'[x].keep[k].req] # NoSlot
      OBVIOUS
    <3>1. pc'[x] = pc[x] /\ pc[x].op = "scan"
      BY <1>2
    <3> QED
      BY <3>1 DEF Issued
  <2> QED
    BY <1>2, <2>1 DEF Issued
<1>4. TrackerHasIt'
  <2> SUFFICES ASSUME NEW i \in 1 .. Len(tagged), Busy(tagged[i].req)'
               PROVE  \/ \E k \in 1 .. Len(q[tagged[i].by]) :
                           /\ q[tagged[i].by][k].req = tagged[i].req
                           /\ q[tagged[i].by][k].kind = tagged[i].kind
                      \/ /\ pc'[tagged[i].by].op = "track"
                         /\ pc'[tagged[i].by].req = tagged[i].req
                         /\ pc'[tagged[i].by].kind = tagged[i].kind
    BY DEF TrackerHasIt
  <2>1. tagged[i].req \in Op /\ tagged[i].by \in Thread
    BY ElementFacts
  <2>2. Busy(tagged[i].req)
    <3>1. PICK o \in Op : o = tagged[i].req
      BY <2>1
    <3>2. Busy(o)'
      BY <3>1
    <3> QED
      BY <3>1, <3>2
  <2> QED
    BY <1>2, <2>1, <2>2 DEF TrackerHasIt
<1>5. ScanKeeps'
  <2> SUFFICES ASSUME NEW x \in Thread, pc'[x].op = "scan", NEW k \in 1 .. Len(q[x]),
                      k < pc'[x].i, Busy(q[x][k].req)'
               PROVE  /\ ~token_conflicts(q[x][k].kind, pc'[x].kind)
                      /\ \E m \in 1 .. Len(pc'[x].keep) : pc'[x].keep[m] = q[x][k]
    BY DEF ScanKeeps
  <2>1. pc'[x] = pc[x]
    BY <1>2
  <2>2. Busy(q[x][k].req)
    <3>1. PICK o \in Op : o = q[x][k].req
      BY ElementFacts
    <3>2. Busy(o)'
      BY <3>1
    <3> QED
      BY <3>1, <3>2
  <2>3. pc[x].op = "scan" /\ k < pc[x].i
    BY <2>1
  <2>4. /\ ~token_conflicts(q[x][k].kind, pc[x].kind)
        /\ \E m \in 1 .. Len(pc[x].keep) : pc[x].keep[m] = q[x][k]
    BY <2>2, <2>3 DEF ScanKeeps
  <2> QED
    BY <2>1, <2>4
<1>6. TaggedOrder'
  <2> SUFFICES ASSUME NEW i \in DOMAIN tagged, NEW j \in DOMAIN tagged, i < j,
                      tagged[i].by = tagged[j].by,
                      token_conflicts(tagged[i].kind, tagged[j].kind)
               PROVE  ~Busy(tagged[i].req)'
    BY DEF TaggedOrder, Busy
  <2>0. DOMAIN tagged = 1 .. Len(tagged)
    BY DEF TrackTypeOK
  <2>1. PICK o \in Op : o = tagged[i].req
    BY <2>0, ElementFacts
  <2>2. ~Busy(o)
    BY <2>1 DEF TaggedOrder, Busy
  <2> QED
    BY <2>1, <2>2
<1> QED
  BY <1>1, <1>3, <1>4, <1>5, <1>6

(* Steps of a scan that change its frame only. *)
LEMMA FrameTrack ==
    ASSUME TrackInv, NEW th \in Thread, NEW f \in Frame, f.op = "scan", pc[th].op # "track",
           pc' = [pc EXCEPT ![th] = f],
           UNCHANGED <<at, queued, kernel, struck, q, tagged>>,
           \A k \in 1 .. Len(f.keep) : at[f.keep[k].req] # NoSlot,
           \A k \in 1 .. Len(q[th]) :
              k < f.i /\ Busy(q[th][k].req) =>
                 /\ ~token_conflicts(q[th][k].kind, f.kind)
                 /\ \E m \in 1 .. Len(f.keep) : f.keep[m] = q[th][k]
    PROVE  TrackInv'
<1> USE DEF TrackInv
<1>1. pc'[th] = f /\ \A x \in Thread : x # th => pc'[x] = pc[x]
  BY DEF TrackTypeOK
<1>2. TrackTypeOK'
  BY DEF TrackTypeOK
<1>3. Issued'
  <2>1. \A x \in Thread : pc'[x].op = "scan" =>
           \A k \in 1 .. Len(pc'[x].keep) : at[pc'[x].keep[k].req] # NoSlot
    <3> SUFFICES ASSUME NEW x \in Thread, pc'[x].op = "scan"
                 PROVE  \A k \in 1 .. Len(pc'[x].keep) : at[pc'[x].keep[k].req] # NoSlot
      OBVIOUS
    <3>1. CASE x = th
      BY <1>1, <3>1
    <3>2. CASE x # th
      <4>1. pc'[x] = pc[x] /\ pc[x].op = "scan"
        BY <1>1, <3>2
      <4> QED
        BY <4>1 DEF Issued
    <3> QED
      BY <3>1, <3>2
  <2>2. \A x \in Thread : pc'[x].op = "track" => at[pc'[x].req] # NoSlot
    BY <1>1 DEF Issued
  <2> QED
    BY <2>1, <2>2 DEF Issued
<1>4. TrackerHasIt'
  BY <1>1 DEF TrackerHasIt, Busy
<1>5. ScanKeeps'
  <2> SUFFICES ASSUME NEW x \in Thread, pc'[x].op = "scan", NEW k \in 1 .. Len(q[x]),
                      k < pc'[x].i, Busy(q[x][k].req)
               PROVE  /\ ~token_conflicts(q[x][k].kind, pc'[x].kind)
                      /\ \E m \in 1 .. Len(pc'[x].keep) : pc'[x].keep[m] = q[x][k]
    BY DEF ScanKeeps, Busy
  <2>1. CASE x = th
    BY <1>1, <2>1
  <2>2. CASE x # th
    <3>1. pc'[x] = pc[x]
      BY <1>1, <2>2
    <3>2. pc[x].op = "scan" /\ k < pc[x].i
      BY <3>1
    <3>3. /\ ~token_conflicts(q[x][k].kind, pc[x].kind)
          /\ \E m \in 1 .. Len(pc[x].keep) : pc[x].keep[m] = q[x][k]
      BY <3>2 DEF ScanKeeps
    <3> QED
      BY <3>1, <3>3
  <2> QED
    BY <2>1, <2>2
<1>6. TaggedOrder'
  BY DEF TaggedOrder
<1> QED
  BY <1>2, <1>3, <1>4, <1>5, <1>6

LEMMA TagTrack ==
    ASSUME TrackInv, NEW th \in Thread, NEW kind \in Kinds, Tag(th, kind)
    PROVE  TrackInv'
<1> DEFINE f == [op |-> "scan", kind |-> kind, i |-> 1, keep |-> <<>>]
<1>1. f \in Frame /\ f.op = "scan" /\ f.i = 1 /\ f.keep = <<>>
  BY DEF Frame
<1>2. /\ pc' = [pc EXCEPT ![th] = f]
      /\ pc[th].op = "idle"
      /\ UNCHANGED <<at, queued, kernel, struck, q, tagged>>
  BY DEF Tag, Goes, Idle, slotVars, ringVars, pastVars
<1> HIDE DEF f
<1>3. \A k \in 1 .. Len(f.keep) : at[f.keep[k].req] # NoSlot
  BY <1>1
<1>4. \A k \in 1 .. Len(q[th]) : ~(k < f.i)
  BY <1>1, ElementFacts DEF TrackInv
<1> QED
  BY <1>1, <1>2, <1>3, <1>4, FrameTrack

LEMMA ScanTrack ==
    ASSUME TrackerInv, NEW th \in Thread, Scan(th)
    PROVE  TrackInv'
<1> DEFINE f == pc[th]
           e == q[th][f.i]
           g == Kept(f, e)
<1>1. /\ f.op = "scan" /\ f.i =< Len(q[th])
      /\ UNCHANGED <<at, queued, kernel, struck, q, tagged>>
      /\ \/ UNCHANGED pc
         \/ ~(Pending(e.req) /\ token_conflicts(e.kind, f.kind)) /\ pc' = [pc EXCEPT ![th] = g]
  BY DEF Scan, Goes, slotVars, ringVars, pastVars
<1>2. CASE UNCHANGED pc
  BY <1>1, <1>2, QuietTrack DEF TrackerInv, TrackInv, TrackTypeOK, Busy
<1>3. CASE ~(Pending(e.req) /\ token_conflicts(e.kind, f.kind)) /\ pc' = [pc EXCEPT ![th] = g]
  <2>1. /\ f.i \in 1 .. Len(q[th]) /\ e \in Tracked
        /\ g \in Frame
        /\ g.op = "scan" /\ g.kind = f.kind /\ g.i = f.i + 1
        /\ g.keep = IF Pending(e.req) THEN Append(f.keep, e) ELSE f.keep
    BY <1>1, ScanOn DEF TrackerInv, TrackInv
  <2>2. f.keep \in Seq(Tracked) /\ Len(q[th]) \in Nat /\ f.i \in Nat /\ e.req \in Op
    BY <1>1, <2>1, PcFacts, ElementFacts DEF TrackerInv, TrackInv
  <2>3. Busy(e.req) => Pending(e.req)
    BY <2>2, BusyPending DEF TrackerInv
  <2> HIDE DEF g
  <2>4. /\ \A k \in 1 .. Len(f.keep) : /\ k \in 1 .. Len(g.keep)
                                      /\ g.keep[k] = f.keep[k]
        /\ \A k \in 1 .. Len(g.keep) : g.keep[k] = e \/ \E m \in 1 .. Len(f.keep) : g.keep[k] = f.keep[m]
        /\ Pending(e.req) => \E m \in 1 .. Len(g.keep) : g.keep[m] = e
    <3> HIDE DEF f, e
    <3>1. CASE Pending(e.req)
      <4>1. g.keep = Append(f.keep, e) /\ Len(g.keep) = Len(f.keep) + 1 /\ Len(f.keep) \in Nat
        BY <2>1, <2>2, <3>1
      <4>2. /\ \A k \in 1 .. Len(f.keep) : g.keep[k] = f.keep[k]
            /\ g.keep[Len(f.keep) + 1] = e
        BY <2>1, <2>2, <4>1
      <4>3. \A k \in 1 .. Len(f.keep) + 1 : k \in 1 .. Len(f.keep) \/ k = Len(f.keep) + 1
        BY <4>1
      <4> QED
        BY <4>1, <4>2, <4>3
    <3>2. CASE ~Pending(e.req)
      BY <2>1, <3>2
    <3> QED
      BY <3>1, <3>2
  <2>5. \A k \in 1 .. Len(g.keep) : at[g.keep[k].req] # NoSlot
    <3>1. at[e.req] # NoSlot /\ \A k \in 1 .. Len(f.keep) : at[f.keep[k].req] # NoSlot
      BY <1>1, <2>1 DEF TrackerInv, TrackInv, Issued
    <3> TAKE k \in 1 .. Len(g.keep)
    <3>2. CASE g.keep[k] = e
      BY <3>1, <3>2
    <3>3. CASE \E m \in 1 .. Len(f.keep) : g.keep[k] = f.keep[m]
      BY <3>1, <3>3
    <3> QED
      BY <2>4, <3>2, <3>3
  <2>6. ASSUME NEW k \in 1 .. Len(q[th]), k < g.i, Busy(q[th][k].req)
        PROVE  /\ ~token_conflicts(q[th][k].kind, g.kind)
               /\ \E m \in 1 .. Len(g.keep) : g.keep[m] = q[th][k]
    <3>1. CASE k = f.i
      BY <1>3, <2>1, <2>3, <2>4, <2>6, <3>1
    <3>2. CASE k # f.i
      <4>1. k < f.i
        BY <2>1, <2>2, <2>6, <3>2
      <4>2. /\ ~token_conflicts(q[th][k].kind, f.kind)
            /\ \E m \in 1 .. Len(f.keep) : f.keep[m] = q[th][k]
        BY <1>1, <2>6, <4>1 DEF TrackerInv, TrackInv, ScanKeeps
      <4> QED
        BY <2>1, <2>4, <4>2
    <3> QED
      BY <3>1, <3>2
  <2>7. pc[th].op # "track"
    BY <1>1
  <2>8. TrackInv
    BY DEF TrackerInv
  <2> HIDE DEF f, e
  <2> QED
    BY <1>1, <1>3, <2>1, <2>5, <2>6, <2>7, <2>8, FrameTrack
<1> QED
  BY <1>1, <1>2, <1>3

LEMMA TrackTrack ==
    ASSUME TrackerInv, NEW th \in Thread, Track(th)
    PROVE  TrackInv'
<1> USE DEF TrackerInv, TrackInv
<1> DEFINE f == pc[th]
<1>1. f.op = "track" /\ UNCHANGED <<at, queued, kernel, struck, tagged>>
  BY DEF Track, slotVars, ringVars, pastVars
<1>2. f.req \in Op /\ f.kind \in Kinds /\ q[th] \in Seq(Tracked) /\ Len(q[th]) \in Nat /\ at[f.req] # NoSlot
  BY <1>1, PcFacts DEF TrackTypeOK, Issued
<1>3. CASE UNCHANGED <<q, pc>>
  BY <1>1, <1>3, QuietTrack DEF TrackTypeOK, Busy
<1>4. CASE \/ /\ q' = [q EXCEPT ![th] = Append(@, [req |-> f.req, kind |-> f.kind])]
              /\ pc' = [pc EXCEPT ![th] = Idle]
           \/ /\ Len(q[th]) >= QLen /\ ~Busy(q[th][1].req)
              /\ q' = [q EXCEPT ![th] = Tail(@)]
              /\ pc' = pc
  <2> DEFINE e == [req |-> f.req, kind |-> f.kind]
  <2>1. e \in Tracked /\ e.req = f.req /\ e.kind = f.kind
    BY <1>2 DEF Tracked
  <2> HIDE DEF e
  <2>2. \A x \in Thread : x # th => q'[x] = q[x] /\ pc'[x] = pc[x]
    BY <1>4 DEF TrackTypeOK
  <2>3. \/ pc'[th] = Idle /\ pc'[th].op = "idle" /\ q'[th] = Append(q[th], e)
        \/ pc'[th] = f /\ Len(q[th]) >= QLen /\ ~Busy(q[th][1].req) /\ q'[th] = Tail(q[th])
    BY <1>4 DEF TrackTypeOK, Idle, e
  <2>4. /\ q'[th] \in Seq(Tracked) /\ Len(q'[th]) \in Nat
        /\ \A k \in 1 .. Len(q'[th]) :
              (pc'[th].op = "idle" /\ q'[th][k] = e) \/ \E m \in 1 .. Len(q[th]) : q'[th][k] = q[th][m]
        /\ \A m \in 1 .. Len(q[th]) : Busy(q[th][m].req) =>
              \E k \in 1 .. Len(q'[th]) : q'[th][k] = q[th][m]
        /\ pc'[th].op # "idle" \/ \E k \in 1 .. Len(q'[th]) : q'[th][k] = e
    <3> DEFINE s == q[th]
               s1 == q'[th]
    <3>1. s \in Seq(Tracked) /\ Len(s) \in Nat
      BY <1>2
    <3>2. CASE pc'[th] = Idle /\ pc'[th].op = "idle" /\ s1 = Append(s, e)
      <4> HIDE DEF s, s1
      <4>1. /\ s1 \in Seq(Tracked) /\ Len(s1) = Len(s) + 1
            /\ \A k \in 1 .. Len(s) : s1[k] = s[k]
            /\ s1[Len(s) + 1] = e
        BY <2>1, <3>1, <3>2
      <4>2. \A k \in 1 .. Len(s) + 1 : k \in 1 .. Len(s) \/ k = Len(s) + 1
        BY <3>1
      <4>3. \A k \in 1 .. Len(s) : k \in 1 .. Len(s1)
        BY <3>1, <4>1
      <4>4. Len(s) + 1 \in 1 .. Len(s1)
        BY <3>1, <4>1
      <4> QED
        BY <3>1, <3>2, <4>1, <4>2, <4>3, <4>4 DEF s, s1
    <3>3. CASE pc'[th] = f /\ Len(s) >= QLen /\ ~Busy(s[1].req) /\ s1 = Tail(s)
      <4>0. pc'[th].op = "track"
        BY <1>1, <3>3
      <4> HIDE DEF s, s1
      <4>1. Len(s) >= 1
        BY <3>1, <3>3, QLenPositive
      <4>2. /\ s1 \in Seq(Tracked) /\ Len(s1) = Len(s) - 1
            /\ \A k \in 1 .. Len(s1) : s1[k] = s[k + 1]
        BY <3>1, <3>3, <4>1
      <4>3. /\ \A k \in 1 .. Len(s1) : k + 1 \in 1 .. Len(s)
            /\ \A m \in 1 .. Len(s) : m # 1 => m - 1 \in 1 .. Len(s1) /\ (m - 1) + 1 = m
            /\ Len(s1) \in Nat
        BY <3>1, <4>1, <4>2
      <4>4. \A m \in 1 .. Len(s) : Busy(s[m].req) => m # 1
        BY <3>3
      <4>5. \A m \in 1 .. Len(s) : Busy(s[m].req) => s1[m - 1] = s[m]
        BY <4>2, <4>3, <4>4
      <4> QED
        BY <4>0, <4>2, <4>3, <4>4, <4>5 DEF s, s1
    <3> QED
      BY <2>3, <3>2, <3>3
  <2>5. /\ q' \in [Thread -> Seq(Tracked)] /\ pc' \in [Thread -> Frame]
    <3>1. q' = [q EXCEPT ![th] = q'[th]]
      BY <1>4 DEF TrackTypeOK
    <3> QED
      BY <1>4, <2>4, <3>1 DEF TrackTypeOK, Frame
  <2>6. \A x \in Thread : pc'[x].op \in {"scan", "result"} => x # th /\ pc'[x] = pc[x] /\ q'[x] = q[x]
    BY <1>1, <2>2, <2>3
  <2>7. TrackTypeOK'
    BY <1>1, <1>4, <2>5 DEF TrackTypeOK
  <2>8. Issued'
    <3>1. \A k \in 1 .. Len(q'[th]) : at[q'[th][k].req] # NoSlot
      <4> TAKE k \in 1 .. Len(q'[th])
      <4>1. CASE q'[th][k] = e
        BY <1>2, <2>1, <4>1
      <4>2. CASE \E m \in 1 .. Len(q[th]) : q'[th][k] = q[th][m]
        BY <4>2 DEF Issued
      <4> QED
        BY <2>4, <4>1, <4>2
    <3>2. \A x \in Thread : \A k \in 1 .. Len(q'[x]) : at[q'[x][k].req] # NoSlot
      BY <2>2, <3>1 DEF Issued
    <3>3. \A x \in Thread : pc'[x].op = "scan" =>
             \A k \in 1 .. Len(pc'[x].keep) : at[pc'[x].keep[k].req] # NoSlot
      <4> SUFFICES ASSUME NEW x \in Thread, pc'[x].op = "scan"
                   PROVE  \A k \in 1 .. Len(pc'[x].keep) : at[pc'[x].keep[k].req] # NoSlot
        OBVIOUS
      <4>1. pc'[x] = pc[x] /\ pc[x].op = "scan"
        BY <2>6
      <4>2. \A k \in 1 .. Len(pc[x].keep) : at[pc[x].keep[k].req] # NoSlot
        BY <4>1 DEF Issued
      <4> QED
        BY <4>1, <4>2
    <3>4. \A x \in Thread : pc'[x].op = "track" => at[pc'[x].req] # NoSlot
      BY <1>1, <1>2, <2>2, <2>3 DEF Issued
    <3> QED
      BY <1>1, <1>4, <3>2, <3>3, <3>4 DEF Issued
    <2>10. TaggedOrder'
    BY <1>1 DEF TaggedOrder
  <2>11. TrackerHasIt'
    <3> SUFFICES ASSUME NEW i \in 1 .. Len(tagged), Busy(tagged[i].req)
                 PROVE  \/ \E k \in 1 .. Len(q'[tagged[i].by]) :
                             /\ q'[tagged[i].by][k].req = tagged[i].req
                             /\ q'[tagged[i].by][k].kind = tagged[i].kind
                        \/ /\ pc'[tagged[i].by].op = "track"
                           /\ pc'[tagged[i].by].req = tagged[i].req
                           /\ pc'[tagged[i].by].kind = tagged[i].kind
      BY <1>1 DEF TrackerHasIt, Busy
    <3>1. tagged[i].by \in Thread
      BY ElementFacts
    <3>2. CASE tagged[i].by # th
      <4>1. q'[tagged[i].by] = q[tagged[i].by] /\ pc'[tagged[i].by] = pc[tagged[i].by]
        BY <2>2, <3>1, <3>2
      <4> QED
        BY <4>1 DEF TrackerHasIt
    <3>3. CASE tagged[i].by = th /\ \E k \in 1 .. Len(q[th]) : /\ q[th][k].req = tagged[i].req
                                                             /\ q[th][k].kind = tagged[i].kind
      <4>1. PICK m \in 1 .. Len(q[th]) : q[th][m].req = tagged[i].req /\ q[th][m].kind = tagged[i].kind
        BY <3>3
      <4>2. PICK k \in 1 .. Len(q'[th]) : q'[th][k] = q[th][m]
        BY <2>4, <4>1
      <4> QED
        BY <3>3, <4>1, <4>2
    <3>4. CASE tagged[i].by = th /\ f.req = tagged[i].req /\ f.kind = tagged[i].kind
      <4>1. CASE pc'[th].op = "idle"
        BY <2>1, <2>4, <3>4, <4>1
      <4>2. CASE pc'[th] = f
        BY <1>1, <3>4, <4>2
      <4> QED
        BY <2>3, <4>1, <4>2
    <3> QED
      BY <3>2, <3>3, <3>4 DEF TrackerHasIt
  <2>12. ScanKeeps'
    <3> SUFFICES ASSUME NEW x \in Thread, pc'[x].op = "scan", NEW k \in 1 .. Len(q'[x]),
                        k < pc'[x].i, Busy(q'[x][k].req)
                 PROVE  /\ ~token_conflicts(q'[x][k].kind, pc'[x].kind)
                        /\ \E m \in 1 .. Len(pc'[x].keep) : pc'[x].keep[m] = q'[x][k]
      BY <1>1 DEF ScanKeeps, Busy
    <3>1. pc'[x] = pc[x] /\ q'[x] = q[x]
      BY <2>6
    <3>2. pc[x].op = "scan" /\ k \in 1 .. Len(q[x]) /\ k < pc[x].i /\ Busy(q[x][k].req)
      BY <3>1
    <3>3. /\ ~token_conflicts(q[x][k].kind, pc[x].kind)
          /\ \E m \in 1 .. Len(pc[x].keep) : pc[x].keep[m] = q[x][k]
      BY <3>2 DEF ScanKeeps
    <3> QED
      BY <3>1, <3>3
  <2> QED
    BY <2>7, <2>8, <2>10, <2>11, <2>12
<1>5. Len(q[th]) >= QLen => q[th][1].req \in Op
  <2>1. Len(q[th]) >= QLen => 1 \in 1 .. Len(q[th])
    BY <1>2, QLenPositive
  <2> QED
    BY <2>1, ElementFacts
<1>6. Len(q[th]) >= QLen /\ ~Pending(q[th][1].req) => ~Busy(q[th][1].req)
  BY <1>5, BusyPending
<1> QED
  BY <1>1, <1>3, <1>4, <1>6 DEF Track, Goes

LEMMA IssueTrack ==
    ASSUME TrackerInv, NEW th \in Thread, Issue(th)
    PROVE  TrackInv'
<1> USE DEF TrackerInv, TrackInv
<1> DEFINE f == pc[th]
<1>1. /\ f.op = "scan" /\ f.i > Len(q[th])
      /\ q' = [q EXCEPT ![th] = f.keep]
      /\ UNCHANGED <<kernel, struck>>
  BY DEF Issue
<1>2. /\ f.kind \in Kinds /\ f.i \in Nat \ {0} /\ f.keep \in Seq(Tracked)
      /\ Len(q[th]) \in Nat
  BY <1>1, PcFacts, ElementFacts
<1>3. /\ q' \in [Thread -> Seq(Tracked)] /\ q'[th] = f.keep
      /\ \A x \in Thread : x # th => q'[x] = q[x]
  BY <1>1, <1>2 DEF TrackTypeOK
<1>4. \A k \in 1 .. Len(q[th]) : Busy(q[th][k].req) =>
         /\ ~token_conflicts(q[th][k].kind, f.kind)
         /\ \E m \in 1 .. Len(f.keep) : f.keep[m] = q[th][k]
  <2>1. \A k \in 1 .. Len(q[th]) : k < f.i
    BY <1>1, <1>2
  <2> QED
    BY <1>1, <2>1 DEF ScanKeeps
\* What was tagged on this thread and is busy is kept, and does not conflict.
<1>5. \A i \in 1 .. Len(tagged) : Busy(tagged[i].req) /\ tagged[i].by = th =>
         /\ ~token_conflicts(tagged[i].kind, f.kind)
         /\ \E m \in 1 .. Len(f.keep) : /\ f.keep[m].req = tagged[i].req
                                       /\ f.keep[m].kind = tagged[i].kind
  <2> SUFFICES ASSUME NEW i \in 1 .. Len(tagged), Busy(tagged[i].req), tagged[i].by = th
               PROVE  /\ ~token_conflicts(tagged[i].kind, f.kind)
                      /\ \E m \in 1 .. Len(f.keep) : /\ f.keep[m].req = tagged[i].req
                                                    /\ f.keep[m].kind = tagged[i].kind
    OBVIOUS
  <2>1. PICK k \in 1 .. Len(q[th]) : q[th][k].req = tagged[i].req /\ q[th][k].kind = tagged[i].kind
    BY <1>1 DEF TrackerHasIt
  <2>2. PICK m \in 1 .. Len(f.keep) : f.keep[m] = q[th][k]
    BY <1>4, <2>1
  <2> QED
    BY <1>4, <2>1, <2>2
\* The step is the issue of n, or nothing is issued.
<1>6. PICK n :
         \/ /\ n \in Op /\ at[n] = NoSlot /\ at' = [at EXCEPT ![n] = Head(free)]
            /\ Head(free) \in Slot
            /\ queued' = queued \cup {n}
            /\ tagged' = Append(tagged, [req |-> n, kind |-> f.kind, by |-> th])
            /\ pc' = [pc EXCEPT ![th] = [op |-> "track", req |-> n, kind |-> f.kind]]
         \/ /\ pc' = [pc EXCEPT ![th] = Idle]
            /\ UNCHANGED <<at, queued, tagged>>
  <2>1. free # <<>> => Head(free) \in Slot
    BY DEF RequestsInv, RequestsTypeOK
  <2> HIDE DEF TrackerInv, TrackInv
  <2> QED
    BY <2>1 DEF Issue, Goes, req_alloc
<1> DEFINE e == [req |-> n, kind |-> f.kind, by |-> th]
           g == [op |-> "track", req |-> n, kind |-> f.kind]
           Issues == n \in Op /\ at[n] = NoSlot /\ pc' = [pc EXCEPT ![th] = g]
<1>7. Issues => e \in TaggedCall /\ e.req = n /\ e.kind = f.kind /\ e.by = th
  BY <1>2 DEF TaggedCall
<1>8. Issues => g \in Frame /\ g.op = "track" /\ g.req = n /\ g.kind = f.kind
  BY <1>2 DEF Frame
<1>9. Idle \in Frame /\ Idle.op = "idle"
  BY DEF Frame, Idle
<1>10. \/ /\ Issues /\ at' = [at EXCEPT ![n] = Head(free)] /\ Head(free) \in Slot
          /\ queued' = queued \cup {n} /\ tagged' = Append(tagged, e)
       \/ pc' = [pc EXCEPT ![th] = Idle] /\ UNCHANGED <<at, queued, tagged>>
  BY <1>6
<1> HIDE DEF e, g
<1>11. /\ pc' \in [Thread -> Frame] /\ (pc'[th] = Idle \/ (Issues /\ pc'[th] = g))
       /\ \A x \in Thread : x # th => pc'[x] = pc[x]
  <2>1. CASE Issues
    BY <1>8, <2>1 DEF TrackTypeOK
  <2>2. CASE pc' = [pc EXCEPT ![th] = Idle]
    BY <1>9, <2>2 DEF TrackTypeOK
  <2> QED
    BY <1>10, <2>1, <2>2
\* Only the request issued becomes busy, and nothing referred to it before.
<1>12. /\ \A o \in Op : at[o] # NoSlot => at'[o] # NoSlot
       /\ \A o \in Op : at[o] # NoSlot /\ Busy(o)' => Busy(o)
       /\ Issues => at'[n] # NoSlot
  <2>1. CASE Issues /\ at' = [at EXCEPT ![n] = Head(free)] /\ Head(free) \in Slot /\ queued' = queued \cup {n}
    <3>1. at \in [Op -> Slot \cup {NoSlot}]
      BY DEF RequestsInv, RequestsTypeOK
    <3>2. \A o \in Op : at[o] # NoSlot => at'[o] # NoSlot /\ o # n
      BY <2>1, <3>1
    <3>3. at'[n] # NoSlot
      BY <2>1, <3>1, NoSlotIsNot
    <3> QED
      BY <1>1, <2>1, <3>2, <3>3 DEF Busy
  <2>2. CASE pc' = [pc EXCEPT ![th] = Idle] /\ UNCHANGED <<at, queued>>
    <3>1. Issues => at'[n] # NoSlot
      <4>1. pc'[th].op = "idle"
        BY <1>9, <2>2 DEF TrackTypeOK
      <4>2. Issues => g.op = "track" /\ pc'[th] = g
        BY <1>8 DEF TrackTypeOK
      <4> QED
        BY <4>1, <4>2
    <3> QED
      BY <1>1, <2>2, <3>1 DEF Busy
  <2> QED
    BY <1>10, <2>1, <2>2
<1>13. \A o \in Op : at[o] # NoSlot => at'[o] # NoSlot /\ (Busy(o)' => Busy(o))
  BY <1>12
<1>14. /\ tagged' \in Seq(TaggedCall) /\ Len(tagged) \in Nat
       /\ \A i \in 1 .. Len(tagged) : i \in 1 .. Len(tagged') /\ tagged'[i] = tagged[i]
       /\ \A i \in 1 .. Len(tagged') : i \in 1 .. Len(tagged) \/
             (i = Len(tagged) + 1 /\ tagged'[i] = e /\ Issues)
  <2>1. tagged \in Seq(TaggedCall) /\ Len(tagged) \in Nat
    BY DEF TrackTypeOK
  <2>2. CASE tagged' = Append(tagged, e) /\ Issues
    <3>0. e \in TaggedCall
      BY <1>7, <2>2
    <3>1. Len(tagged') = Len(tagged) + 1 /\ tagged'[Len(tagged) + 1] = e /\ tagged' \in Seq(TaggedCall)
      BY <2>1, <2>2, <3>0
    <3>2. \A i \in 1 .. Len(tagged) : tagged'[i] = tagged[i]
      BY <2>1, <2>2, <3>0
    <3>3. /\ \A i \in 1 .. Len(tagged) : i \in 1 .. Len(tagged) + 1
          /\ \A i \in 1 .. Len(tagged) + 1 : i \in 1 .. Len(tagged) \/ i = Len(tagged) + 1
      BY <2>1
    <3> QED
      BY <2>1, <2>2, <3>1, <3>2, <3>3
  <2>3. CASE tagged' = tagged
    BY <2>1, <2>3
  <2> QED
    BY <1>10, <2>2, <2>3
<1>15. TrackTypeOK'
  BY <1>3, <1>11, <1>14 DEF TrackTypeOK
<1>16. (Issues /\ pc'[th] = g) \/ pc'[th].op = "idle"
  BY <1>9, <1>11
<1> HIDE DEF Issues
<1>17. \A x \in Thread : pc'[x].op = "scan" => x # th /\ pc'[x] = pc[x] /\ q'[x] = q[x]
  BY <1>3, <1>8, <1>11, <1>16
<1>18. Issued'
  <2>1. \A i \in 1 .. Len(tagged') : at'[tagged'[i].req] # NoSlot
    <3> TAKE i \in 1 .. Len(tagged')
    <3>1. CASE i \in 1 .. Len(tagged)
      BY <1>13, <1>14, <3>1, ElementFacts DEF Issued
    <3>2. CASE tagged'[i] = e /\ Issues
      BY <1>7, <1>12, <3>2
    <3> QED
      BY <1>14, <3>1, <3>2
  <2>2. \A x \in Thread : \A k \in 1 .. Len(q'[x]) : at'[q'[x][k].req] # NoSlot
    <3>1. \A k \in 1 .. Len(f.keep) : at'[f.keep[k].req] # NoSlot
      BY <1>1, <1>13, ElementFacts DEF Issued
    <3>2. \A x \in Thread : \A k \in 1 .. Len(q[x]) : at'[q[x][k].req] # NoSlot
      BY <1>13, ElementFacts DEF Issued
    <3> QED
      BY <1>3, <3>1, <3>2
  <2>3. \A x \in Thread : pc'[x].op = "scan" =>
           \A k \in 1 .. Len(pc'[x].keep) : at'[pc'[x].keep[k].req] # NoSlot
    <3> SUFFICES ASSUME NEW x \in Thread, pc'[x].op = "scan"
                 PROVE  \A k \in 1 .. Len(pc'[x].keep) : at'[pc'[x].keep[k].req] # NoSlot
      OBVIOUS
    <3>1. pc'[x] = pc[x] /\ pc[x].op = "scan"
      BY <1>17
    <3>2. \A k \in 1 .. Len(pc[x].keep) : at'[pc[x].keep[k].req] # NoSlot
      BY <1>13, <3>1, ElementFacts DEF Issued
    <3> QED
      BY <3>1, <3>2
  <2>4. \A x \in Thread : pc'[x].op = "track" => at'[pc'[x].req] # NoSlot
    <3> SUFFICES ASSUME NEW x \in Thread, pc'[x].op = "track" PROVE at'[pc'[x].req] # NoSlot
      OBVIOUS
    <3>1. CASE x = th
      BY <1>8, <1>12, <1>16, <3>1
    <3>2. CASE x # th
      <4>1. pc'[x] = pc[x] /\ pc[x].op = "track"
        BY <1>11, <3>2
      <4>2. pc[x].req \in Op /\ at[pc[x].req] # NoSlot
        BY <4>1, PcFacts DEF Issued
      <4> QED
        BY <1>13, <4>1, <4>2
    <3> QED
      BY <3>1, <3>2
  <2> QED
    BY <2>1, <2>2, <2>3, <2>4 DEF Issued
<1>19. TrackerHasIt'
  <2> SUFFICES ASSUME NEW i \in 1 .. Len(tagged'), NEW o, NEW x, NEW c, Busy(o)',
                      o = tagged'[i].req, x = tagged'[i].by, c = tagged'[i].kind
               PROVE  \/ \E k \in 1 .. Len(q'[x]) : q'[x][k].req = o /\ q'[x][k].kind = c
                      \/ pc'[x].op = "track" /\ pc'[x].req = o /\ pc'[x].kind = c
    BY DEF TrackerHasIt, Busy
  <2>1. CASE i \in 1 .. Len(tagged)
    <3>1. /\ tagged[i].req = o /\ tagged[i].by = x /\ tagged[i].kind = c
          /\ o \in Op /\ x \in Thread /\ Busy(o)
      BY <1>13, <1>14, <2>1, ElementFacts DEF Issued
    <3>2. CASE x = th
      <4>1. Busy(tagged[i].req) /\ tagged[i].by = th
        BY <3>1, <3>2
      <4>2. PICK m \in 1 .. Len(f.keep) : f.keep[m].req = tagged[i].req /\ f.keep[m].kind = tagged[i].kind
        BY <1>5, <2>1, <4>1
      <4> QED
        BY <1>3, <3>1, <3>2, <4>2
    <3>3. CASE x # th
      <4>1. q'[x] = q[x] /\ pc'[x] = pc[x]
        BY <1>3, <1>11, <3>1, <3>3
      <4> QED
        BY <2>1, <3>1, <4>1 DEF TrackerHasIt
    <3> QED
      BY <3>2, <3>3
  <2>2. CASE tagged'[i] = e /\ Issues
    <3>1. o = n /\ x = th /\ c = f.kind
      BY <1>7, <2>2
    <3>2. pc'[th] = g /\ g.op = "track" /\ g.req = n /\ g.kind = f.kind
      BY <1>8, <2>2 DEF Issues, TrackTypeOK
    <3> QED
      BY <3>1, <3>2
  <2> QED
    BY <1>14, <2>1, <2>2
<1>20. ScanKeeps'
  <2> SUFFICES ASSUME NEW x \in Thread, pc'[x].op = "scan",
                      NEW k \in 1 .. Len(q'[x]), NEW o, k < pc'[x].i, Busy(o)', o = q'[x][k].req
               PROVE  /\ ~token_conflicts(q'[x][k].kind, pc'[x].kind)
                      /\ \E m \in 1 .. Len(pc'[x].keep) : pc'[x].keep[m] = q'[x][k]
    BY DEF ScanKeeps, Busy, token_conflicts
  <2>1. pc'[x] = pc[x] /\ q'[x] = q[x]
    BY <1>17
  <2>2. k \in 1 .. Len(q[x]) /\ o = q[x][k].req /\ pc[x].op = "scan" /\ k < pc[x].i
    BY <2>1
  <2>3. o \in Op /\ Busy(o)
    BY <1>13, <2>2, ElementFacts DEF Issued
  <2> QED
    BY <2>1, <2>2, <2>3 DEF ScanKeeps
\* None that is busy conflicts with the new request.
<1>21. TaggedOrder'
  <2> SUFFICES ASSUME NEW i \in 1 .. Len(tagged'), NEW j \in 1 .. Len(tagged'), NEW o, i < j,
                      o = tagged'[i].req, tagged'[i].by = tagged'[j].by,
                      token_conflicts(tagged'[i].kind, tagged'[j].kind), Busy(o)'
               PROVE  FALSE
    <3>1. DOMAIN tagged' = 1 .. Len(tagged')
      BY <1>14
    <3> QED
      BY <3>1 DEF TaggedOrder, Busy, token_conflicts
  <2>1. i \in 1 .. Len(tagged)
    BY <1>14
  <2>2. tagged'[i] = tagged[i] /\ o = tagged[i].req /\ o \in Op /\ Busy(o)
    BY <1>13, <1>14, <2>1, ElementFacts DEF Issued
  <2>3. CASE j \in 1 .. Len(tagged)
    <3>1. tagged'[j] = tagged[j] /\ i \in DOMAIN tagged /\ j \in DOMAIN tagged
      BY <1>14, <2>1, <2>3 DEF TrackTypeOK
    <3> QED
      BY <2>1, <2>2, <2>3, <3>1 DEF TaggedOrder, Busy
  <2>4. CASE tagged'[j] = e /\ Issues
    BY <1>5, <1>7, <2>1, <2>2, <2>4
  <2> QED
    BY <1>14, <2>3, <2>4
<1> QED
  BY <1>15, <1>18, <1>19, <1>20, <1>21

LEMMA StepTrack == TrackerInv /\ [Next]_vars => TrackInv'
<1> SUFFICES ASSUME TrackerInv, [Next]_vars PROVE TrackInv'
  OBVIOUS
<1> USE DEF TrackerInv, TrackInv
<1>1. ASSUME UNCHANGED <<at, q, pc, tagged>>, struck \subseteq struck',
             queued' \cup kernel' \subseteq queued \cup kernel
      PROVE  TrackInv'
  BY <1>1, QuietTrack DEF TrackTypeOK, Busy
<1>2. CASE UNCHANGED vars
  BY <1>1, <1>2 DEF vars, slotVars, ringVars, threadVars, pastVars
<1>3. CASE Submit
  BY <1>1, <1>3 DEF Submit, slotVars, threadVars, pastVars
<1>4. ASSUME NEW o \in Op, KernelCompletes(o) PROVE TrackInv'
  BY <1>1, <1>4 DEF KernelCompletes, slotVars, threadVars, pastVars
<1>5. ASSUME NEW th \in Thread, NEW o \in Op, Result(th, o) PROVE TrackInv'
  <2> DEFINE f == [op |-> "result", req |-> o]
  <2>1. f \in Frame /\ f.op = "result"
    BY DEF Frame
  <2>2. /\ pc[th].op = "idle" /\ pc' = [pc EXCEPT ![th] = f]
        /\ UNCHANGED <<at, q, queued, kernel, struck, tagged>>
    BY <1>5 DEF Result, Goes, Idle, slotVars, ringVars, pastVars
  <2> HIDE DEF f
  <2> QED
    BY <2>1, <2>2, QuietTrack DEF TrackTypeOK, Busy
<1>6. ASSUME NEW th \in Thread, Collects(th) PROVE TrackInv'
  <2>1. Idle \in Frame /\ Idle.op = "idle"
    BY DEF Frame, Idle
  <2>2. /\ pc[th].op = "result" /\ pc' = [pc EXCEPT ![th] = Idle]
        /\ UNCHANGED <<at, q, queued, kernel, struck, tagged>>
    BY <1>6 DEF Collects, Goes, ringVars, pastVars
  <2> QED
    BY <2>1, <2>2, QuietTrack DEF TrackTypeOK, Busy
<1>7. ASSUME NEW th \in Thread, Steps(th) PROVE TrackInv'
  <2>1. CASE WaitSubmits(th)
    BY <1>1, <2>1 DEF WaitSubmits, slotVars, pastVars
  <2>2. CASE WaitEnds(th) \/ DrainBegins(th) \/ DrainLooks(th)
    BY <1>1, <2>2 DEF WaitEnds, DrainBegins, DrainLooks, slotVars, ringVars, pastVars
  <2>3. CASE DrainResult(th) \/ DrainState(th)
    BY <1>1, <2>3 DEF DrainResult, DrainState, Strikes, ringVars
  <2>4. CASE DrainEnds(th)
    BY <1>1, <2>4 DEF DrainEnds, slotVars, pastVars
  <2> QED
    BY <1>6, <1>7, <2>1, <2>2, <2>3, <2>4, ScanTrack, IssueTrack, TrackTrack DEF Steps
<1>8. ASSUME NEW th \in Thread, NEW k \in Kinds, Tag(th, k) PROVE TrackInv'
  BY <1>8, TagTrack
<1> QED
  BY <1>2, <1>3, <1>4, <1>5, <1>7, <1>8 DEF Next

-----------------------------------------------------------------------------
LEMMA StepTracker == TrackerInv /\ [Next]_vars => TrackerInv'
BY StepRequests, StepTrack DEF TrackerInv

(* A tagged call comes after every earlier one of its tracker that it      *)
(* conflicts with and that was not struck by a late write to its slot      *)
(* (fasync_token.c, with the drains of fasync_native.c), for any number of *)
(* threads, requests and slots and any length of the queue.                *)
THEOREM TaggedCallsInOrder == Spec => []TaggedOrder
<1>1. TrackerInv => TaggedOrder
  BY DEF TrackerInv, TrackInv
<1> QED
  BY <1>1, InitTracker, StepTracker, PTL DEF Spec

(* No completion that a drain without the lock passes over is lost or      *)
(* taken for another's (fasync_native.c), of a request that no late write  *)
(* to its slot has struck, though slots are used again.                    *)
THEOREM NoCompletionLost == Spec => []CompletionsKept
<1>1. TrackerInv => CompletionsKept
  <2> SUFFICES ASSUME TrackerInv PROVE CompletionsKept
    OBVIOUS
  <2>1. \A i \in 1 .. head : Applied(cq[i])
    BY DEF TrackerInv, RequestsInv, HeadApplied
  <2>2. \A o \in Op \ struck : got[o] \subseteq {o}
    BY DEF TrackerInv, RequestsInv, OwnResults
  <2> QED
    BY <2>1, <2>2 DEF CompletionsKept, Applied, Live
<1> QED
  BY <1>1, InitTracker, StepTracker, PTL DEF Spec
=============================================================================
