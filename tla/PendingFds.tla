----------------------------- MODULE PendingFds -----------------------------
(***************************************************************************)
(* Handles for opens in flight (fasync_syscalls.c, g_pending_fds): an open *)
(* is queued and a negative handle stands for its descriptor until the     *)
(* first use waits for it.                                                 *)
(*                                                                         *)
(* Operations on a handle resolve it with fasync_lock held. The program    *)
(* may also call fasync_fd_resolve itself (use "public"), which takes the  *)
(* lock only inside fasync_result.                                         *)
(***************************************************************************)
EXTENDS Integers

CONSTANTS
    Thread,
    Open,          \* the program's fasync_open_pendings
    MaxPendingFds, \* FASYNC_MAX_PENDING_FDS
    NoOpen

ASSUME NoOpenIsNot == NoOpen \notin Open
ASSUME MaxPendingFdsNat == MaxPendingFds \in Nat

VARIABLES
    fds,       \* g_pending_fds
    handle,    \* what each open was given: 0 nothing yet, -1 no room
    answer,    \* what the kernel answers each open, once it does
    live,      \* opens whose request has not been collected
    busy,      \* the thread with fasync_lock, if it keeps it
    pc,        \* what each thread is doing
    got,       \* what each use of an open's handle found, of the last use
    overlapped \* history: opens two threads have resolved at once

vars == <<fds, handle, answer, live, busy, pc, got, overlapped>>

Index == 0 .. MaxPendingFds - 1
Use == {"public", "io", "close"}
Idle == [op |-> "idle"]
NoThread == "none"

\* An fd, or an errno: of which open, or the EINVAL of a dead request.
None == [open |-> NoOpen, res |-> "none"]
\* Zeroed memory reads as descriptor 0.
Zero == [open |-> NoOpen, res |-> "fd"]
EINVAL == [open |-> NoOpen, res |-> "EINVAL"]

\* fasync_pending_fd_new and _lookup: -1 stays the failure value.
FdOf(i) == -(i + 2)
IndexOf(fd) == -fd - 2
IsHandle(fd) == fd < -1 /\ fd >= -(MaxPendingFds + 1) /\ fds[IndexOf(fd)].used

Unlocked == busy = NoThread
Goes(t, x) == pc' = [pc EXCEPT ![t] = x]

-----------------------------------------------------------------------------
(* fasync_open_pending: the open is queued; then, with the lock taken      *)
(* again, it gets the first free handle, if there is one.                  *)
Queue(t, o) ==
    /\ pc[t] = Idle
    /\ Unlocked
    /\ handle[o] = 0
    /\ o \notin live
    /\ answer[o] = None
    /\ live' = live \cup {o}
    /\ Goes(t, [op |-> "new", open |-> o])
    /\ UNCHANGED <<fds, handle, answer, busy, got, overlapped>>

\* Mutant: a handle given out again keeps its request.
Fresh_request(p, o) ==
    [p EXCEPT !.used = TRUE, !.resolved = FALSE, !.id = IF @ = NoOpen THEN o ELSE @]

\* fasync_pending_fd_new, what becomes of the entry.
Fresh(p, o) == [p EXCEPT !.used = TRUE, !.resolved = FALSE, !.id = o]

PendingFdNew(t) ==
    /\ pc[t].op = "new"
    /\ Unlocked
    /\ LET o == pc[t].open
           unused == {i \in Index : ~fds[i].used} IN
       \/ /\ unused = {}
          /\ handle' = [handle EXCEPT ![o] = -1]
          /\ UNCHANGED fds
       \/ \E i \in unused :
          /\ \A j \in unused : i =< j
          /\ fds' = [fds EXCEPT ![i] = Fresh(@, o)]
          /\ handle' = [handle EXCEPT ![o] = FdOf(i)]
    /\ Goes(t, Idle)
    /\ UNCHANGED <<answer, live, busy, got, overlapped>>

\* The kernel opens the file, or does not.
KernelOpens(o) ==
    /\ o \in live
    /\ answer[o] = None
    /\ \E res \in {"fd", "error"} : answer' = [answer EXCEPT ![o] = [open |-> o, res |-> res]]
    /\ UNCHANGED <<fds, handle, live, busy, pc, got, overlapped>>

-----------------------------------------------------------------------------
(* fasync_fd_resolve. A use other than the public one has the lock from    *)
(* beginning to end.                                                       *)

(* The use u of open o's handle ends, having found v. A close drops the    *)
(* handle, unless the close of a real fd could not be queued.              *)
Uses(t, u, o, v, entry) ==
    /\ got' = [got EXCEPT ![o] = v]
    /\ \/ /\ u = "close"
          /\ fds' = [fds EXCEPT ![IndexOf(handle[o])] = [entry EXCEPT !.used = FALSE]]
          /\ handle' = [handle EXCEPT ![o] = 0]
       \/ /\ u = "close" => v.res = "fd"
          /\ fds' = [fds EXCEPT ![IndexOf(handle[o])] = entry]
          /\ UNCHANGED handle
    /\ Goes(t, Idle)
    /\ busy' = IF u = "public" THEN busy ELSE NoThread

\* Who has found o's entry unresolved and has not stored its outcome yet.
Resolving(o) == {t \in Thread : pc[t].op \in {"resolve", "store"} /\ pc[t].open = o}

\* Up to the test of resolved. Nobody uses a handle that is being closed.
Resolve(t, o, u) ==
    /\ pc[t] = Idle
    /\ u # "public" => Unlocked
    /\ IsHandle(handle[o])
    /\ u = "close" => Resolving(o) = {}
    /\ \A x \in Resolving(o) : pc[x].use # "close"
    /\ LET p == fds[IndexOf(handle[o])] IN
       \/ /\ p.resolved
          /\ Uses(t, u, o, p.result, p)
          /\ UNCHANGED overlapped
       \/ /\ ~p.resolved
          /\ Goes(t, [op |-> "resolve", open |-> o, use |-> u])
          /\ busy' = IF u = "public" THEN busy ELSE t
          /\ overlapped' = IF Resolving(o) = {} THEN overlapped ELSE overlapped \cup {o}
          /\ UNCHANGED <<fds, handle, got>>
    /\ UNCHANGED <<answer, live>>

\* fasync_result(p->id): waits for a live request and releases it.
Result(t) ==
    /\ pc[t].op = "resolve"
    /\ IF pc[t].use = "public" THEN Unlocked ELSE busy = t
    /\ LET id == fds[IndexOf(handle[pc[t].open])].id IN
       /\ id \in live => answer[id] # None
       /\ live' = live \ {id}
       /\ Goes(t, [op |-> "store", open |-> pc[t].open, use |-> pc[t].use,
                   v |-> IF id \in live THEN answer[id] ELSE EINVAL])
    /\ UNCHANGED <<fds, handle, answer, busy, got, overlapped>>

\* Mutant: the flag is set and the outcome is not kept.
Store_flag(t) ==
    /\ pc[t].op = "store"
    /\ LET o == pc[t].open
           entry == [fds[IndexOf(handle[o])] EXCEPT !.resolved = TRUE] IN
       Uses(t, pc[t].use, o, pc[t].v, entry)
    /\ UNCHANGED <<answer, live, overlapped>>

\* The outcome is kept in the entry.
Store(t) ==
    /\ pc[t].op = "store"
    /\ LET o == pc[t].open
           entry == [fds[IndexOf(handle[o])] EXCEPT !.result = pc[t].v, !.resolved = TRUE] IN
       Uses(t, pc[t].use, o, pc[t].v, entry)
    /\ UNCHANGED <<answer, live, overlapped>>

-----------------------------------------------------------------------------
Init ==
    /\ fds = [i \in Index |-> [used |-> FALSE, resolved |-> FALSE, id |-> NoOpen, result |-> Zero]]
    /\ handle = [o \in Open |-> 0]
    /\ answer = [o \in Open |-> None]
    /\ live = {}
    /\ busy = NoThread
    /\ pc = [t \in Thread |-> Idle]
    /\ got = [o \in Open |-> None]
    /\ overlapped = {}

Next ==
    \/ \E t \in Thread : PendingFdNew(t) \/ Result(t) \/ Store(t)
    \/ \E t \in Thread, o \in Open : Queue(t, o) \/ \E u \in Use : Resolve(t, o, u)
    \/ \E o \in Open : KernelOpens(o)

Spec == Init /\ [][Next]_vars

-----------------------------------------------------------------------------
(* Properties *)

(* A handle means the open it was given out for: every use of it, on any   *)
(* thread, finds the descriptor of that open, or that open's error, though *)
(* entries are given out again and requests are released. One exception:   *)
(* when two threads resolve it at once, the program's own resolve among    *)
(* them, the later finds the request gone and -EINVAL takes the place of   *)
(* the descriptor; but even then it never is another open's.               *)
HandleMeansItsOpen ==
    \A o \in Open : got[o] # None =>
        got[o] = answer[o] \/ (o \in overlapped /\ got[o] = EINVAL)

(* No entry is lost and none is shared: the entries in use are those of    *)
(* the handles the program has and has not closed, failed opens included,  *)
(* each for one open. And no request is lost: one that has not been        *)
(* collected can still be, through an unresolved entry, unless it has no   *)
(* entry yet, or there was no room for one, when its slot and its          *)
(* descriptor are lost for good.                                           *)
RequestsReachable ==
    /\ {i \in Index : fds[i].used} = {IndexOf(handle[o]) : o \in {q \in Open : handle[q] < -1}}
    /\ \A o, q \in Open : handle[o] < -1 /\ handle[o] = handle[q] => o = q
    /\ \A o \in live :
          \/ \E t \in Thread : pc[t].op = "new" /\ pc[t].open = o
          \/ handle[o] = -1
          \/ IsHandle(handle[o]) /\ LET p == fds[IndexOf(handle[o])]
                                     IN p.id = o /\ ~p.resolved

=============================================================================
