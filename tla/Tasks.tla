------------------------------- MODULE Tasks -------------------------------
(***************************************************************************)
(* Tasks of the framework (filc_async.c): the list of running tasks, the   *)
(* handles not yet delivered, poll, wait and get_stats.                    *)
(*                                                                         *)
(* get_stats walks the list and lets g_lock go at every task, to poll it;  *)
(* the task it stands on may be unlinked meanwhile, and its neighbours     *)
(* too. Several threads may poll and wait for one handle. Hashing and the  *)
(* growth of the handle table are left out: it is a set and a count. So    *)
(* are the tasks of wait_all's groups, which are in the list too but have  *)
(* no handle (WaitAll has them). The walk's moves between two polls are    *)
(* separate steps here although g_lock is kept over them, which only adds  *)
(* behaviours.                                                             *)
(***************************************************************************)
EXTENDS Integers, Sequences, FiniteSets

CONSTANTS
    Thread,
    Task,
    Lazy,   \* tasks whose runtime reports only when polled
    NoTask

ASSUME NoTaskIsNot == NoTask \notin Task
ASSUME LazyTasks == Lazy \subseteq Task

VARIABLES
    state,     \* new, running or over (done or failed)
    older, newer, newest, oldest,   \* g_running
    handled,   \* tasks in g_handles
    nhandles,  \* g_nhandles
    ready,     \* tasks whose runtime has a result to report
    pc,        \* what each thread is doing
    begun      \* all tasks in the order they began; the code has no such list

listVars == <<older, newer, newest, oldest>>
handleVars == <<handled, nhandles>>
taskVars == <<state, listVars, handleVars, ready, pc, begun>>

Idle == [op |-> "idle"]
Running == {t \in Task : state[t] = "running"}
Goes(th, x) == pc' = [pc EXCEPT ![th] = x]

-----------------------------------------------------------------------------
(* The list of running tasks *)

running_add(t) ==
    /\ newer' = [u \in Task |-> IF u = t THEN NoTask ELSE IF u = newest THEN t ELSE newer[u]]
    /\ older' = [older EXCEPT ![t] = newest]
    /\ oldest' = IF newest = NoTask THEN t ELSE oldest
    /\ newest' = t

\* Mutant: the task's own links are cleared.
running_remove_cleared(t) ==
    /\ older' = [u \in Task |-> IF u = t THEN NoTask ELSE IF u = newer[t] THEN older[t] ELSE older[u]]
    /\ newer' = [u \in Task |-> IF u = t THEN NoTask ELSE IF u = older[t] THEN newer[t] ELSE newer[u]]
    /\ newest' = IF newer[t] = NoTask THEN older[t] ELSE newest
    /\ oldest' = IF older[t] = NoTask THEN newer[t] ELSE oldest

(* The task keeps its own links, for a walker that stands on it. *)
running_remove(t) ==
    /\ older' = [u \in Task |-> IF u = newer[t] THEN older[t] ELSE older[u]]
    /\ newer' = [u \in Task |-> IF u = older[t] THEN newer[t] ELSE newer[u]]
    /\ newest' = IF newer[t] = NoTask THEN older[t] ELSE newest
    /\ oldest' = IF older[t] = NoTask THEN newer[t] ELSE oldest

-----------------------------------------------------------------------------
(* The life of a task *)

\* task_start, with running_add and handle_add
Begin(t) ==
    /\ state[t] = "new"
    /\ state' = [state EXCEPT ![t] = "running"]
    /\ running_add(t)
    /\ handled' = handled \cup {t}
    /\ nhandles' = nhandles + 1
    /\ begun' = Append(begun, t)
    /\ UNCHANGED <<ready, pc>>

\* The work behind a task is over.
WorkDone(t) ==
    /\ t \in Running \ ready
    /\ ready' = ready \cup {t}
    /\ UNCHANGED <<state, listVars, handleVars, pc, begun>>

\* Mutant: a task is completed as often as it is reported.
filc_async_complete_again(t) ==
    /\ state' = [state EXCEPT ![t] = "over"]
    /\ running_remove(t)

\* filc_async_complete: only the first report counts.
filc_async_complete(t) ==
    \/ /\ state[t] = "running"
       /\ state' = [state EXCEPT ![t] = "over"]
       /\ running_remove(t)
    \/ /\ state[t] # "running"
       /\ UNCHANGED <<state, listVars>>

\* A runtime with threads of its own reports.
RuntimeReports(t) ==
    /\ t \in (Running \cap ready) \ Lazy
    /\ filc_async_complete(t)
    /\ UNCHANGED <<handleVars, ready, pc, begun>>

\* What a poll of t does, in the end, without g_lock.
RuntimePolled(t) ==
    \/ t \in ready /\ filc_async_complete(t)
    \/ t \notin ready /\ UNCHANGED <<state, listVars>>

-----------------------------------------------------------------------------
(* poll and wait *)

retire_task(t) ==
    LET leaves == state[t] # "running" /\ t \in handled IN
    /\ handled' = IF leaves THEN handled \ {t} ELSE handled
    /\ nhandles' = IF leaves THEN nhandles - 1 ELSE nhandles

(* filc_async_poll and filc_async_wait find a task by its handle, and keep *)
(* a pointer to it from then on. A handle that was delivered finds nothing *)
(* and nothing happens.                                                    *)
Finds(th, t, op) ==
    /\ pc[th] = Idle
    /\ t \in handled
    /\ Goes(th, [op |-> op, task |-> t, asked |-> state[t] # "running"])
    /\ UNCHANGED <<state, listVars, handleVars, ready, begun>>

\* g_lock is dropped to ask the runtime; a wait asks until it is over.
Asks(th) ==
    /\ pc[th].op \in {"poll", "wait"}
    /\ ~pc[th].asked
    /\ pc[th].op = "wait" => pc[th].task \in ready
    /\ RuntimePolled(pc[th].task)
    /\ Goes(th, [pc[th] EXCEPT !.asked = TRUE])
    /\ UNCHANGED <<handleVars, ready, begun>>

Delivers(th) ==
    /\ pc[th].op \in {"poll", "wait"}
    /\ pc[th].asked
    /\ retire_task(pc[th].task)
    /\ Goes(th, Idle)
    /\ UNCHANGED <<state, listVars, ready, begun>>

-----------------------------------------------------------------------------
(* get_stats. due: what its caller has a right to see in the counts.       *)

StatsCalled(th) ==
    /\ pc[th] = Idle
    /\ Goes(th, [op |-> "stats", task |-> oldest, asked |-> FALSE, due |-> Running \cap ready])
    /\ UNCHANGED <<state, listVars, handleVars, ready, begun>>

\* g_lock is dropped to poll the task, with CHECK.
StatsAsks(th) ==
    /\ pc[th].op = "stats"
    /\ pc[th].task \in Running
    /\ ~pc[th].asked
    /\ RuntimePolled(pc[th].task)
    /\ Goes(th, [pc[th] EXCEPT !.asked = TRUE])
    /\ UNCHANGED <<handleVars, ready, begun>>

StatsMoves(th) ==
    /\ pc[th].op = "stats"
    /\ pc[th].task # NoTask
    /\ pc[th].asked \/ pc[th].task \notin Running
    /\ Goes(th, [pc[th] EXCEPT !.task = newer[@], !.asked = FALSE])
    /\ UNCHANGED <<state, listVars, handleVars, ready, begun>>

StatsReturns(th) ==
    /\ pc[th].op = "stats"
    /\ pc[th].task = NoTask
    /\ Goes(th, Idle)
    /\ UNCHANGED <<state, listVars, handleVars, ready, begun>>

-----------------------------------------------------------------------------
TasksInit ==
    /\ state = [t \in Task |-> "new"]
    /\ older = [t \in Task |-> NoTask]
    /\ newer = [t \in Task |-> NoTask]
    /\ newest = NoTask
    /\ oldest = NoTask
    /\ handled = {}
    /\ nhandles = 0
    /\ ready = {}
    /\ pc = [th \in Thread |-> Idle]
    /\ begun = <<>>

TasksNext ==
    \/ \E t \in Task : Begin(t) \/ WorkDone(t) \/ RuntimeReports(t)
    \/ \E th \in Thread, t \in Task, op \in {"poll", "wait"} : Finds(th, t, op)
    \/ \E th \in Thread : Asks(th) \/ Delivers(th)
    \/ \E th \in Thread : StatsCalled(th) \/ StatsAsks(th) \/ StatsMoves(th) \/ StatsReturns(th)

TasksSpec == TasksInit /\ [][TasksNext]_taskVars

-----------------------------------------------------------------------------
(* Properties *)

\* t began before u.
Before(t, u) == \E i, j \in DOMAIN begun : i < j /\ begun[i] = t /\ begun[j] = u

\* x is the task of S that began first, or last; NoTask if S is empty.
FirstOf(x, S) == IF S = {} THEN x = NoTask ELSE x \in S /\ \A u \in S \ {x} : Before(x, u)
LastOf(x, S) == IF S = {} THEN x = NoTask ELSE x \in S /\ \A u \in S \ {x} : Before(u, x)

(* The list holds exactly the running tasks, oldest first, in both         *)
(* directions: what running_remove leaves behind in the tasks it takes out *)
(* never leaks into the list, and no task is taken out twice. g_nhandles   *)
(* is the number of handles in the table, however many threads deliver one *)
(* completion, and a running task can always be found by its handle.       *)
TablesExact ==
    /\ FirstOf(oldest, Running)
    /\ LastOf(newest, Running)
    /\ \A t \in Running :
          /\ FirstOf(newer[t], {u \in Running : Before(t, u)})
          /\ LastOf(older[t], {u \in Running : Before(u, t)})
    /\ nhandles = Cardinality(handled)
    /\ Running \subseteq handled

(* "so the counts include calls that finished without anyone asking": when *)
(* get_stats has come to the end of its walk, every call that had finished *)
(* when it was called has been completed and counted, whatever tasks were  *)
(* unlinked under it.                                                      *)
StatsSeeFinished ==
    \A th \in Thread :
        pc[th].op = "stats" /\ pc[th].task = NoTask => pc[th].due \cap Running = {}

=============================================================================
