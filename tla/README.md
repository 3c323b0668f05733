# A TLA+ model of filc_async

filc_async lets a C program built with Fil-C call annotated functions
asynchronously without saying so: a compiler pass replaces each annotated
function by a *stub* that hands the call to a *runtime* and returns at once; the
*framework* keeps the program from noticing. The specifications here model the
framework (`src/runtime/framework`), what the pass emits
(`src/compiler/pass/FilAsync.cpp`), the io_uring runtime with its request layer
(`src/runtime/io_uring`), and the rpc runtime (`src/runtime/rpc`) with the demos'
server behind it.

## The system

### Components, their state and operations

| component | state | operations |
|---|---|---|
| dependency locks (`filc_async.c` 234-456) | hash table of lock records with holder list, waiter queue, counts; free list | `lock_get`, `lock_conflict`, `lock_take`, `locks_release` |
| pending marks (`filc_async.c` 458-788), access flag (`filc_async_native.c`) | per object: write and read marks with owners; a flag in the object's header | `mark_pending`, `mark_shared`, `mark_input`, `mark_resolved`, `resolve_buffer`, `wait_buffer`, `wait_access`, the access hook |
| tasks and handles (`filc_async.c` 30-232, 930-1094) | running list, handle table, counts, result of each task | `begin`, `task_new`, `submit`, `complete`, `run`, `poll`, `wait`, `get_stats` |
| wait_all groups (`filc_async.c` 790-928) | snapshot of marks and generations; a token with a mark of its own | `wait_all`, `join_poll` |
| validation (`filc_async.c` 1096-1135) | validator hook | `validate_table`, `dependencies_ok` |
| compiler pass (`FilAsync.cpp`) | annotated functions of the unit, their descriptors | enrol, parse options, rename, describe, redirect calls, erase annotations; the stub: stage, begin, locks, outputs, inputs, submit |
| io_uring runtime (`filc_async_uring.c`) | list of calls with a request in flight | submit, poll (CHECK, PROGRESS, BLOCK), `reclaim`, explicit reads |
| ring and requests (`fasync.c`, `fasync_native.c`) | request slots with generations, free list, submission queue, `g_inflight` | push, submit, drain, wait |
| pending fds (`fasync_syscalls.c`) | table of handles for opens in flight | `open_pending`, `fd_resolve`, `close` |
| trackers (`fasync_token.c`), batches (`fasync_dep.c`) | queue of tagged requests; edges of a batch | tagged read and write; `build_dag`, `run_dag` |
| arena (`filc_async_arena.c`) | current block, the allocator installed | alloc, set allocator |
| rpc runtime (`rpc_runtime.c`) | a lock, a socket and buffer positions per call | submit, poll, `advance` |
| demo server (`rpc_server.c`) | a counter | a thread for each connection: read, count, reply, close |

### How they interact

A stub calls, on the program's thread, `filc_async_begin`, then
`filc_async_lock_*` for each dependency argument, `filc_async_mark_pending` for
each output, `filc_async_mark_input` for each input, and `filc_async_submit`,
which calls the runtime. The runtime runs the call's body with
`filc_async_run` (in submit, or in a later poll on whatever thread polls), moves
data when it likes, and reports `filc_async_complete`, from any thread. The
framework asks a runtime for progress only through `poll`. Compiled code tests
the header flag before each access and enters the framework if it is set.
One mutex, `g_lock`, guards the framework's state; it is dropped around
every runtime call, so every wait is a point where everything may change.

### What is hard

* threads interleave at each drop of `g_lock`, with pointers to lock and mark
  records, chosen holders and a computed `own` kept across it;
* runtimes read inputs and write outputs late, and complete in any order;
* bodies run on threads that are waiting for something, and make calls and
  accesses themselves, so stacks of waits build up on one thread;
* locks, marks and bodies make a waits-for graph, and nothing detects a cycle;
* records are recycled;
* the flag is read without the lock;
* the io_uring runtime keeps one lock while it waits for the kernel, request ids
  outlive their slots, and some of its functions do without the lock;
* the rpc runtime keeps a request's lock while it waits for another call, sends and
  receives in pieces from whatever thread polls, and closes descriptors whose numbers the
  next call gets;
* pass, framework and runtimes must agree on descriptors and staged arguments, across
  units compiled apart.

### What makes each component correct

Locks: readers share, a writer is alone, arrival order among conflicting
requests, no record recycled under a user, nobody starves. Marks: the flag says
exactly what the marks say. Marks and hook together: the program and every call
see what a blocking program would. Stacks of waits: every thread returns, for
programs that keep to a stated discipline. Groups: complete when the last mark
of the snapshot is gone, not before and not never. io_uring: a request is
answered once, by its own completion; a full table delays and does not fail.
Pending fds: a handle means its own open. Trackers and batches: conflicting
requests run in order, others are not held back, and a batch comes to an end. Pass:
a descriptor says what the annotation means, every call still reaches its body, and a program
that compiles is not stopped at startup for what the pass emitted. Arena: nothing handed
out overlaps. Staging: a body gets the arguments of its call. rpc: a call ends with its own
answer, in call order, and gives its descriptor back.

## Modules

| module | models |
|---|---|
| `DepLocks` | dependency locks |
| `PendingMarks` | marks and flag |
| `BlockingCalls` | abstract: annotated calls as blocking calls |
| `BufferData` | `PendingMarks` with the data of the objects; implements `BlockingCalls` |
| `CallStack` | `PendingMarks` with threads as stacks of frames: who waits for whom |
| `WaitAll` | groups, with mark records and generations |
| `Tasks` | running list, handles, poll, wait, statistics |
| `Ring` | request slots, generations, queues and the kernel, as operators on a ring |
| `UringRuntime` | the io_uring runtime and the explicit API over `Ring` |
| `PendingFds` | handles for opens in flight |
| `Trackers` | tagged requests, with the drain of the completion queue step by step |
| `Dag` | batches of operations: conflicts, edges, the loop of `run_dag` |
| `Descriptors` | what pass and runtimes agree on; `dependencies_ok` and the runtimes' tests of a shape |
| `AsyncPass` | the compiler pass over the units of a program, then startup validation |
| `Arena` | the bump allocator |
| `Staging` | arguments staged by stubs in memory of `Arena`, thunks, lock keys |
| `RpcRuntime` | the rpc runtime, its sockets and the server, with the framework calling it |
| `Stubs_proofs` | theorems about `DepLocks` and `AsyncPass` |
| `Marks_proofs` | theorems about `PendingMarks`, `BufferData` and `CallStack` |
| `Calls_proofs` | theorems about `Arena`, `Staging` and `Tasks` |
| `Explicit_proofs` | theorems about `Dag` and `PendingFds` |
| `RpcRuntime_proofs`, `Trackers_proofs`, `UringRuntime_proofs`, `WaitAll_proofs` | theorems about the module they are named after |
| `MC*` | instances for TLC |

**DepLocks.** A step is a stretch of code under `g_lock`: `LockTake` is
`lock_take` up to its grant or first wait, `LockRetry` one later turn of its
loop, `Complete` is `filc_async_complete` with `locks_release`. `status`,
`lockOf` are a `struct filc_async_hold`; `table`, `nholders`, `nwriters` the lock
records; `older[h]` is the queue: the requests that were on the lock when h
arrived. `waitOn` is the holder that `wait_for` sits on. Keys are model values,
so hashing is left out; a call may name one key twice, as when two namespaces
fold to one. A `Task` is a slot that makes calls for ever.

**PendingMarks.** `mark[o][c]` is the mark c has on o, `flag[o]` the header bit.
The three ways marks change (`mark_add`, `mark_make_write`, `mark_remove`) are the
operators `FlagAdded`, `FlagMadeWrite`, `FlagRemoved`. The loops that
wait for an owner look at the marks again after each wait, so the end of the loop
is one action with the loop's condition as its guard. `act`, the calls active on
the thread, is any set of submitted calls here; `CallStack` gives it its value.

**BufferData.** `content` is memory, `input[c][o]` what o held for the program
when it was passed to c, `seen` what c has read, `ready` the arguments the runtime
has waited out. The runtime reads, writes, gives up a buffer early and
completes when it likes. `Mem(o)`, what the program believes o holds, is the abstract
memory of `BlockingCalls`. The model covers bodies that make no calls of their
own (`act` is empty there). Accesses that the program's threads do
not order with another thread's call on the same object are races in the
blocking program too, and outside the promise.

**CallStack.** The frames are the framework's functions on a thread's stack.
`Active` is `g_active`, `RunningBody` is `g_running_body`. A waiting thread may run
the body of the call it waits for; a body makes calls, touches objects and returns. It may pass on any object, its
own call's included, as the tests do (`t_write_after_read.c`). `TracksRead` is an explicit
`fasync_pread`, which puts a shared mark on its buffer without waiting. `kept` is a history variable: whether the program has so far
given and touched objects in one global order, after those of the enclosing calls. No guard depends on it; only `ThreadsReturn`
asks for it, since a body that passes its own output on to another call stops its thread (see below).

**WaitAll.** `rec` are the mark records, `snap[j]` a group's snapshot of (record,
generation), `stack` the `join_poll` frames of each thread: a group polls the owners of
its marks, which may be groups. `outstanding` is what the group should be waiting for: the
captured records not removed since. Which of several write marks `mark_resolved` takes, and in which
order a task's marks are freed, is left open; the exemption of active calls is in `CallStack` only.

**Tasks.** The four list pointers as they are in the code, the handle table as a set and its
count. `begun` records the order of beginnings, so that the list can be compared with it.
`Lazy` tasks report only when polled. The group tasks of `fasync_wait_all`, which are in the list without a handle (`filc_async.c:917-925`), are left out
(`WaitAll` has them), and that a walk of `get_stats` ends is not among the properties. `due` is what the caller of `get_stats` may expect: the
tasks whose work was over when it called.

**Ring, UringRuntime.** Everything in `Ring` happens under one recursive lock, so it is operators from ring
to ring, composed by the actions of `UringRuntime`. A thread whose `op` is in `Holding` keeps the lock
across a wait for the kernel. The framework decides on a poll while the task runs (`PollCalled`) and gets
the lock later (`Poll`). A user issues one request; generations never repeat (the wrap at 2^32 is left
out); `io_uring_enter` takes all it is offered. Dispatch errors other than the full table are one kind, and the -EAGAIN of a failed open (`filc_async_uring.c:290-292`) is left out. `profile` says which calls are `op=ignore` and which
have arguments that are refused; it is chosen at the start, from `Profiles`.

**PendingFds.** An entry of `g_pending_fds` and the life of its handle. A use is `fd_resolve` inside another request
(under the lock), by the program itself (which tests and sets `resolved` without it), or a close; a program does not use a
handle while it closes it. `overlapped` records the opens that two threads resolved at once.

**Trackers.** One tracker per thread. `fasync_token_wait` calls `fasync_req_wait` without the lock, so
`DrainBegins`, `DrainLooks`, `DrainResult`, `DrainState` and `DrainEnds` interleave with another thread's: between the look at a slot and the two
writes to it (`fasync_native.c:97-99`) others may collect the request, release its slot and issue another in it. So a request is one issue of an id, `slot` is what a slot holds,
`free` the list (last in, first out), `at` the slot a handle names and `got` what `fasync_result` returned. `fasync_req_wait`
waits for a slot (`WaitSubmits`, `WaitEnds`), whoever has it by then. `struck` is a history variable: the requests that got, before they were collected, a write meant for an earlier
request of their slot. A lookup and the test of the state are one look, a drain that finds the queue empty and `g_inflight` are left out.

**Dag.** `edges`, `in_degree`, `started` and `done` as in `run_dag`, `where` an operation's request. The submit
callback may refuse any operation at any time; with `EnterFails` the kernel may turn a wave down: `run_dag` returns at once (`PublishFails`), the wave stays
queued, and later submissions, by anybody, hand its entries over in order (`SentLater`).
`Clash` is the reference the edges are checked against: bytes and resources touched in common, one writing.

**Descriptors, AsyncPass.** A unit is what the pass reads of an LLVM module. Option texts are records of key, parameter
and namespace; the hash of a namespace is a function given as a constant, so that collisions and the value 0 occur. Each
phase of `run()` is an action, `Describe` one function of the loop in name order. `image[u]` is what unit u has become: the
symbols renamed, the aliases, the descriptors, where each option's string lies, where each call goes. `NextUnit` is part of the action that
ends a unit, because one pass object is run on the next. `Startup` is the constructor each unit
gets. `Parsing` is the loop over a list's options as a recursive function; `Meaningful` and `Tells`, which look at the options as
a set, are the reference it is checked against. `ProgramsFit` says what clang makes of a unit before the pass sees it: parameters
have different names, an entry of the annotations is for a function or for something else (0), and its strings are clang's.

**Arena, Staging.** Addresses are numbers, and the collector places a block at any free page. `Staging` composes the arena with what
lives in it: cells of two words for each argument, and a runtime's own state, which it overwrites. An integer has any width up to the word's,
so staging zero-extends, thunks truncate, and sign is lost and found as in the code; for a wider one or another type a zero is staged. Left out are the
memset when a call completes (`filc_async.c:1003-1006`; no body loads the cells after it) and the keys of pointers, which are their objects.

**RpcRuntime.** A frame is a stub or a poll; a frame past "lock" holds the request's mutex. Each step is one `send`,
`recv`, `poll` or visit to the framework. A socket takes `SockBuf` pieces, a reply is two pieces; pieces carry who wrote
them, so mixed payloads and replies of others show. A request keeps its descriptor's number after it is closed,
and `Reached` is whatever connection that number then leads to. `expects` is what a put's object
holds for a blocking program. Framework, locks and marks are reduced to what they promise (`DepLocks`, `PendingMarks`): one step
each; a "read" is a call of the io_uring runtime that stays unsent until somebody waits.

## Runs

| run | question | instance |
|---|---|---|
| `locks` | exclusion, counts, identity of records, arrival order, whom one waits for; every call gets through its stub while others go on for ever, where keys are named in one order | 3 slots, 2 keys, 2 records, lists in both orders and with a repeated key |
| `data` | calls read, and the program loads, as if calls blocked; the flag is exact; refinement of `BlockingCalls` | 3 calls, 2 objects, 2 values, a failing writer |
| `stack` | a thread waits for a call active on it only for what this call writes; every thread of a program that keeps to an order returns | 2 threads, 3 calls (annotated, at most one explicit), depth 5, in any order; one program for each multiset of call shapes (calls are alike) |
| `join` | a group is over exactly when its captured marks are gone, has its snapshot while it runs, and polls of it return | 2 threads, 2 groups, so that one may wait for the other, 3 marks, reused records |
| `tasks` | list and handles are exact, statistics miss no finished call | 2 threads, 3 tasks, 2 of them lazy |
| `uring` | results are the request's own, slots and counts agree, no wait under the lock is for something unsent, who is turned away | 2 threads, 3 calls, all valid or one ignored and one invalid, an explicit read, 2 slots |
| `fds` | a handle means its open, entries are accounted for, no request is lost but by a full table | 3 threads, 3 opens, 2 entries |
| `pass` | descriptors, errors, aborts, linking, strings, what runtimes rely on | lists of up to 4 options; shapes of up to 5 arguments; pairs of units that share a function |
| `rpc` | own replies, counter in call order, payloads as if blocking, descriptors, every wait ends | 2 threads, 4 programs of 2 or 3 calls, 1 failing connection, sockets of 1 piece |
| `staging` | nothing overlaps, arguments come back, which integers share a key | 2 calls, integers of 2 to 4 bits, words of 4, blocks of 8 words, 3 pages, 2 other allocations |
| `trackers` | but for struck requests: tagged ones keep their order, no completion is lost or taken for another's | 2 threads, 3 requests, 2 slots, queue of 1 |
| `dag` | conflicting operations in order, no others; the result tells, after an entry call that failed too; the run returns | 4 operations with one access, or 2 with two |

*Types.* The types of every module with theorems are proved, as theorems (`DepLocks`, `PendingMarks`, `BufferData`, `Arena`) or as
the first part of the inductive invariant. In the runs those of `CallStack`, `WaitAll` and `UringRuntime` are conjuncts of
`SelfWaitsForWritersOnly`, `GroupExact` and `SlotsAccounted`.

*Bounds.* Three calls are what the hard cases need: a holder, a waiter and
a third that could pass the waiter; a producer, a late reader and a
later producer. Two lock records for two keys make every release a
possible reuse. Two objects make crossed orders possible. Depth 5
holds a submit that waits for a buffer, in a body in a submit in a body in a submit: the outer of the two bodies is the call that `g_running_body` does not
name.
Request slots are fewer than requests and handles fewer than opens, and a freed mark record is
the next to be taken, so each is reused while something stale still names it. Four operations have
every shape of order a wave can meet: a chain, a fork, a join, two at once. Option lists of a runtime and three more
hold an agreement, a conflict and a replacement on one parameter. Two units are what linking is about. Blocks of 8 words meet exact
fits, padding, a second block and requests too large or too aligned for one. Three rpc calls are an upload between two that
fill its buffer, and a get, a step and a get; with one piece to a socket every send may be the last before a wait.

*Deadlock.* `locks` lets lists cross, which may stop the program (the hazard is the
program's: locks are taken in argument order), and `InOneOrder` says which programs are promised progress.
In `stack`, `join`, `fds`, `trackers` and `dag` a finite supply of calls, tasks, opens, requests or
operations ends; `ThreadsReturn`, `PollsReturn` and `RunReturns` say what must come to an end. The
other runs check for deadlock.

*Fairness.* In `DepLocks`, a thread in its stub keeps running (`wait_changed` times
out after a millisecond and looks again), and a runtime completes what it was
given. In `CallStack`, each thread runs on when it need not wait, bodies and submits return, and a runtime
completes a call that somebody *polls with BLOCK*, no other: `wait_for` polls for ever
until it is done, and io_uring never sends a request nobody asks for. `Begin`, `CallMade`,
`RunBody` and the program's own steps have no fairness. `UringRuntime` assumes none: `WaitsForKernel`
says that whoever waits with the lock waits for a request the kernel has and has not been seen to answer, so that no wait depends on
anything but the kernel. In `RpcRuntime` threads in the framework or the runtime go on, a mutex asked for again and
again is got (strong fairness of `PollLocks`: other holders come and go), the kernel completes reads and handshakes, and
the server's threads run; the program makes no call and resolves no mark of its own unless it likes. In `WaitAll` polling threads go on, runtimes complete their tasks and the program
resolves what it marked without owner. In `Dag` the loop goes on and the kernel completes.

### Disagreements between code and documentation

These came up while modelling. The models do what the code does; what the text says is not among the
properties.

* `fasync_fd_resolve` tests and sets `resolved` without the lock (`fasync_syscalls.c:236`); of
  two threads that resolve one handle at once the second finds the request released and stores -EINVAL over the descriptor, while `fasync.h:11-12` and
  `Explicit-API.md:12`, `:57` promise that any thread may call and gets the real fd. `HandleMeansItsOpen` makes that one exception
  (`overlapped`); without it TLC finds the two threads.
* An annotation with more buffer options than parameters (`bin=a`, then `bout=a`, of a function of one) compiles, the last one counting, and aborts at
  startup, because `noped` counts options (`FilAsync.cpp:288`, `filc_async.c:1102`); the annotation reference does not list
  it. `StartupSettles` names it.
* A size near 2^64 passes the arena's test because `size + align` wraps (`filc_async_arena.c:86`), though larger requests
  are said to get a block of their own (`:13-15`). `NothingWraps` excludes it.
* A negative `int` and the same value as `long` are two keys, so such calls are not ordered: the FIXME at `filc_async.c:314-328` says that
  they should be, `KeysAgree` that they never are. Nor does the FIXME name the converse: a negative value shares the key of the wider integer that it equals as unsigned (`ReadAs`), and
  calls wait for each other without need.
* `mark_pending` waits for the write mark of a call that is active on its own thread (`filc_async.c:520-527`, `:625-629`), and `wait_buffer_locked`
  for a writer that is active but not the innermost body (`:679-680`), although the comment at `g_active` (`:78-80`) says nothing on this thread
  waits for them, and `Architecture.md:163-165` the same of a `submit`. Such a wait never ends. `SelfWaitsForWritersOnly` says that these two waits are the only ones; with
  either alternative left out of it TLC finds the stack that does the other.
* A stub that marks an object removes a mark without owner (`filc_async.c:631`); `filc_async.h:127-128` says only
  `mark_resolved` does.
* A write mark sets the flag of a read-only object (`filc_async_native.c:37`); the comment at `:28-29` says
  a read-only header is never written.
* Each turn of `fasync_wait_all`'s bounded loop waits for the kernel without a limit (`fasync.c:390`); the comment
  on it says "bounded so a stuck request cannot hang".
* A wave the kernel turned down stays in the submission queue and runs with anybody's next submission
  (`fasync_dep.c:242-248`); `fasync_dep.h:76-77` says it never ran. `run_dag` returns -1 then without waiting for earlier waves either. `ResultTells` says
  that after this return something is in the queue or in flight, and that nothing is after any other.
* A tagged call drains without the lock (`fasync_token.c:26`) that `fasync.h:11-12` says everything is behind. If between its look at a slot and its writes
  (`fasync_native.c:97-99`) another thread drains the same completion, collects the request and issues another in the slot (`fasync.c:186-218`), the new one is marked
  done with the old one's result while it is still queued or in the kernel. A conflicting tagged call does not wait for it, its own completion
  is passed over, its result is lost; and a waiter may wait for the slot's next occupant. `fasync.h:11-13` and `Explicit-API.md:12` promise that any thread may issue requests and wait
  on them. `TaggedOrder` and `CompletionsKept` except such requests, the `struck` ones, and no others; without the exception TLC finds a
  counterexample to each. That `g_inflight` is then counted down twice is known from reading only.

## Proofs

Every invariant and every action property of the runs is a theorem, and so is the refinement. All hold for every number of
calls, threads, keys, records, objects, options, units and values. Most assumptions say that a null value is not a value, or that a constant has
its type. Those with content are `TasksFinite` and `UsersFinite` (counts need finitely many holders), `NothingWraps` and `StagingWraps` (no request comes near the end of the
address space), `EdgesFit` and `PointersPointIn` of `Dag`, `ProgramsFit` of `AsyncPass`, `ProgramsType` and `Sizes` of `RpcRuntime` (a program is a finite list of calls; a
request and a socket hold at least one piece). `PowersDouble` and `PowersGrow` are facts about powers of two that the
provers do not have.

**Stubs_proofs, locks.** `IInv` is `TypeOK` with `Linked`, `CountsInStep`, `Exclusion`,
`NoOvertaking` and `WaitsForHolder`. Exclusion is not inductive alone: a
grant trusts counts, counts count holds that point to the record, and
key and record must correspond, which is `Linked` (a hold points at its key's record,
the record is in the table under that key only, requests are those up to `at`). `LockNotRecycled`
is a part of it. `NoOvertaking` needs that `older` holds only current requests of the same record.
Cardinalities are handled by a few lemmas (one element more, a call's
holds less), so actions are argued in sets.

**Marks_proofs, marks.** `Inv` is `TypeOK /\ FlagExact`. Three lemmas say
that adding, upgrading and removing a mark keep one object's flag exact; each action composes them.

**Marks_proofs, data.** `DInv` joins `DataTypeOK`, `FlagExact`, `Stages` (marks only for
arguments passed and calls not done), `WriterAlone` (while a call may
write an object, its other owners are later readers that have not begun), `Expected`
(what a call will read is what it was given), `Produced` (a call that has written left its
output) and `ReadsAsIfBlocking`. `ImplementsBlocking` is the
refinement: each step is a step of `BlockingCalls` or a stutter, with `Mem` as its
memory. The crucial cases are a producer's mark (waits for all readers, so `content` is what the program believes) and a
completion (the belief moves from "the output of c" to the content, which `Produced` says is the same).

**Marks_proofs, stacks.** `SelfWaits`: of any program, ordered or not, what `SelfWaitsForWritersOnly` says. `StackInv` joins `Inv`; `FramesFit` (the call of a
frame is in the stage the frame says); `OnlyOnce` (each of a call's frames is in one place of one stack); and `WaitsExplained`: every wait, however deep in a stack, for a call
with an activation below it has right below it the stub, at an argument, or the buffer wait, of an object that call writes. The wait stays explained as long as it is there because
a mark never goes from write to read, a stub that waits stays at its argument (`TopStub`), and a call with a frame under another cannot complete. `RunningIs` and `NotRunning` lead from the
innermost body as the code keeps it to places in a stack and back.

**Stubs_proofs, pass.** What the loop over options computes needs induction over a list. It is done on sets: `LeastNatural` (a set of naturals
that is not empty has a least member, from the well-foundedness of `<`) gives `InductionUpTo`, which takes a set in
place of a predicate, and `Recursion`, that the recursive function `Parsing` exists. `SoFar` is the invariant of the loop for a prefix: it is accepted exactly if each
option fits its function (`AllFit`) and no two disagree (`Agree`); the kind of a parameter is then that of the last buffer option for it, its key
that of each dependency option. For the whole list this is `Meaningful` (`MeaningfulIs`), hence `CompilerStopsExactly` and, with `MarksAre` for the counts a descriptor
carries, `DescriptorsSayIt`. `PassInv` says of every unit that its image stays faithful (`AllFaithful`: a body that has left its name leaves an alias, whatever is in the
table is described as its last annotation says, in strings the unit has, and strings of other consumers are kept), that units behind the current one are finished and those ahead
untouched, and for each phase how far the current unit is. `CallsKeepBodies` and `AnnotationsKept` follow from it; `StartupDecides` from `ValidSettles`,
which goes through what `dependencies_ok` and each runtime's validator test, for descriptors that `Parsing` made.

**Calls_proofs, arena.** `ArenaSafe`: types and `PlacedWell`, for blocks, pages, alignments and requests of any
size. `PlacedWell` alone says nothing about memory not yet handed out, so `ArenaInv` adds that blocks share nothing and lie below
`Top` (`BlocksWell`), that `g_cur` and `g_end` are in one block and at its end (`CurrentWell`), and that what was handed out of that block lies below
`g_cur` (`BelowCurrent`). Lemmas say that an aligned address is a multiple, not below and less than one alignment above; three cases (bump, new block, block of its own) each place a request clear of all others.

**Calls_proofs, staging.** `StagingPlaced`, `Restored` and `KeysTellValues`. `StagingInv` is `ArenaInv` and: what is staged has its type; the cells of a call are in an allocation of the arena with room for two
words an argument, apart from those of other calls (`CellsWell`); and each word a stub has stored is still in its cell (`StoredWell`). Since what is handed out does not overlap, what a runtime
or another stub writes leaves a call's cells alone, and `ArgumentsRestored` is left with the conversions: an integer extended to a word and truncated to its width
again is the same integer, for every width up to the word's (`BitsFacts`). The same lemma and `WiderFacts`,
for a narrower integer next to a wider one, show exactly when two integers are one key.

**Calls_proofs, tasks.** `RunningListExact` and `StatsCountFinished`. `TasksInv` says that the linked list has exactly the running tasks, in the order of `begun` (`ListExact`, in terms of
that order and not of a walk), that running tasks have handles and only tasks begun have one (`HandlesExact`), and what may be said of a task no longer in the list:
its `newer` names none, or a task later in the order, with no running task between the two (`StaleLinks`). `get_stats` drops the lock at each poll and goes on from a task that may have been removed
meanwhile. `WalksWell` is why it misses nothing: for some record `seen` of what had begun when each task was removed, tasks seen by a removed one
and still running can be reached over tasks removed later, and what a walk has still to complete is ahead of it and was seen by the task it stands on. `RemoveExact`, `AddExact`,
`RemoveWalks`, `AddWalks` and `WalkMoves` carry list and walks through the steps.

**Explicit_proofs, fds.** `FdsInv` is types and six parts. That a use finds its own open is inductive only with: an entry
in use belongs to the one open whose handle names it (`EntriesOwned`), a resolved entry holds that open's outcome
(`EntriesRight`), an open between its request and its handle has none yet (`NewFrames`), who resolves does it to a request
that is still there unless the open overlapped, and a closer is alone (`ResolveFrames`), and a request not collected is on
its way to a handle, has one, or got none (`LiveAccounted`). The exception for `overlapped` is carried through as "the kernel's
answer, or -EINVAL", which shows that even then a use never gets another open's descriptor.

**Explicit_proofs, batches.** `DagInv`: `in_degree[j]` is the number of edges into j from operations not yet collected (`EdgesCounted`), so that
zero means all of them are; what started had nothing left to wait for (`StartedLast`); requests are where `started` and `done` say, and after a wave was turned
down some are in flight (`RequestsFollow`); and how the loop was left (`WhyReturned`), from which `DagResult`. Two lemmas carry the arithmetic (an edge
`i * n_ops + j` is taken apart by `\div` and `%`) and one the reference: under `PointersPointIn`, `ops_conflict` is `Clash`, ranges
against sets of bytes. Two assumptions with content: `EdgesFit` (the caller's edge array has room; a full one
makes `fasync_build_dag` return 0, which its caller cannot tell from "no conflicts") and `PointersPointIn` (a buffer lies in the object its capability is for,
which Fil-C sees to).

**Trackers_proofs.** `TrackerInv` is `RequestsInv` and `TrackInv`. The first is about slots and completions: a slot is once in the free list (`FreeOnce`), a request that is not collected
has its slot (`SlotsHold`), what is done or collected was completed, with its own result (`OwnResults`), a request is in one place of the ring (`RingHas`), who collects a
request has the lock and waits for its slot (`CollectsDone`), and what a drain has gone
past is applied, `head` included (`DrainsApply`, `HeadApplied`), which is why two drains at once lose nothing though
each writes `head` back from where it began. The second is about trackers: a request that is `Busy` (queued or in the kernel, and not struck) is in its tracker's queue or about to be put there
(`TrackerHasIt`), and what a scan has gone past is not, or does not conflict and is in its `keep` (`ScanKeeps`). They are joined by one lemma: who is busy is pending
in its slot, so that trackers, which look at slots, see it. A write that finds another request in the slot strikes it, so nothing is claimed of that one.

**UringRuntime_proofs.** `UringInv` has a part about the ring, `RingOK`: a handle's generation tells whose slot it is (`GensOK`), entries
and completions carry the identity and the answer of their user (`EntriesOK`, `CompletionsOK`), a request that is
done has its user's answer and a pending one is in the queue, with the kernel or completed (`RequestsOK`), and free list and `g_inflight` are exact
(`SlotsOK`). The ring's operators are shown to keep it one by one, so the actions are argued in terms of which handles
are live. The users' part, `UsersOK`, says where a call or an explicit request is by whether its handle is live: a listed call
is one with a live request, a published call without one is finished and answered. With the lock (`LockOK`) what a thread is working on
stays live while it waits (`HoldersOK`). `OwnAnswer`, `SlotsAccounted` and `WaitsForKernel` follow. `OnlyExplicitFill` is an action property: -EAGAIN
comes from one place, where the free list and the list of calls are empty; that every other completion of a call that was queued carries an answer is `UringInv` after the step.

**WaitAll_proofs.** `JoinInv`: the free list has each free record once (`MarksOK`); an entry's generation is never ahead of its record's (`PastOK`), so that
a record renewed under a group cannot look like the mark the group captured; the snapshot of a running group is not
empty and tells what is outstanding (`SnapsOK`); and what a poll knows stays true while it is without `g_lock` (`FrameOK`): as long as its group runs, the snapshot it read is the
group's; once it found nothing pending nothing is outstanding, whoever completes the group; once it is about to drop the snapshot the group is done. One lemma (`SnapsMove`) covers every step that
removes marks and gives out records. The bound `MaxMarks` is any number, and generations are any.

**RpcRuntime_proofs.** `RpcInv` shows `RepliesAreOwn` and `DescriptorsKept`. `Pieces` says where each request is (not published, not connected, open, closed with a result, done), that every frame is
where its call is, that one poll at a time holds a request, and that a request between two of those stages is held; open requests have different descriptors (`OwnDescriptor`); and what was received and what is
still on the connection together are the reply, in order (`ReplyWell`). A closed request keeps its number, so `Reached` may be another's connection; `OwnDescriptor` with
`Pieces` is why no step uses it then. `BlockingInv` adds, for `CallsAsIfBlocking`: calls on the counter are in the order in which their stubs took the lock, and of two of which
one is a step the earlier is done (`OrderWell`), and a value is the number of steps counted up to it (`CountsWell`); the pieces a put has sent are the command and then what its object held for a blocking program
(`SentWell`), because the object has that, or its one producer is still running, until the put is done (`MarksWell`).

*Only model-checked*: liveness under fairness (`EveryCallSubmitted` of `DepLocks`, `ThreadsReturn` of `CallStack` and of `RpcRuntime`, `PollsReturn`,
`RunReturns`), and that the runs without `CHECK_DEADLOCK FALSE` do not deadlock: both are about `ENABLED`, which is out of the prover's reach.

## Not modelled, and the plan

1. Done: the modules above.
2. Done: a theorem for every invariant, action property and refinement the runs check.
3. Could be added: locks and marks in one stub in `CallStack`; the io_uring runtime as the runtime of
   `BufferData`; partial acceptance by `io_uring_enter` and a full submission queue in `Ring` (`fasync.c:352`).

Left out for good:

* compiler patches and plugin (the compiler is not in the repository), building IR, diagnostics;
* the provenance lookup (`fasync.c` 230-247, 396-419), which reads what `Ring` keeps and changes nothing; ring setup and mapping; statistics;
* demos other than the server (`src/demos`: reports, tables, timing), tests and build scripts: no state the library depends on;
* memory exhaustion, which aborts (a stub does not test its staging memory for NULL); the abort at 32 active calls; hashing; the wrap of generations at 2^32.
