# A TLA+ verification of libcoro4spdk

libcoro4spdk runs C++20 coroutines on SPDK reactors. This directory models the
library, checks the models with TLC on small instances and proves the central
safety properties with TLAPS for every number of cores and tasks. Source paths
below are relative to the repository.

## 1. The system

One SPDK thread per core polls for ever: it takes messages
(`spdk_thread_send_msg`) and I/O completions and runs their handlers to the
end. Coroutines run inside handlers. A coroutine leaves its core by suspending
or returning; while it runs nothing preempts it on its core, but all cores run
in parallel and share memory.

| component | state | operations | interacts with |
|---|---|---|---|
| scheduler (`src/schedule.cpp`, `include/schedule.hpp`) | `tasks`, `wrapper_tasks`, `alive_tasks`, `threads[]`, `channels[]`, the threads' messages | `init_service`, `add_task`, `run`, `scheduler_init`, `service_thread_run`, `task_run`, `task_done`, `service_exit`, `thread_exit`, `yield()` | starts and resumes every coroutine; `rcu_offline` on each yield and task end |
| task (`include/task.hpp`) | coroutine frame, `_caller`, `_value` | `start`, `co_await`, `final_suspend`, destruction | scheduler's wrapper; nested `co_await` |
| Mutex (`include/mutex.hpp`) | atomic `_state` word, `_waiters` list | `tryLock`, `coLock`, `coScopedLock`, `unlock` | `unlock` resumes the next owner on its own stack and core |
| SpinLock (`include/spinlock.hpp`) | `_locked` | `tryLock`, `coLock` (spin, then `yield()`), `unlock` | scheduler through `yield()` |
| ConditionVariable, Notifier (`include/conditionvariable.hpp`) | atomic list of awaiters | `wait`, `notify`, `notifyOne`, `notifyAll`, `reset` | resumes waiters inline; re-locks its lock |
| SharedMutex (`include/sharedmutex.hpp`) | `state_` (writer flag and reader count), `mut_`, `gate1_`, `gate2_` | `coLock`, `tryLock`, `unlock`, `coLockShared`, `tryLockShared`, `unlockShared` | SpinLock and two ConditionVariables |
| RCU (`src/rcu.cpp`, `include/rcu.hpp`) | `versions[]`, `sequencer`, thread-local `rcu_count`, per-thread callback queue | `rcu_read_lock`, `rcu_read_unlock`, `rcu_offline`, `synchronize_rcu`, `call_rcu`, `free_rcu` | every await of the primitives goes offline; `synchronize_rcu` yields |
| I/O service (`src/service.cpp`, `include/service.hpp`) | `wait_entries[]`, `retry_contexts[]`, the awaiter's `result` | `read`, `write`, completion and retry callbacks | SPDK's bdev layer |
| lists (`cds/list.h`, `cds/rculist.h`) | circular doubly linked lists of embedded nodes | init, add, add_tail, replace, del, del_init, move, move_tail, splice, empty, traversals; the `_rcu` versions of some | readers inside read sections |

What is hard about it: lock-free words with several writers; coroutines that
become resumable on another core before their own `await_suspend` has
returned; inline resumption, which nests stacks and moves coroutines between
cores; RCU versions that are refreshed only once in 1024 sections; completion
callbacks that run other callbacks; shutdown decided by a counter. The full
list, with source lines and the properties that address each point, is under
`hazards` in `PROJECT.json`.

What makes each component correct: a lock excludes, loses no waiter and serves
every one; a grace period outlasts the sections that can see the old object
and always ends; a task runs only on a core with an I/O channel, is counted
exactly once, and the application stops exactly when all are done; an awaited
I/O resumes its coroutine exactly once; a coroutine frame has one owner, is
destroyed once and not used afterwards, and its parent is resumed when it ends;
a list operation leaves rings that hold what it promises, and a reader that
traverses a list during updates meets every element that stays in it.

## 2. Modules

| module | models | composes |
|---|---|---|
| `Reactor` | what every primitive needs of scheduler and RCU: messages, per-core call stacks, `yield()`, task start and end, `rcu_offline`, `rcu_read_lock` | base of `Mutex`, `Rcu`, `SharedMutex` and `Notifier` |
| `ReactorProofs` | lemmas: the shared steps keep the types; sequences without repetition; what a push, a pop and a message do to stacks and inboxes | |
| `FifoLock` | abstract lock: one owner, FIFO queue, direct hand-off | |
| `Mutex` | `include/mutex.hpp`, one step per atomic access | `Reactor`; instantiates `FifoLock` |
| `MutexProofs` | theorems about `Mutex` | `ReactorProofs` |
| `Rcu` | read sections and `synchronize_rcu` of `src/rcu.cpp`, SpinLock, and the reader and writer tasks of `test/rcu_pressure.cpp` with a heap | `Reactor` |
| `RcuMutex` | the tasks of `test/rcu_schedule.cpp` and `test/rcu_pressure_2.cpp`: writers that hold a Mutex across `synchronize_rcu()`, readers that lock it or await I/O between sections | `Rcu`, the lock of `FifoLock`, the awaits of `Service` |
| `CallRcu` | `call_rcu`, `free_rcu`, `thread_call_rcu` and the per-thread list | `Rcu` |
| `RcuProofs` | theorems about `Rcu`, `CallRcu` and `RcuMutex`, in three parts | `ReactorProofs` |
| `RwLock` | abstract readers-writer lock: a writer that has entered keeps later readers and writers out | |
| `SharedMutex` | `include/sharedmutex.hpp` over the SpinLock `mut_` and two `ConditionVariable<SpinLock>`s; tasks of `benchmarks/colocking.cpp` | `Reactor`; instantiates `RwLock` |
| `SharedMutexProofs` | theorems about `SharedMutex` | `ReactorProofs` |
| `Event` | abstract event: signalled, blocked, released | |
| `Notifier` | `ConditionVariable<void>`, one step per atomic access; tasks of `test/condvar.cpp` | `Reactor`; instantiates `Event` |
| `NotifierProofs` | theorems about `Notifier` | `ReactorProofs` |
| `Scheduler`, `MCScheduler` | `src/schedule.cpp` in full, and the wrapper coroutine's frame; `MCScheduler` holds the programs of the runs | |
| `SchedulerProofs` | theorems about `Scheduler` | |
| `Service` | `src/service.cpp` | |
| `ServiceProofs` | theorems about `Service` | |
| `Task` | `include/task.hpp`: frames, task objects, awaiters, symmetric transfer | |
| `TaskProofs` | theorems about `Task` | |
| `ListNode` | what a ring of `next` pointers is and what a traversal meets | |
| `SeqLists` | abstract lists: sequences of nodes | |
| `List`, `MCList` | `cds/list.h` on memory; `MCList` holds the symmetry of the run | `ListNode`; instantiates `SeqLists` |
| `RcuList` | `cds/rculist.h`, one step per store and per load | `ListNode` |

**Stacks.** In `Reactor`, `running[k]` is the coroutine on top of core `k`'s
stack and `resumer[c]` the one below `c`: `resume()` pushes, suspending or
returning pops. `Scheduler` and `Service` need frames of ordinary functions as
well and keep `stack[k]` as a sequence.

**Mutex.** `_state` is `this`, `nullptr` or a list of newly queued awaiters;
the model keeps `locked` and the list `newly`, and `StateWord` is the value a
compare-exchange compares. The awaiter list's head identifies the word, as in
the code, so an ABA of the word is an ABA of the model. `suspending[k]` is the
window between the compare-exchange that publishes a coroutine and the
`rcu_offline()` before `await_suspend` returns: other cores can already run
the coroutine. Weak compare-exchanges that fail spuriously only repeat their
loop with the same value and are left out.

**Rcu.** A read section is: count (and, once per `Refresh`, load the
sequencer; publish it), load `gp`, use the object, end. `synchronize_rcu` is
the fetch-add, one step per core that passes and one per wait that yields. The
store, the fence behind it and the loads are sequentially consistent steps:
the fence orders the publication before the load of `gp`, and on x86 the
fetch-add is a full barrier. Objects are addresses: `New` may hand out any
address that is not allocated, so a premature delete shows up as reuse. The
readers named in `Syncers` call `synchronize_rcu()` after each section, as
`rcu_sync_reader` in `test/rcu_schedule.cpp` is written to do.

**RcuMutex.** Readers, writers, heap and grace periods are `Rcu`'s own actions;
only the lock and the awaits differ. The Mutex is the FIFO lock that `Mutex` is
proved to implement (theorem `MutexIsFifo`), with what the reactors see of it:
`unlock()` resumes the next owner on the unlocking core, so a writer may start
its grace period on any core and `synchronize_rcu` skips a core other than its
home; `await_suspend` goes offline only after the coroutine is visible, when
another core may already run it. An I/O suspends without `rcu_offline()` and
completes on the core it was issued on.

**CallRcu.** Where `Rcu`'s writers wait and delete, the writers in `Deferrers`
call `free_rcu(q)`; the other tasks are `Rcu`'s own, so waiting and deferred
reclamation meet on one sequencer. A call is the fetch-add that stamps the object and the append to the thread's list, and, once the
thread has called `Threshold` times, the scan of the versions one core at a time
and the release from the front of the list. An `rcu_head` is the first
member of its object, so list nodes are heap addresses and a node freed too
early is reused. Three constants name the conditions under which the code works
at all: `HeadsZeroed` (the allocator hands out zeroed heads), `Threshold`
(1024) and `UINT_MAX`. No program of the repository calls `free_rcu()`; the
writers are those of `Rcu` with that one call exchanged.

**SharedMutex.** The gates and `state_` are touched only by the holder of
`mut_`, so a step reaches from one acquisition, release or inline resumption
to the next. `AfterLock` says where the acquisition of `mut_` leads; a
coroutine that a gate releases goes through it again, as the loop of
`ConditionVariable::wait` does. `notify` is the pc inside `resumeWaiters()`:
the waiter is pushed on the notifier's stack, finds `mut_` taken, yields on
that core, and the notifier goes on. `state_` keeps the code's encoding (flag
plus count) with a smaller flag. Tasks also use the try operations, and may
yield while they own the lock.

**Notifier.** As in `Mutex`, a compare-exchange sees only `Word`. `pending[c]`
is the rest of the list in `c`'s `resumeWaiters()`; a resumed coroutine runs on
`c`'s stack and may wait again or end before `c` reaches the next one. Every
producer's last operation is `notify()`, without which a consumer rightly waits
for ever.

**Scheduler.** Every handler is an action on a typed message. What tasks await
is abstract: `Yield`, `Park` (an await after which another task can resume the
coroutine) and `Unpark` (inline resumption, on whichever core). The end of the
wrapper `task_run()` is three steps: it sends `task_done`, the frame becomes
`done()`, `final_suspend` reads `_caller` from the frame. Programs are assumed
not to wait for what nobody can signal any more. `wrapper_tasks` is the linked
list it is: `CheckDone` links the node behind the last one, `PushBackEnds` makes
it the last, and cores that do so at once overwrite each other's links. Nodes
are lost that way and their frames leaked; `WrappersOnce`, a part of `CleanExit`,
says that the list's destructor can walk what is left. `fault` is the undefined
behaviour that ends the process, where the code can meet it: a null `handle` in
`service_thread_run`, a `desc` that is closed in `thread_init_get_channel`, a
destroyed frame in `FinalSuspend`. The last two read freed memory, so the step
may also find the old value and go on; the model has both outcomes. A process
that ends by a fault has not returned from `run()`: `RunReturns` excludes the
first two, and lets a process die only of the destroyed frame, which is the
finding of `scheduler_frame`.

**Service.** A channel has `PoolSize` bdev_ios. `Issue` is the whole of `read`
or `write` with its `co_await`; `Complete`, `Retry`, `ResumeCompleted` are the
parts of the completion callback between which other code of the same core can
run. The wait queue is intrusive, so inserting the core's only entry twice
makes it point to itself (`"loop"`).

**Task.** A frame is owned by the `_h` of a task object or by the `Awaiter` of
the parent that awaits it; `current[k]` is the coroutine that core `k` executes,
which symmetric transfer replaces rather than stacks. Bodies call, await, drop
and give away tasks, suspend in some leaf awaiter or return, in any order; the
reactor resumes a suspended frame on any core. They keep the contract of a lazy
task: only a task that has not been started is awaited (`MayAwait`), as in every
program of the repository. The code does not check it: `await_ready()` is always
false, and awaiting a task that runs or has ended resumes a coroutine that is
not suspended, or is at its final suspend point, which is undefined. `Main` stands
for the code outside coroutines, which destroys a task object only before
`start()` or when `done()` holds (module `Scheduler` shows what happens where
`service_thread_run()` does not keep to that). `task<T>` and `task<void>` have
the same definitions but for the value.

**List.** Memory is a record of the two pointer fields; an operation is the
composition of its stores in the code's order, with what it reads taken from
the memory it has reached, so operations on neighbouring or equal entries come
out as the code's do. Calls obey the contracts (a node is in no list when it is
added, in one when it is deleted). A safe traversal is in progress between two
of its steps, while the body may remove or move the current node.

**RcuList.** A writer's operation is its list of stores, made one by one in
program order; a reader loads `next` pointers between any two of them. The
ordering is assumed of the hardware and the compiler: `rcu_assign_pointer` is a
plain volatile store here. A node is freed after a grace period, abstractly:
when all sections open at its removal have ended, which is `RcuSafe` of
`RcuProofs`. Nodes carry keys so that a replacement counts as the same element.
Readers do not interact, so one stands for all. The two headers are included
nowhere and do not compile as they are (`CDS_INIT_LIST_HEAD`,
`CMM_STORE_SHARED` and `cds_list_add_tail` have no definition); those names are
taken to mean what they mean in liburcu, where the code comes from.

## 3. Runs

| run | instance | shows |
|---|---|---|
| `mutex` | 2 cores, 3 tasks, endless rounds, `Refresh` 2, fair | exclusion, no lost waiter, `unlock()`'s assertions, no coroutine active twice, idle cores offline, refinement of `FifoLock`, every queued coroutine gets the lock |
| `rcu` (module `CallRcu`) | 2 cores; on one a writer that waits and one that defers, on the other a reader that synchronizes; 2 rounds, 4 addresses, `Refresh` 2, `Threshold` 2, fair | no use after free, exact accounting of heap and callbacks, the threads' lists intact, every grace period and every task ends |
| `rcu_mutex` | 2 cores, 2 writers, a reader that locks and awaits I/O, 2 rounds, 3 addresses, fair | no use after free although coroutines change cores and cores wait online; no section is open on the core a grace period skips; heap accounting; every task ends |
| `shared_mutex` | 2 cores, 2 readers, 2 writers, at most 3 shared locks, fair | `state_` counts exactly, no coroutine and no wake-up is lost at a gate, refinement of `RwLock` (exclusion, writer priority), every task ends once the test ends |
| `notifier` | 2 cores, 2 producers, 3 consumers, 2 operations each, `Refresh` 2, fair | each waiter in one place and resumed once, idle cores offline, refinement of `Event`, every task ends |
| `scheduler` | 2 cores, one `run()` of 3 tasks of up to 2 awaits, fair | channel before task, task counting, clean shutdown (no use of `desc` outstanding when it is closed, nothing lost, `wrapper_tasks` sound), `run()` returns, a crash not counted |
| `scheduler_frame` | 2 cores, 2 tasks | **violation** of `FrameAlive` |
| `service` | 2 cores, 3 tasks, 2 requests each, 1 bdev_io per channel, fair | each await is resumed exactly once, with its result, eventually |
| `service_slot` | 1 core, 3 tasks | **violation** of `EveryAwaitOwed` |
| `task` | 2 cores, 3 frames, 5 calls, 2 leaf suspensions, fair | one owner per frame, no use of a destroyed frame, chains of callers intact, values there when taken, every started coroutine completes |
| `list` | 2 heads, 3 nodes, all sequences of calls | rings intact, safe traversals exact, refinement of `SeqLists`, each operation the sequence operation its comment names |
| `rcu_list` | 1 list, 3 nodes, 3 keys, 4 operations, a reader | the reader is never on freed or unset memory, meets stable elements exactly once and no foreign one, and reaches the end |

The type invariant of a module is a conjunct of one of its invariants; that of
`Mutex` is proved instead, that of `Rcu` both. The actions of `Rcu` are run
through `CallRcu` (SpinLock, waiting writers, readers) and `RcuMutex`.

Bounds. Two cores give every cross-core race; three tasks on them give a
queue of two behind a holder, two tasks on one core, inline resumption on a
foreign core, and both lists of the mutex non-empty at once. `Refresh` 2
stands for 1024: sections that refresh and sections that do not, in both
orders. In `rcu_mutex` three addresses are the least with which two writers can
hold one object each and gp a third, so reuse happens as early as it can. With one
bdev_io per channel the second request of a core already waits. `DONE` stands
for `LONG_LONG_MAX`; it exceeds every sequencer value of the instance.
`CallRcu` needs four addresses, so that neither writer finds the heap empty; its
`UINT_MAX` of 15 is above every version of the run. Three frames give a parent, a child and a grandchild, or two trees on two cores; five
calls let addresses be reused. Three list nodes give a first, a middle and a
last one; `list` has no bound on calls, its state space is finite. In `rcu_list`
four operations allow a node to be removed, freed, reused and removed again next
to the reader's traversals.

In `SharedMutex` the write-entered flag is 4 instead of 2^31: two readers never
fill the count of 3, five do. `Notifier` has a producer on each core, one ahead
of its core's consumers and one behind, so notifications of two cores overlap
each other and the queueing of consumers.

Fairness. `WF` of each core's steps: a reactor polls for ever and runs what
it finds. `WF` of `scheduler_init`'s loop, which does not block. In `Service`
also `SF` of each completion: the device answers every I/O and the poller
looks for completions whenever the core returns to its loop; the same in
`RcuMutex`. `Task` asks `WF` of the steps that finish a running coroutine and
`SF` of resuming a suspended one: whatever it awaits happens, and the reactor
gets to it between other work. `RcuList` asks `WF` of the reader's steps and
nothing of the writer, which may stop between two stores. In `SharedMutex`
`WF` of `end_test`: the benchmark's main thread sleeps for a fixed time. Before
that a reader or writer may starve, because a SpinLock is not fair; nothing is
claimed there. Runs with
`CHECK_DEADLOCK FALSE` have a termination property instead, which a standstill
violates: a reactor without work polls on, it does not stop.

### Findings

* `scheduler_frame`: a task that suspends where another core can resume it may
  be finished by that core before `service_thread_run()` has looked at
  `t.done()`. If the look falls between the moment the frame is marked done and
  the end of `final_suspend`, `t` is destroyed while the other core still reads
  `_caller` from it. The comment at `src/schedule.cpp:100` asks for the
  opposite.
* `service_slot`: two requests of a core that find no bdev_io share one slot;
  the second overwrites the first and inserts the wait entry twice.

Six further configurations are not among the runs. All but one show, as a
violation, the limit of a property or of an assumption of a passing run.

* `SchedulerEmpty.cfg` (`MCScheduler`, `RunReturns`): a `run()` without tasks on
  two cores. `scheduler_init()` calls `service_exit()`, which closes `desc`
  (`src/schedule.cpp:78`) while the message that makes the other thread use it
  (line 116) is still queued. The same happens with fewer tasks than threads, if
  they end before a thread without one has taken its first message. `CleanExit`
  is violated too.
* `SchedulerOneThread.cfg` (`MCScheduler`) passes: with one thread, as in
  `test/spdk_module.cpp`, a `run()` without tasks and one with three after it
  have all properties of run `scheduler`.

* `SchedulerRerun.cfg` (`MCScheduler`, `TasksHaveCoroutine`): `tasks` is never
  cleared, so a second `run()` in the same process sends the finished tasks
  again; their handles are null. `test/condvar.cpp` does two runs in one
  executable.
* `ServiceAgain.cfg` (`Service`, `RequestAnswered`): the branch commented "retry
  again" does nothing. SPDK's current implementation calls a wait entry only
  with a bdev_io at hand, so the branch is reached only where `spdk_bdev_read`
  reports `-ENOMEM` for another reason; `RetryMayFail` allows it.
* `SharedOverflow.cfg` (`SharedMutex`, `WakeUpOwed`): when the reader count is
  full and two readers are blocked, a release from the maximum wakes one of
  them; a second release, before that one has taken `mut_` again, wakes nobody,
  and the other reader may wait for ever. The comment at
  `include/sharedmutex.hpp:162` promises a wake-up to "any thread that was
  blocked on reader overflow". With the real word this takes 2^31 - 1 shared
  locks held at once.
* `CallRcuGarbage.cfg` (`CallRcu`, `ListIntact`): nothing sets `head->next` of
  the object that is appended, and `thread_call_rcu()` follows it. With memory
  as `malloc()` leaves it the list continues into garbage. No program calls
  `free_rcu()` yet.

Noted while modelling, without a property: `count` in `src/rcu.cpp` never goes
down, so from its 1024th call on a thread scans all cores at every call,
although the comments at lines 67-68 make reclamation depend on the memory held;
`thread_call_rcu()` starts its minimum at `UINT_MAX` and not at the largest
`unsigned long`, so after 2^32 versions it keeps objects back that no core can
see; two comments of `include/task.hpp` (lines 15 and 85) say that a coroutine
starts when it is created, while `initial_suspend()` is `suspend_always`; the
comment on `await_ready()` (line 75) considers that the task has ended already
and nobody would wake its awaiter, yet the function returns false.

## 4. Proofs

All theorems are about the same definitions the runs check and hold for every
value of the constants that satisfies the named assumptions of the module and,
in five places, a hypothesis written into the theorem. Each of these
hypotheses holds in the run of its module, and a configuration of section 3
shows that the property fails without it:

| hypothesis | says | without it |
|---|---|---|
| `ReadersFit` (`SharedMutex`) | fewer reader tasks than the count of `state_` can hold (2^31 - 1) | `SharedOverflow.cfg` |
| `SlotSuffices` (`ServiceProofs`) | a core has at most `PoolSize + 1` tasks, and a retry is not refused for lack of memory | run `service_slot`, `ServiceAgain.cfg` |
| `HeadsZeroed` (`CallRcu`) | an object comes from the heap with a null `rcu_head::next` | `CallRcuGarbage.cfg` |
| `OnlyLastRunHasTasks` (`SchedulerProofs`) | every `run()` but the last finds `tasks` empty | `SchedulerRerun.cfg` |
| `EveryThreadHasTask` (`SchedulerProofs`, `ShutdownClean` only) | one thread, or at least as many tasks as threads in every `run()` | `SchedulerEmpty.cfg` |

**Mutex** (`MutexProofs`). Neither exclusion nor types are inductive alone:
`unlock()` takes the head of a list that it must know to be non-empty. The
inductive invariant is `TypeOK /\ LockInv`: the word is locked exactly while
there is one holder; the coroutines at `"queued"` are exactly those in
`_waiters` followed by the reversed new list, once each; a holder that is past
the test of `_waiters` has it empty, and one about to exchange finds a
non-empty list. Steps fall into five kinds (local, take, enqueue, release,
hand-off), one lemma each. From it follow `MutexSafe`, `NoWaiterLost`,
`AssertionsNeverFire`, `TypeCorrect`, with one more induction
`IdleCoresOffline`, and `MutexIsFifo`: with `owner` the holder and `queue` the
service order, every step is a step of `FifoLock` or changes neither. The
lemma behind the hand-off is that reversing `<<c>> \o s` appends `c`.
`ResumedOnce` (no coroutine active twice) needs the call stacks: `StackInv` says
that a coroutine has one frame at most, that the inboxes are disjoint and without
repetition, and that a coroutine is on a stack, in an inbox, queued, finished or
not yet submitted, and only one of these. `resume()`, `return` and a message
each have a lemma (in `ReactorProofs`, where `RcuMutex` uses them too), and the hand-off is safe because whoever is queued is on no
stack.

**RCU** (`RcuProofs`). The invariant `RcuInv` says: tasks stay on their core
and one between two awaits is running there (`Placed`); the SpinLock excludes
(`WriterExclusion`); a core in a section has published a version the sequencer
has had (`Published`), which is where the counter arithmetic of `rcu_count`
enters; the heap is accounted for (`HeapAccounted`); an object a section works
on is `gp`'s or retired with its grace period still open (`Protected`); and a
writer that waits has not yet passed any core with a section on its object
(`GracePeriod`). `RcuSafe` (no use after free) and `HeapSafe` follow. The
assumption `NumTasks * n_round < DONE` keeps the sequencer below `DONE`, as
2^63 does for any real run.

The lemma about `GracePeriod` is stated for any set of waiting writers, so that
the proof about `CallRcu` can use it for those that do not defer.

**CallRcu** (`RcuProofs`, part two). Each step is a step of `Rcu` that leaves the
lists alone, an allocation, or one of the five list steps; the first kinds
inherit what part one shows. `CallInv` adds: every allocated object is owned
(by `gp`, as a fresh or as a replaced object) or in one list, never both
(`OwnedOnce`); the lists are disjoint, linked in the order of the calls, with
increasing stamps and a null pointer at the end, and an owned object's `next` is
null, which is where `HeadsZeroed` enters (`Lists`); a thread that frees is at
the head of its list (`AtHead`). Readers are safe because a listed object that a
section works on has a stamp above the version its core has published, and the
section is not on the list's own core, which `thread_call_rcu()` skips
(`StagedGrace`); so a scan that has passed that core holds a minimum below the
stamp (`ScanGrace`), and the release stops in front of the object. From it
follow `DeferredFreeSafe`, `NothingLeaks` and `ListsIntact`.

**RcuMutex** (`RcuProofs`, part three). `Placed` of part one is false here: a
writer runs wherever `unlock()` resumed it. Its place is taken by `Placement`: a
coroutine is on one stack, in one inbox, in the mutex's queue, at the device or
nowhere, and only one of these; one inside a section or an update is on top of a
stack (`Stacks`); below a stack's top there are only coroutines that have called
`unlock()` and have ended their round, and the same holds of what a core still
has on its stack while it is between the compare-exchange that queued a
coroutine and the `rcu_offline()` behind it; and a writer that yields in
`synchronize_rcu()` comes back to the core it skips (`ScansHere`).
The Mutex excludes (`OwnerExclusion`). The grace period is then argued about the
core whose stack a reader is on top of: while a section works on the object a
writer waits with, that core is not the skipped one, it has published an older
version than the writer's, and the writer has not passed it (`MGracePeriod`). A
core that goes offline late, after its coroutine was queued, is harmless because
no section is open there. `RcuMutexSafe`, `RcuMutexHeapSafe` and `SkipsOwnCore`
follow from `RcuMutexInv`, the conjunction of these.

**SharedMutex** (`SharedMutexProofs`). `LockInv`: `mut_` is taken exactly while
one coroutine is inside; the flag of `state_` stands for the one writer that has
entered and its count for the shared owners; the gates and the list in
`resumeWaiters()` are disjoint and hold exactly who waits. `WordExact` follows,
and `SharedMutexIsRwLock`: every step is a step of `RwLock` or changes neither
owner nor readers. `NoWakeUpLost` needs `WaitInv` as well: readers are on
readers' paths, nobody is at `gate1_` unless a writer has entered, nobody at
`gate2_` unless there are readers.

**Notifier** (`NotifierProofs`). `WaitersAccounted` becomes inductive with one
more fact, that only a coroutine inside `resumeWaiters()` has awaiters in its
hands. `NoWaiterLost`, `IdleCoresOffline` and `NotifierIsEvent` follow.

**Service** (`ServiceProofs`). `ServiceInv`: a core's stack is a task, a
callback, or a task resumed inside a callback; an I/O or a callback belongs to
a coroutine of that core which awaits it; the slot in use holds the request of a
coroutine that awaits nothing else; whoever awaits has one of these; free
bdev_ios and those in flight add up to `PoolSize`. The step that matters is a
request that finds no bdev_io: by counting (`SlotFree`), all of them are in
flight for other tasks of the core, so with at most `PoolSize + 1` tasks nobody
is in the slot. `EveryAwaitIsOwed` and `AnswersMatch` follow.

**Task** (`TaskProofs`). `TaskInv`: where the handles of a frame may be (a task
object before the start, the parent's `Awaiter` after it), that none has two and
every frame has one; that `_caller` and the parent's `Awaiter` point to each
other; that cores execute different coroutines which are running or whose child
has returned. `DestroyedOnce` and `ChainsIntact` follow.

**Scheduler** (`SchedulerProofs`). `SchedulerInv` relates the main thread's
progress (`Progress`, `Phases`) to what is under way. Every message says
something of its task and its thread (`MessagesSound`): a task that is started
has been sent and has not run, a yielded one has one message that resumes it
(`ResumedOnce`), `thread_init_get_channel` is the first in its thread's queue,
`thread_exit` is there only when the application stops. A thread without its
channel has run nothing and will open it first (`Channels`). `alive_tasks` is
the number of sent tasks that have not returned and of `task_done` messages in
the main thread's queue (`Counts`); both are cardinalities of sets of tasks and
of positions, so a message moves a position from one set to another and no
induction over the queue is needed. `TasksHaveChannel` and `AliveTasksExact`
follow, and with the fact that an unstarted task keeps its handle, `TasksStart`.

`ShutdownClean` needs more, and the second hypothesis. Task `k` is the first one
of thread `k` (`OwnThread`) and does not start before the thread has its channel
(`FirstTaskWaits`). So when no task is left every thread has taken its channel,
and `thread_exit` is the only message `service_exit()` leaves (`ThreadsStop`,
from the weaker `ExitOrder` in `SchedulerInv`). For the list, `WrapperInv`: a
wrapper that has not been destroyed is local to one frame of
`service_thread_run()` or `push_back()` (`OneFrame`, `FramesBegun`), and what is
linked is not what some core may still push or destroy (`Linked`), so whichever
links get overwritten, no wrapper is linked twice and none that is destroyed.

Only model-checked:

* liveness (`WaiterServed`, `Terminates`, `RunReturns`, `RequestAnswered`,
  `Completes`, `TraversalEnds`), which is out of the prover's reach;
* `List` and `RcuList`: that a ring of pointers holds a given sequence, and what
  a traversal meets, are inductions over the length of the ring (`RingIntact`, `IterationExact`,
  `ImplementsSequences`, `ReaderSafe`, `TraversalExact`).

## 5. Not modelled

* `ConditionVariable` used without its lock held by the notifier: no code does
  so, and `notifyOne()` would not be safe then.
* Exceptions in coroutine bodies: `unhandled_exception()` rethrows into the
  reactor, and nothing catches.
* The `_prev` links and the size of the `std::list` `wrapper_tasks`: its
  destructor follows `_next` only.
* Device names, core masks, JSON configuration, `launch_task_on_fire` (unused).
* SPDK itself: modelled by what the code relies on and marked external.
* Weak memory and the compiler's reordering: steps are sequentially consistent,
  as argued for RCU above; the mutex publishes its lists by release/acquire on
  one word; `RcuList` assumes program order of the writer's stores.
* Benchmarks, their scripts and the kernel module: no library logic.

## 6. Plan

All components of the library are modelled, and the safety invariants of all of
them but the lists are proved. What is left:

1. `List` and `RcuList`: the invariants and the refinement of `SeqLists`, for
   any number of nodes. `Path` is defined by recursion along the pointers, so
   this needs an induction the installed provers do not do; a model that keeps
   the sequence of a ring as a history variable would state the same of each
   pair of neighbours.
2. Liveness, which only the runs show.
