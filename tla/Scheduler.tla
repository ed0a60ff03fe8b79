----------------------------- MODULE Scheduler -----------------------------
(***************************************************************************)
(* The scheduler of src/schedule.cpp: run() starts the SPDK application,   *)
(* scheduler_init() creates a thread and an I/O channel per core and sends *)
(* the tasks to the threads round robin, every task that returns sends     *)
(* task_done to the main thread, and the last one shuts everything down.   *)
(*                                                                         *)
(* Module Reactor keeps only the part of this that the primitives need;    *)
(* here are the messages, the counters, the life of the wrapper coroutine  *)
(* task_run() that service_thread_run() puts around each task, and several *)
(* run() calls of one process (test/spdk_module.cpp, test/condvar.cpp).    *)
(*                                                                         *)
(* What a task awaits is abstract: it may yield, it may park where another *)
(* task can find it (Mutex, ConditionVariable) and it may resume a parked  *)
(* task inline, on its own core.                                           *)
(***************************************************************************)
EXTENDS Naturals, FiniteSets, SequencesExt

CONSTANTS
  num_threads,  \* SPDK threads, one per core (schedule.cpp:12)
  NumTasks,     \* add_task() calls of the program
  TaskCounts,   \* TaskCounts[r]: tasks.size() in the r-th run()
  MaxAwaits     \* bound: awaits of one task

ASSUME SchedulerAssumption ==
  /\ num_threads \in Nat \ {0}
  /\ NumTasks \in Nat
  /\ TaskCounts \in Seq(0 .. NumTasks)
  /\ \A r \in 1 .. (Len(TaskCounts) - 1) : TaskCounts[r] <= TaskCounts[r + 1]
  /\ MaxAwaits \in Nat

Cores == 0 .. (num_threads - 1)
Coros == 0 .. (NumTasks - 1)

\* The header of the list wrapper_tasks; the other entries are tasks.
End == NumTasks
Entries == 0 .. NumTasks

VARIABLES
  main,           \* what the main thread is doing: "app" (outside run()),
                  \*   "create", "submit" (the loops of scheduler_init), "poll"
  runs,           \* run() calls so far
  i,              \* loop index of scheduler_init
  size,           \* tasks.size()
  handle,         \* handle[c]: tasks[c]._h # nullptr
  desc,           \* the bdev is open
  channels,       \* channels[k]: "none", "open" or "put"
  alive_tasks,
  stopping,       \* spdk_app_stop() was called
  inbox,          \* inbox[k]: messages of core k's thread, oldest first
  stack,          \* stack[k]: C++ frames of core k, top first
  pc,             \* pc[c]: where task c and its wrapper task_run() are
  awaits,         \* awaits[c]: awaits of task c so far
  frame,          \* frame[c]: the wrapper's coroutine frame
  wrapper_tasks,  \* list of wrappers kept after service_thread_run(): .next[e]
                  \*   is the node behind entry e, .last the header's prev
  fault           \* the undefined behaviour that ended the process, or "none"

mainVars == <<main, runs, i, size>>
appVars == <<desc, channels, alive_tasks, stopping>>
coroVars == <<pc, awaits, frame, wrapper_tasks>>
vars == <<mainVars, handle, appVars, inbox, stack, coroVars, fault>>

\* Messages carry the function to call and its argument.
Msg(f, a) == [fn |-> f, arg |-> a]
Handlers ==
  {"thread_init_get_channel", "service_thread_run", "service_thread_run_yield",
   "task_done", "thread_exit"}
Messages == [fn : Handlers, arg : Coros \cup Cores]

\* A frame of service_thread_run(), whose local t is the wrapper of task c,
\* before or inside its push_back(), or of the coroutine c itself.
Frames == [of : {"service_thread_run", "push_back", "coroutine"}, arg : Coros]
Coroutine(c) == [of |-> "coroutine", arg |-> c]
ServiceThreadRun(c) == [of |-> "service_thread_run", arg |-> c]
PushBack(c) == [of |-> "push_back", arg |-> c]

PcValues ==
  {"none",     \* add_task not called yet
   "added",    \* in tasks, not started
   "body",     \* running, or below what it resumed
   "yielded",  \* a message will resume it
   "parked",   \* another task may resume it
   "ending",   \* the wrapper has sent task_done
   "final",    \* the wrapper's frame says done(), final_suspend still runs
   "gone"}     \* suspended at final_suspend

Started == {"body", "yielded", "parked"}

\* Every variable has its type; alive_tasks, an int, is never negative.
TypeOK ==
  /\ main \in {"app", "create", "submit", "poll"}
  /\ runs \in 0 .. Len(TaskCounts)
  /\ i \in Nat
  /\ size \in Nat
  /\ handle \in [Coros -> BOOLEAN]
  /\ desc \in BOOLEAN
  /\ channels \in [Cores -> {"none", "open", "put"}]
  /\ alive_tasks \in Nat
  /\ stopping \in BOOLEAN
  /\ inbox \in [Cores -> Seq(Messages)]
  /\ stack \in [Cores -> Seq(Frames)]
  /\ pc \in [Coros -> PcValues]
  /\ awaits \in [Coros -> 0 .. MaxAwaits]
  /\ frame \in [Coros -> {"none", "live", "destroyed"}]
  /\ wrapper_tasks \in [next : [Entries -> Entries], last : Entries]
  /\ fault \in {"none", "null handle", "closed desc", "destroyed frame"}

Init ==
  /\ main = "app"
  /\ runs = 0
  /\ i = 0
  /\ size = 0
  /\ handle = [c \in Coros |-> FALSE]
  /\ desc = FALSE
  /\ channels = [k \in Cores |-> "none"]
  /\ alive_tasks = 0
  /\ stopping = FALSE
  /\ inbox = [k \in Cores |-> <<>>]
  /\ stack = [k \in Cores |-> <<>>]
  /\ pc = [c \in Coros |-> "none"]
  /\ awaits = [c \in Coros |-> 0]
  /\ frame = [c \in Coros |-> "none"]
  /\ wrapper_tasks = [next |-> [e \in Entries |-> End], last |-> End]
  /\ fault = "none"

Send(k, m) == inbox' = [inbox EXCEPT ![k] = Append(@, m)]
Push(k, frames) == stack' = [stack EXCEPT ![k] = frames \o @]
Pop(k) == stack' = [stack EXCEPT ![k] = Tail(@)]

-----------------------------------------------------------------------------
(***************************************************************************)
(* The main thread outside its poll loop.                                  *)
(***************************************************************************)

\* init_service(), the add_task() calls and run(), up to the loops of
\* scheduler_init().  Nothing removes from tasks.
Run ==
  /\ main = "app"
  /\ runs < Len(TaskCounts)
  /\ LET added == size .. (TaskCounts[runs + 1] - 1)
     IN  /\ size' = TaskCounts[runs + 1]
         /\ handle' = [c \in Coros |-> handle[c] \/ c \in added]
         /\ pc' = [c \in Coros |-> IF c \in added THEN "added" ELSE pc[c]]
  /\ runs' = runs + 1
  /\ main' = "create"
  /\ i' = 0
  /\ alive_tasks' = 0
  /\ desc' = TRUE
  /\ stopping' = FALSE
  /\ UNCHANGED <<channels, inbox, stack, awaits, frame, wrapper_tasks, fault>>

\* Mutant: the new thread is not told to open its channel.
CreateThread_NoChannel ==
  /\ main = "create"
  /\ channels' = [channels EXCEPT ![0] = "open"]
  /\ IF i + 1 = num_threads
     THEN main' = "submit" /\ i' = 0
     ELSE i' = i + 1 /\ UNCHANGED main
  /\ UNCHANGED <<runs, size, handle, desc, alive_tasks, stopping, inbox, stack,
                 coroVars, fault>>

\* One iteration of SPDK_ENV_FOREACH_CORE.  A channel belongs to the thread
\* that asks for it, so every other core gets a message.
CreateThread ==
  /\ main = "create"
  /\ \/ /\ i = 0
        /\ channels' = [channels EXCEPT ![i] = "open"]
        /\ UNCHANGED inbox
     \/ /\ i # 0
        /\ Send(i, Msg("thread_init_get_channel", i))
        /\ UNCHANGED channels
  /\ IF i + 1 = num_threads
     THEN main' = "submit" /\ i' = 0
     ELSE i' = i + 1 /\ UNCHANGED main
  /\ UNCHANGED <<runs, size, handle, desc, alive_tasks, stopping, stack,
                 coroVars, fault>>

\* Mutant: every task goes to the main thread.
SubmitTask_OneThread ==
  /\ main = "submit"
  /\ i < size
  /\ alive_tasks' = alive_tasks + 1
  /\ Send(0, Msg("service_thread_run", i))
  /\ i' = i + 1
  /\ UNCHANGED <<main, runs, size, handle, desc, channels, stopping, stack,
                 coroVars, fault>>

\* One iteration of the round-robin loop.
SubmitTask ==
  /\ main = "submit"
  /\ i < size
  /\ alive_tasks' = alive_tasks + 1
  /\ Send(i % num_threads, Msg("service_thread_run", i))
  /\ i' = i + 1
  /\ UNCHANGED <<main, runs, size, handle, desc, channels, stopping, stack,
                 coroVars, fault>>

\* service_exit() on the main thread, with `inboxes' the messages not yet
\* taken (desc, channels, stopping, inbox).
service_exit(inboxes) ==
  /\ channels' = [channels EXCEPT ![0] = "put"]
  /\ inbox' = [k \in Cores |-> IF k = 0 THEN inboxes[k]
                               ELSE Append(inboxes[k], Msg("thread_exit", k))]
  /\ desc' = FALSE
  /\ stopping' = TRUE

\* The end of scheduler_init().
SchedulerInitEnd ==
  /\ main = "submit"
  /\ i = size
  /\ main' = "poll"
  /\ IF size = 0
     THEN service_exit(inbox)
     ELSE UNCHANGED <<desc, channels, stopping, inbox>>
  /\ UNCHANGED <<runs, i, size, handle, alive_tasks, stack, coroVars, fault>>

\* spdk_app_start() returns once every thread has handled its messages.
AppStartReturns ==
  /\ main = "poll"
  /\ stopping
  /\ \A k \in Cores : inbox[k] = <<>> /\ stack[k] = <<>>
  /\ main' = "app"
  /\ UNCHANGED <<runs, i, size, handle, appVars, inbox, stack, coroVars, fault>>

-----------------------------------------------------------------------------
(***************************************************************************)
(* Messages.  A thread whose stack is empty takes its oldest one; the main *)
(* thread does so only after scheduler_init().                             *)
(***************************************************************************)

Takes(k, f) ==
  /\ stack[k] = <<>>
  /\ k = 0 => main = "poll"
  /\ inbox[k] # <<>>
  /\ Head(inbox[k]).fn = f

Rest(k) == [inbox EXCEPT ![k] = Tail(@)]

\* spdk_bdev_get_io_channel() reads the bdev from desc.  service_exit() may have
\* closed desc, and SPDK freed it: the read then finds the old value or
\* something else.
thread_init_get_channel(k) ==
  /\ Takes(k, "thread_init_get_channel")
  /\ inbox' = Rest(k)
  /\ channels' = [channels EXCEPT ![Head(inbox[k]).arg] = "open"]
  /\ fault' \in {"none", IF desc THEN "none" ELSE "closed desc"}
  /\ UNCHANGED <<mainVars, handle, desc, alive_tasks, stopping, stack, coroVars>>

\* Create the wrapper and start it; its co_await takes the handle out of
\* tasks[c].  A task whose handle is gone already is a null dereference.
service_thread_run(k) ==
  /\ Takes(k, "service_thread_run")
  /\ inbox' = Rest(k)
  /\ LET c == Head(inbox[k]).arg
     IN  \/ /\ handle[c]
            /\ handle' = [handle EXCEPT ![c] = FALSE]
            /\ frame' = [frame EXCEPT ![c] = "live"]
            /\ pc' = [pc EXCEPT ![c] = "body"]
            /\ Push(k, <<Coroutine(c), ServiceThreadRun(c)>>)
            /\ UNCHANGED fault
         \/ /\ ~handle[c]
            /\ fault' = "null handle"
            /\ UNCHANGED <<handle, frame, pc, stack>>
  /\ UNCHANGED <<mainVars, appVars, awaits, wrapper_tasks>>

service_thread_run_yield(k) ==
  /\ Takes(k, "service_thread_run_yield")
  /\ inbox' = Rest(k)
  /\ pc' = [pc EXCEPT ![Head(inbox[k]).arg] = "body"]
  /\ Push(k, <<Coroutine(Head(inbox[k]).arg)>>)
  /\ UNCHANGED <<mainVars, handle, appVars, awaits, frame, wrapper_tasks, fault>>

\* Mutant: stops while one task is alive.
task_done_Early(k) ==
  /\ Takes(k, "task_done")
  /\ alive_tasks' = alive_tasks - 1
  /\ IF alive_tasks = 2
     THEN service_exit(Rest(k))
     ELSE inbox' = Rest(k) /\ UNCHANGED <<desc, channels, stopping>>
  /\ UNCHANGED <<mainVars, handle, stack, coroVars, fault>>

task_done(k) ==
  /\ Takes(k, "task_done")
  /\ alive_tasks' = alive_tasks - 1
  /\ IF alive_tasks = 1
     THEN service_exit(Rest(k))
     ELSE inbox' = Rest(k) /\ UNCHANGED <<desc, channels, stopping>>
  /\ UNCHANGED <<mainVars, handle, stack, coroVars, fault>>

thread_exit(k) ==
  /\ Takes(k, "thread_exit")
  /\ inbox' = Rest(k)
  /\ channels' = [channels EXCEPT ![Head(inbox[k]).arg] = "put"]
  /\ UNCHANGED <<mainVars, handle, desc, alive_tasks, stopping, stack, coroVars,
                 fault>>

-----------------------------------------------------------------------------
(***************************************************************************)
(* The task on top of a core's stack.                                      *)
(***************************************************************************)

Top(k, f) == stack[k] # <<>> /\ Head(stack[k]) = f

Executes(k, c, a) == Top(k, Coroutine(c)) /\ pc[c] = a

CountAwait(c) ==
  /\ awaits[c] < MaxAwaits
  /\ awaits' = [awaits EXCEPT ![c] = @ + 1]

\* co_await yield(): a message to the thread the coroutine is on now.
Yield(k, c) ==
  /\ Executes(k, c, "body")
  /\ CountAwait(c)
  /\ pc' = [pc EXCEPT ![c] = "yielded"]
  /\ Send(k, Msg("service_thread_run_yield", c))
  /\ Pop(k)
  /\ UNCHANGED <<mainVars, handle, appVars, frame, wrapper_tasks, fault>>

\* The tasks that could still resume a parked one.
Wakers(c) == {d \in Coros \ {c} : pc[d] \in {"added", "body", "yielded"}}

\* An await_suspend that leaves the coroutine where another task finds it.
\* Programs do not wait for what nobody can signal.
Park(k, c) ==
  /\ Executes(k, c, "body")
  /\ Wakers(c) # {}
  /\ CountAwait(c)
  /\ pc' = [pc EXCEPT ![c] = "parked"]
  /\ Pop(k)
  /\ UNCHANGED <<mainVars, handle, appVars, inbox, frame, wrapper_tasks, fault>>

\* An unlock() or notify() that resumes task d inline.
Unpark(k, c, d) ==
  /\ Executes(k, c, "body")
  /\ pc[d] = "parked"
  /\ pc' = [pc EXCEPT ![d] = "body"]
  /\ Push(k, <<Coroutine(d)>>)
  /\ UNCHANGED <<mainVars, handle, appVars, inbox, awaits, frame, wrapper_tasks,
                 fault>>

\* Mutant: the main thread is not told.
TaskReturn_Silent(k, c) ==
  /\ Executes(k, c, "body")
  /\ (\E d \in Coros : pc[d] = "parked") => Wakers(c) # {}
  /\ pc' = [pc EXCEPT ![c] = "ending"]
  /\ UNCHANGED <<mainVars, handle, appVars, inbox, stack, awaits, frame,
                 wrapper_tasks, fault>>

\* The task returns into its wrapper, which sends task_done.  Programs do not
\* end their last waker while a task waits.
TaskReturn(k, c) ==
  /\ Executes(k, c, "body")
  /\ (\E d \in Coros : pc[d] = "parked") => Wakers(c) # {}
  /\ pc' = [pc EXCEPT ![c] = "ending"]
  /\ Send(0, Msg("task_done", 0))
  /\ UNCHANGED <<mainVars, handle, appVars, stack, awaits, frame, wrapper_tasks,
                 fault>>

\* The compiler marks the frame as done before it calls
\* resume_awaiter::await_suspend.
MarkDone(k, c) ==
  /\ Executes(k, c, "ending")
  /\ pc' = [pc EXCEPT ![c] = "final"]
  /\ UNCHANGED <<mainVars, handle, appVars, inbox, stack, awaits, frame,
                 wrapper_tasks, fault>>

\* await_suspend reads _caller from the frame and control returns to whoever
\* called resume().  On a destroyed frame the read finds the old value or
\* something else.
FinalSuspend(k, c) ==
  /\ Executes(k, c, "final")
  /\ pc' = [pc EXCEPT ![c] = "gone"]
  /\ Pop(k)
  /\ fault' \in {"none", IF frame[c] = "live" THEN "none" ELSE "destroyed frame"}
  /\ UNCHANGED <<mainVars, handle, appVars, inbox, awaits, frame, wrapper_tasks>>

\* Back in service_thread_run(): t is destroyed if it is done, and otherwise
\* moved to the end of wrapper_tasks.  Another core may be running the task.
\* push_back() links the node behind the last one and then makes it the last;
\* cores that do so at once overwrite each other's links, and nodes get lost.
CheckDone(k, c) ==
  /\ Top(k, ServiceThreadRun(c))
  /\ \/ /\ pc[c] \in {"final", "gone"}
        /\ frame' = [frame EXCEPT ![c] = "destroyed"]
        /\ Pop(k)
        /\ UNCHANGED wrapper_tasks
     \/ /\ pc[c] \notin {"final", "gone"}
        /\ wrapper_tasks' =
             [wrapper_tasks EXCEPT !.next = [@ EXCEPT ![wrapper_tasks.last] = c,
                                                      ![c] = End]]
        /\ stack' = [stack EXCEPT ![k] = <<PushBack(c)>> \o Tail(@)]
        /\ UNCHANGED frame
  /\ UNCHANGED <<mainVars, handle, appVars, inbox, pc, awaits, fault>>

PushBackEnds(k, c) ==
  /\ Top(k, PushBack(c))
  /\ wrapper_tasks' = [wrapper_tasks EXCEPT !.last = c]
  /\ Pop(k)
  /\ UNCHANGED <<mainVars, handle, appVars, inbox, pc, awaits, frame, fault>>

-----------------------------------------------------------------------------
MainStep ==
  /\ fault = "none"
  /\ \/ Run
     \/ CreateThread
     \/ SubmitTask
     \/ SchedulerInitEnd
     \/ AppStartReturns

CoreStep(k) ==
  /\ fault = "none"
  /\ \/ thread_init_get_channel(k)
     \/ service_thread_run(k)
     \/ service_thread_run_yield(k)
     \/ task_done(k)
     \/ thread_exit(k)
     \/ \E c \in Coros :
          \/ Yield(k, c)
          \/ Park(k, c)
          \/ \E d \in Coros : Unpark(k, c, d)
          \/ TaskReturn(k, c)
          \/ MarkDone(k, c)
          \/ FinalSuspend(k, c)
          \/ CheckDone(k, c)
          \/ PushBackEnds(k, c)

\* The process ends after its last run(), or by a crash.
Returned == main = "app" /\ runs = Len(TaskCounts)
Ended == Returned \/ fault # "none"

Next == MainStep \/ (\E k \in Cores : CoreStep(k)) \/ (Ended /\ UNCHANGED vars)

\* Reactors poll for ever and scheduler_init() does not block.
Fairness == WF_vars(MainStep) /\ \A k \in Cores : WF_vars(CoreStep(k))

Spec == Init /\ [][Next]_vars
FairSpec == Spec /\ Fairness

-----------------------------------------------------------------------------
\* A core that runs task code has its I/O channel: thread_init_get_channel is
\* ahead of the first task in the thread's messages, and service_exit() puts
\* no channel while a task, or what is left of one on a stack, may use it.
ChannelOpen ==
  \A k \in Cores, c \in Coros :
    Executes(k, c, "body") => channels[k] = "open" /\ desc

\* alive_tasks is the number of tasks sent to a thread whose task_done the
\* main thread has not handled, although tasks return while scheduler_init()
\* still counts.
Sent == IF main = "poll" THEN 0 .. (size - 1)
        ELSE IF main = "submit" THEN 0 .. (i - 1) ELSE {}

AliveCounts ==
  /\ TypeOK
  /\ main \in {"submit", "poll"} =>
       alive_tasks =
         Cardinality({c \in Sent : pc[c] \in Started \cup {"added"}})
           + Cardinality({n \in 1 .. Len(inbox[0]) : inbox[0][n].fn = "task_done"})

\* What is left of wrapper_tasks when cores have pushed to it at once can still
\* be destroyed: a walk meets a wrapper once, and none is destroyed already.
WrappersOnce ==
  LET next == wrapper_tasks.next
  IN  \A d \in Entries : next[d] # End =>
        /\ frame[next[d]] = "live"
        /\ \A e \in Entries : next[e] = next[d] => d = e

\* Shutdown is clean: when spdk_app_stop() is called no task has anything left
\* to do, and every other thread has handled all its messages but thread_exit,
\* in particular those that use desc, which is closed, and puts its channel
\* once, as its last act.  The destructor of wrapper_tasks finds a sound list.
CleanExit ==
  stopping =>
    /\ \A c \in Coros : c < size => pc[c] \notin Started \cup {"added"}
    /\ \A k \in Cores \ {0} :
         \/ channels[k] = "open" /\ inbox[k] = <<Msg("thread_exit", k)>>
         \/ channels[k] = "put" /\ inbox[k] = <<>> /\ stack[k] = <<>>
    /\ inbox[0] = <<>>
    /\ WrappersOnce

\* Every run() returns: the last task_done always reaches the main thread and
\* stops the application, and no thread follows a null handle or a closed desc.
\* A process may die only of what run scheduler_frame shows.
RunReturns == <>(Returned \/ fault = "destroyed frame")

\* The comment on service_thread_run() (schedule.cpp:100, "t must not be
\* destroyed"): no core executes a wrapper whose frame has been destroyed.
FrameAlive ==
  \A k \in Cores, c \in Coros : Top(k, Coroutine(c)) => frame[c] = "live"

\* Every task a run() sends to a thread has a coroutine to run, as
\* test/condvar.cpp:50-56 needs for its second run().
TasksHaveCoroutine ==
  \A k \in Cores : \A n \in 1 .. Len(inbox[k]) :
    inbox[k][n].fn = "service_thread_run" => handle[inbox[k][n].arg]

=============================================================================
