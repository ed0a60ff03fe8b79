------------------------------ MODULE Reactor ------------------------------
(***************************************************************************)
(* The execution platform every synchronisation primitive of libcoro4spdk  *)
(* runs on: num_threads SPDK threads, one per core, each with a FIFO of    *)
(* messages, and the coroutines (the tasks handed to add_task) that run on *)
(* them.  A message makes its thread resume one coroutine; the coroutine   *)
(* then runs until it suspends or returns.                                 *)
(*                                                                         *)
(* A coroutine may resume another one by an ordinary function call         *)
(* (Mutex::unlock and ConditionVariable::notify do).  The resumed          *)
(* coroutine then runs on the resumer's core, on top of the resumer's      *)
(* stack frames, and the resumer continues only when the resumed one       *)
(* suspends or returns.  running[k] is the coroutine on top of core k's    *)
(* stack and resumer[c] the one below c: together they are the call        *)
(* stacks, as linked lists.                                                *)
(*                                                                         *)
(* The module has no specification of its own: the modules of the          *)
(* primitives extend it and add their steps.                               *)
(***************************************************************************)
EXTENDS Naturals, SequencesExt

CONSTANTS
  num_threads,  \* number of SPDK threads, one per core (schedule.cpp:12)
  NumTasks,     \* tasks.size() when run() is called
  DONE,         \* version of a core outside RCU: LONG_LONG_MAX (rcu.cpp:12)
  Refresh,      \* read sections per version refresh: 1024 (rcu.cpp:21)
  None          \* no coroutine

Cores == 0 .. (num_threads - 1)
Coros == 0 .. (NumTasks - 1)

\* The core scheduler_init sends task c to.
Home(c) == c % num_threads

ASSUME ReactorAssumption ==
  /\ num_threads \in Nat \ {0}
  /\ NumTasks \in Nat
  /\ DONE \in Nat \ {0}
  /\ Refresh \in Nat \ {0}
  /\ None \notin Coros

VARIABLES
  submitted,   \* loop index of scheduler_init: tasks already sent
  inbox,       \* inbox[k]: messages of core k's SPDK thread, oldest first
  running,     \* running[k]: coroutine on top of core k's stack
  resumer,     \* resumer[c]: coroutine below c on its stack
  suspending,  \* suspending[k]: core k is leaving an await_suspend that has
               \*   already published its coroutine to other cores
  versions,    \* versions[k]: RCU version published by core k (rcu.cpp:10)
  rcu_count    \* rcu_count[k]: thread_local section counter (rcu.cpp:13)

stackVars == <<running, resumer>>
rcuVars == <<versions, rcu_count>>
reactorVars ==
  <<submitted, inbox, running, resumer, suspending, versions, rcu_count>>

ReactorTypeOK ==
  /\ submitted \in 0 .. NumTasks
  /\ inbox \in [Cores -> Seq(Coros)]
  /\ running \in [Cores -> Coros \cup {None}]
  /\ resumer \in [Coros -> Coros \cup {None}]
  /\ suspending \in [Cores -> BOOLEAN]
  /\ versions \in [Cores -> Nat]
  /\ rcu_count \in [Cores -> 0 .. (Refresh - 1)]

ReactorInit ==
  /\ submitted = 0
  /\ inbox = [k \in Cores |-> <<>>]
  /\ running = [k \in Cores |-> None]
  /\ resumer = [c \in Coros |-> None]
  /\ suspending = [k \in Cores |-> FALSE]
  /\ versions = [k \in Cores |-> DONE]
  /\ rcu_count = [k \in Cores |-> Refresh - 1]

-----------------------------------------------------------------------------
(***************************************************************************)
(* Building blocks.  Each constrains the next value of the variables its   *)
(* comment names and of no others.                                         *)
(***************************************************************************)

\* Core k may execute code of coroutine c.
Executes(k, c) == running[k] = c /\ ~suspending[k]

\* Coroutine c has a frame on some core's stack.
OnStack(c) ==
  (\E k \in Cores : running[k] = c) \/ (\E d \in Coros : resumer[d] = c)

\* Core k is back in the reactor's poll loop.
Idle(k) == running[k] = None /\ ~suspending[k]

\* coroutine_handle::resume() called on core k (running, resumer).
Resume(k, c) ==
  /\ running' = [running EXCEPT ![k] = c]
  /\ resumer' = [resumer EXCEPT ![c] = running[k]]

\* The coroutine c on top of core k's stack suspends or returns: resume()
\* returns to the frames below (running, resumer).
Return(k, c) ==
  /\ running' = [running EXCEPT ![k] = resumer[c]]
  /\ resumer' = [resumer EXCEPT ![c] = None]

\* spdk_thread_send_msg to core k's thread (inbox).
SendMsg(k, c) == inbox' = [inbox EXCEPT ![k] = Append(@, c)]

\* rcu_offline() on core k (versions, rcu_count).
rcu_offline(k) ==
  /\ versions' = [versions EXCEPT ![k] = DONE]
  /\ rcu_count' = [rcu_count EXCEPT ![k] = Refresh - 1]

\* rcu_read_lock() on core k when the sequencer holds g (versions, rcu_count).
rcu_read_lock(k, g) ==
  IF rcu_count[k] + 1 = Refresh
  THEN /\ rcu_count' = [rcu_count EXCEPT ![k] = 0]
       /\ versions' = [versions EXCEPT ![k] = g]
  ELSE /\ rcu_count' = [rcu_count EXCEPT ![k] = @ + 1]
       /\ UNCHANGED versions

-----------------------------------------------------------------------------
(***************************************************************************)
(* Steps of the scheduler that all primitives share.                       *)
(***************************************************************************)

\* One iteration of scheduler_init's round-robin loop, on the main core 0.
\* The other cores already poll, so they may run tasks while it goes on.
Submit ==
  /\ submitted < NumTasks
  /\ SendMsg(Home(submitted), submitted)
  /\ submitted' = submitted + 1
  /\ UNCHANGED <<stackVars, suspending, rcuVars>>

\* An idle reactor takes its oldest message: service_thread_run starts a task,
\* service_thread_run_yield resumes one.  Core 0 first finishes scheduler_init.
Dispatch(k) ==
  /\ Idle(k)
  /\ k = 0 => submitted = NumTasks
  /\ inbox[k] # <<>>
  /\ Resume(k, Head(inbox[k]))
  /\ inbox' = [inbox EXCEPT ![k] = Tail(@)]
  /\ UNCHANGED <<submitted, suspending, rcuVars>>

\* Mutant: await_suspend queues the message but does not suspend.
Yield_KeepsRunning(k, c) ==
  /\ rcu_offline(k)
  /\ SendMsg(k, c)
  /\ UNCHANGED <<submitted, suspending, stackVars>>

\* Mutant: the message goes to the core the task was submitted to.
Yield_ToHome(k, c) ==
  /\ rcu_offline(k)
  /\ SendMsg(Home(c), c)
  /\ Return(k, c)
  /\ UNCHANGED <<submitted, suspending>>

\* co_await yield(): go offline and queue a message that resumes c here.
Yield(k, c) ==
  /\ rcu_offline(k)
  /\ SendMsg(k, c)
  /\ Return(k, c)
  /\ UNCHANGED <<submitted, suspending>>

\* Mutant: task_run forgets rcu_offline().
Finish_StaysOnline(k, c) ==
  /\ Return(k, c)
  /\ UNCHANGED <<submitted, suspending, inbox, rcuVars>>

\* The task of c returned: task_run goes offline and reaches final_suspend.
\* (The task_done message it sends belongs to module Scheduler.)
Finish(k, c) ==
  /\ rcu_offline(k)
  /\ Return(k, c)
  /\ UNCHANGED <<submitted, suspending, inbox>>

\* Mutant: await_suspend forgets rcu_offline().
SuspendTail_StaysOnline(k) ==
  /\ suspending[k]
  /\ suspending' = [suspending EXCEPT ![k] = FALSE]
  /\ UNCHANGED <<submitted, inbox, stackVars, rcuVars>>

\* The end of an await_suspend that queued its coroutine where other cores can
\* resume it: only rcu_offline() and the return to the frames below are left.
SuspendTail(k) ==
  /\ suspending[k]
  /\ rcu_offline(k)
  /\ suspending' = [suspending EXCEPT ![k] = FALSE]
  /\ UNCHANGED <<submitted, inbox, stackVars>>

=============================================================================
