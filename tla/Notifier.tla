------------------------------ MODULE Notifier ------------------------------
(***************************************************************************)
(* async_simple::coro::Notifier, that is ConditionVariable<void>           *)
(* (include/conditionvariable.hpp): an event without a lock.               *)
(*                                                                         *)
(* _awaiters is one atomic word: `this' (signalled), nullptr or the newest *)
(* awaiter of a list.  It is modelled by `signalled' and the list          *)
(* `waiting', newest first; Word is the word itself, the only thing a      *)
(* compare-exchange sees.  Each atomic access is a step of its own.        *)
(*                                                                         *)
(* The coroutines are those of test/condvar.cpp, over several rounds:      *)
(* producers notify or reset, and their last operation is notify();        *)
(* consumers wait, possibly after an RCU read section.                     *)
(***************************************************************************)
EXTENDS Reactor

CONSTANTS
  Producers,  \* tasks that notify; the others wait
  n_round,    \* operations per task
  Self,       \* value `this' of _awaiters
  Null        \* value nullptr of _awaiters

ASSUME NotifierAssumption ==
  /\ Producers \subseteq Coros
  /\ n_round \in Nat \ {0}
  /\ Self \notin Coros
  /\ Null \notin Coros
  /\ Self # Null

VARIABLES
  signalled,  \* _awaiters = this
  waiting,    \* the list _awaiters points to
  awaitings,  \* awaitings[c]: local of await_suspend
  pending,    \* pending[c]: what c's resumeWaiters() has still to resume
  round,      \* round[c]: operations c has finished
  pc          \* pc[c]: where coroutine c is

eventVars == <<signalled, waiting, pending>>
vars == <<reactorVars, eventVars, awaitings, round, pc>>

Word ==
  IF signalled THEN Self ELSE IF waiting = <<>> THEN Null ELSE Head(waiting)

PcValues ==
  {"start",   \* between two operations
   "ready",   \* about to co_await wait()
   "load",    \* await_ready() was false, _awaiters not yet loaded
   "cas",     \* in the loop of await_suspend with a loaded word
   "queued",  \* suspended, its awaiter in waiting or pending
   "resume",  \* in resumeWaiters()
   "after",   \* the operation is finished
   "done"}    \* task finished

\* Every variable has its type; the RCU section counters stay in range.
TypeOK ==
  /\ ReactorTypeOK
  /\ signalled \in BOOLEAN
  /\ waiting \in Seq(Coros)
  /\ awaitings \in [Coros -> Coros \cup {Self, Null}]
  /\ pending \in [Coros -> Seq(Coros)]
  /\ round \in [Coros -> 0 .. (n_round - 1)]
  /\ pc \in [Coros -> PcValues]

Init ==
  /\ ReactorInit
  /\ signalled = FALSE
  /\ waiting = <<>>
  /\ awaitings = [c \in Coros |-> Null]
  /\ pending = [c \in Coros |-> <<>>]
  /\ round = [c \in Coros |-> 0]
  /\ pc = [c \in Coros |-> "start"]

\* Coroutine c executes on core k and moves from pc a to pc b.
Step(k, c, a, b) ==
  /\ Executes(k, c)
  /\ pc[c] = a
  /\ pc' = [pc EXCEPT ![c] = b]

-----------------------------------------------------------------------------
(***************************************************************************)
(* co_await wait()                                                         *)
(***************************************************************************)

\* A read section before the wait, or none.
ReadSection(k, c) ==
  /\ c \notin Producers
  /\ Step(k, c, "start", "ready")
  /\ rcu_read_lock(k, 0)
  /\ UNCHANGED <<submitted, inbox, stackVars, suspending, eventVars, awaitings,
                 round>>

NoReadSection(k, c) ==
  /\ c \notin Producers
  /\ Step(k, c, "start", "ready")
  /\ UNCHANGED <<reactorVars, eventVars, awaitings, round>>

await_ready(k, c) ==
  /\ Step(k, c, "ready", IF Word = Self THEN "after" ELSE "load")
  /\ UNCHANGED <<reactorVars, eventVars, awaitings, round>>

\* await_suspend() loads the word.
LoadWord(k, c) ==
  /\ Step(k, c, "load", "cas")
  /\ awaitings' = [awaitings EXCEPT ![c] = Word]
  /\ UNCHANGED <<reactorVars, eventVars, round>>

\* The event has been signalled meanwhile: do not suspend.
CasPass(k, c) ==
  /\ Step(k, c, "cas", "after")
  /\ awaitings[c] = Self
  /\ UNCHANGED <<reactorVars, eventVars, awaitings, round>>

\* Mutant: the word is stored without comparing it with the loaded one.
CasEnqueue_Store(k, c) ==
  /\ Step(k, c, "cas", "queued")
  /\ awaitings[c] # Self
  /\ waiting' = IF awaitings[c] = Null THEN <<c>> ELSE <<c>> \o waiting
  /\ signalled' = FALSE
  /\ Return(k, c)
  /\ suspending' = [suspending EXCEPT ![k] = TRUE]
  /\ UNCHANGED <<submitted, inbox, rcuVars, pending, awaitings, round>>

\* Mutant: does not look for `this' before it queues its awaiter.
CasEnqueue_Signalled(k, c) ==
  /\ Step(k, c, "cas", "queued")
  /\ Word = awaitings[c]
  /\ waiting' = <<c>> \o waiting
  /\ signalled' = FALSE
  /\ Return(k, c)
  /\ suspending' = [suspending EXCEPT ![k] = TRUE]
  /\ UNCHANGED <<submitted, inbox, rcuVars, pending, awaitings, round>>

\* The word is still the loaded one: the awaiter becomes the head of the list.
\* From here on another core may resume c.
CasEnqueue(k, c) ==
  /\ Step(k, c, "cas", "queued")
  /\ awaitings[c] # Self
  /\ Word = awaitings[c]
  /\ waiting' = <<c>> \o waiting
  /\ Return(k, c)
  /\ suspending' = [suspending EXCEPT ![k] = TRUE]
  /\ UNCHANGED <<submitted, inbox, rcuVars, signalled, pending, awaitings, round>>

\* The compare-exchange failed and reloaded the word.
CasRetry(k, c) ==
  /\ Step(k, c, "cas", "cas")
  /\ awaitings[c] # Self
  /\ Word # awaitings[c]
  /\ awaitings' = [awaitings EXCEPT ![c] = Word]
  /\ UNCHANGED <<reactorVars, eventVars, round>>

-----------------------------------------------------------------------------
(***************************************************************************)
(* notify() and reset()                                                    *)
(***************************************************************************)

\* notify(): the exchange takes the list and signals the event.
notify(k, c) ==
  /\ c \in Producers
  /\ Step(k, c, "start", "resume")
  /\ signalled' = TRUE
  /\ pending' = [pending EXCEPT ![c] = waiting]
  /\ waiting' = <<>>
  /\ UNCHANGED <<reactorVars, awaitings, round>>

\* resumeWaiters() resumes its next awaiter inline; it has read _next before.
ResumeWaiter(k, c) ==
  /\ Executes(k, c)
  /\ pc[c] = "resume"
  /\ pending[c] # <<>>
  /\ Resume(k, Head(pending[c]))
  /\ pc' = [pc EXCEPT ![Head(pending[c])] = "after"]
  /\ pending' = [pending EXCEPT ![c] = Tail(@)]
  /\ UNCHANGED <<submitted, inbox, suspending, rcuVars, signalled, waiting,
                 awaitings, round>>

NotifyEnd(k, c) ==
  /\ pending[c] = <<>>
  /\ Step(k, c, "resume", "after")
  /\ UNCHANGED <<reactorVars, eventVars, awaitings, round>>

\* Mutant: an unconditional store of nullptr.
reset_Store(k, c) ==
  /\ c \in Producers
  /\ round[c] + 1 < n_round
  /\ Step(k, c, "start", "after")
  /\ signalled' = FALSE
  /\ waiting' = <<>>
  /\ UNCHANGED <<reactorVars, pending, awaitings, round>>

\* reset(): a compare-exchange of `this' to nullptr, never a producer's last
\* operation.
reset(k, c) ==
  /\ c \in Producers
  /\ round[c] + 1 < n_round
  /\ Step(k, c, "start", "after")
  /\ signalled' = FALSE
  /\ UNCHANGED <<reactorVars, waiting, pending, awaitings, round>>

-----------------------------------------------------------------------------
\* Another operation, after a yield or at once, or the end of the task.
NextRound(k, c) ==
  /\ round[c] + 1 < n_round
  /\ Step(k, c, "after", "start")
  /\ round' = [round EXCEPT ![c] = @ + 1]
  /\ \/ Yield(k, c)
     \/ UNCHANGED reactorVars
  /\ UNCHANGED <<eventVars, awaitings>>

TaskReturn(k, c) ==
  /\ round[c] + 1 = n_round
  /\ Step(k, c, "after", "done")
  /\ Finish(k, c)
  /\ UNCHANGED <<eventVars, awaitings, round>>

CoroStep(k, c) ==
  \/ ReadSection(k, c)
  \/ NoReadSection(k, c)
  \/ await_ready(k, c)
  \/ LoadWord(k, c)
  \/ CasPass(k, c)
  \/ CasEnqueue(k, c)
  \/ CasRetry(k, c)
  \/ notify(k, c)
  \/ ResumeWaiter(k, c)
  \/ NotifyEnd(k, c)
  \/ reset(k, c)
  \/ NextRound(k, c)
  \/ TaskReturn(k, c)

SubmitTask == Submit /\ UNCHANGED <<eventVars, awaitings, round, pc>>

Reactors(k) ==
  /\ Dispatch(k) \/ SuspendTail(k)
  /\ UNCHANGED <<eventVars, awaitings, round, pc>>

CoreStep(k) == Reactors(k) \/ \E c \in Coros : CoroStep(k, c)

AllDone == \A c \in Coros : pc[c] = "done"

\* Every task has finished: the application stops (module Scheduler).
Stopped == AllDone /\ UNCHANGED vars

Next == SubmitTask \/ (\E k \in Cores : CoreStep(k)) \/ Stopped

\* A reactor polls for ever, so a core that can take a step takes one.
Fairness == WF_vars(SubmitTask) /\ \A k \in Cores : WF_vars(CoreStep(k))

Spec == Init /\ [][Next]_vars
FairSpec == Spec /\ Fairness

-----------------------------------------------------------------------------
\* The coroutines in the hands of some resumeWaiters().
Pending == UNION {Range(pending[c]) : c \in Coros}

\* No lost and no duplicated waiter: the suspended coroutines are exactly those
\* in the list and in the hands of the notifiers, each in one place, once, even
\* when two cores notify at the same time.
WaitersAccounted ==
  /\ TypeOK
  /\ Range(waiting) \cup Pending = {c \in Coros : pc[c] = "queued"}
  /\ Range(waiting) \cap Pending = {}
  /\ IsInjective(waiting)
  /\ \A c \in Coros : IsInjective(pending[c])
  /\ \A c, d \in Coros :
       c # d => Range(pending[c]) \cap Range(pending[d]) = {}

\* A reactor that has nothing to run is outside RCU, although rcu_offline()
\* comes after the step that makes the coroutine visible to notifiers.
IdleCoreOffline == \A k \in Cores : Idle(k) => versions[k] = DONE

\* Every wait() returns if no reset() follows the last notify(): no consumer
\* that loads the word before an exchange and queues itself after it is lost.
Terminates == <>AllDone

Ev == INSTANCE Event
        WITH Procs <- Coros, blocked <- Range(waiting), released <- Pending

\* The notifier implements the abstract event: nobody blocks on a signalled
\* event, notify() releases all who wait, each resumes once, and reset() takes
\* nobody out of the list.
ImplementsEvent == Ev!Spec

=============================================================================
