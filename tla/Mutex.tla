------------------------------- MODULE Mutex -------------------------------
(***************************************************************************)
(* async_simple::coro::Mutex (include/mutex.hpp): a coroutine mutex whose  *)
(* waiters are the suspended coroutines' LockAwaiters.                     *)
(*                                                                         *)
(* _state is one atomic word: `this' (unlocked), nullptr (locked, nobody   *)
(* newly queued) or the newest LockAwaiter of a LIFO list.  It is modelled *)
(* by `locked' and the list `newly', newest first; StateWord is the word   *)
(* itself, the only thing a compare-exchange sees.  _waiters is the FIFO   *)
(* list only the lock holder touches.  Each atomic access of the code is a *)
(* step of its own; what the holder does to its private lists goes with    *)
(* the next atomic access.                                                 *)
(*                                                                         *)
(* The coroutines are those of test/mutex.cpp and test/rcu_schedule.cpp:   *)
(* rounds of an optional RCU read section, co_await coLock(), a critical   *)
(* section that may itself yield (synchronize_rcu does), and unlock().     *)
(***************************************************************************)
EXTENDS Reactor

CONSTANTS
  Unlocked,  \* value `this' of _state
  Null       \* value nullptr of _state

ASSUME MutexAssumption ==
  /\ Unlocked \notin Coros
  /\ Null \notin Coros
  /\ Unlocked # Null

VARIABLES
  locked,    \* _state # unlockedState()
  newly,     \* LIFO list that _state points to
  waiters,   \* _waiters
  oldValue,  \* oldValue[c]: local of lockAsyncImpl
  pc         \* pc[c]: where coroutine c is

mutexVars == <<locked, newly, waiters>>
vars == <<reactorVars, mutexVars, oldValue, pc>>

StateWord ==
  IF ~locked THEN Unlocked ELSE IF newly = <<>> THEN Null ELSE Head(newly)

PcValues ==
  {"start",   \* between two rounds
   "lock",    \* about to co_await coLock()
   "load",    \* await_suspend entered, _state not yet loaded
   "cas",     \* in lockAsyncImpl's loop with a loaded oldValue
   "queued",  \* suspended, its LockAwaiter in newly or waiters
   "cs",      \* holds the lock
   "unlock",  \* holds the lock, critical section done
   "ucas",    \* in unlock(), about to compare-exchange nullptr to `this'
   "uxchg",   \* in unlock(), about to take the newly queued waiters
   "after",   \* unlock() returned, or waits below the coroutine it resumed
   "done"}    \* task finished

\* Every variable of the mutex and of its reactors has its type; the versions
\* and the section counters of rcu.cpp stay in range.
TypeOK ==
  /\ ReactorTypeOK
  /\ locked \in BOOLEAN
  /\ newly \in Seq(Coros)
  /\ waiters \in Seq(Coros)
  /\ oldValue \in [Coros -> Coros \cup {Unlocked, Null}]
  /\ pc \in [Coros -> PcValues]

Init ==
  /\ ReactorInit
  /\ locked = FALSE
  /\ newly = <<>>
  /\ waiters = <<>>
  /\ oldValue = [c \in Coros |-> Null]
  /\ pc = [c \in Coros |-> "start"]

\* Coroutine c executes on core k and moves from pc a to pc b.
Step(k, c, a, b) ==
  /\ Executes(k, c)
  /\ pc[c] = a
  /\ pc' = [pc EXCEPT ![c] = b]

-----------------------------------------------------------------------------
(***************************************************************************)
(* co_await coLock()                                                       *)
(***************************************************************************)

\* A read section before the lock.  No writer runs here, so the sequencer
\* keeps its initial 0 and the section is one step.
ReadSection(k, c) ==
  /\ Step(k, c, "start", "lock")
  /\ rcu_read_lock(k, 0)
  /\ UNCHANGED <<submitted, inbox, stackVars, suspending, mutexVars, oldValue>>

NoReadSection(k, c) ==
  /\ Step(k, c, "start", "lock")
  /\ UNCHANGED <<reactorVars, mutexVars, oldValue>>

\* await_ready(): tryLock() is a compare-exchange of `this' to nullptr.
tryLock(k, c) ==
  /\ Step(k, c, "lock", IF locked THEN "load" ELSE "cs")
  /\ locked' = TRUE
  /\ UNCHANGED <<reactorVars, newly, waiters, oldValue>>

\* await_suspend(): lockAsyncImpl loads _state.
LoadState(k, c) ==
  /\ Step(k, c, "load", "cas")
  /\ oldValue' = [oldValue EXCEPT ![c] = StateWord]
  /\ UNCHANGED <<reactorVars, mutexVars>>

\* Mutant: a plain store instead of the compare-exchange.
CasAcquire_Store(k, c) ==
  /\ Step(k, c, "cas", "cs")
  /\ oldValue[c] = Unlocked
  /\ locked' = TRUE
  /\ UNCHANGED <<reactorVars, newly, waiters, oldValue>>

\* The mutex looked unlocked and still is: take it and do not suspend.
CasAcquire(k, c) ==
  /\ Step(k, c, "cas", "cs")
  /\ oldValue[c] = Unlocked
  /\ StateWord = oldValue[c]
  /\ locked' = TRUE
  /\ UNCHANGED <<reactorVars, newly, waiters, oldValue>>

\* The mutex looked locked and the word is the same: the awaiter, whose _next
\* is oldValue, becomes the head of the list.  From here on another core may
\* resume c, while this one still has to leave await_suspend.
CasEnqueue(k, c) ==
  /\ Step(k, c, "cas", "queued")
  /\ oldValue[c] # Unlocked
  /\ StateWord = oldValue[c]
  /\ newly' = <<c>> \o newly
  /\ Return(k, c)
  /\ suspending' = [suspending EXCEPT ![k] = TRUE]
  /\ UNCHANGED <<submitted, inbox, rcuVars, locked, waiters, oldValue>>

\* The compare-exchange failed and reloaded oldValue.
CasRetry(k, c) ==
  /\ Step(k, c, "cas", "cas")
  /\ StateWord # oldValue[c]
  /\ oldValue' = [oldValue EXCEPT ![c] = StateWord]
  /\ UNCHANGED <<reactorVars, mutexVars>>

\* The lock holder yields once inside its critical section.
YieldInside(k, c) ==
  /\ Step(k, c, "cs", "unlock")
  /\ Yield(k, c)
  /\ UNCHANGED <<mutexVars, oldValue>>

NoYieldInside(k, c) ==
  /\ Step(k, c, "cs", "unlock")
  /\ UNCHANGED <<reactorVars, mutexVars, oldValue>>

-----------------------------------------------------------------------------
(***************************************************************************)
(* unlock()                                                                *)
(***************************************************************************)

\* The end of unlock(): dequeue the first of the FIFO list q, which is not
\* empty, and resume it inline.  It owns the lock from now on.
ResumeNext(k, c, q) ==
  /\ waiters' = Tail(q)
  /\ pc' = [pc EXCEPT ![c] = "after", ![Head(q)] = "cs"]
  /\ Resume(k, Head(q))
  /\ UNCHANGED <<submitted, inbox, suspending, rcuVars, oldValue>>

\* Mutant: newly queued waiters overtake the ones in _waiters.
UnlockToWaiter_NewestFirst(k, c) ==
  /\ Executes(k, c)
  /\ pc[c] = "unlock"
  /\ waiters # <<>>
  /\ ResumeNext(k, c, Reverse(newly) \o waiters)
  /\ newly' = <<>>
  /\ UNCHANGED locked

\* _waiters is not empty: hand the lock to its head.
UnlockToWaiter(k, c) ==
  /\ Executes(k, c)
  /\ pc[c] = "unlock"
  /\ waiters # <<>>
  /\ ResumeNext(k, c, waiters)
  /\ UNCHANGED <<locked, newly>>

\* Mutant: exchanges without looking whether anybody is queued.
UnlockLoad_NoCheck(k, c) ==
  /\ waiters = <<>>
  /\ Step(k, c, "unlock", "uxchg")
  /\ UNCHANGED <<reactorVars, mutexVars, oldValue>>

\* _waiters is empty: load _state and decide whether to try the release.
UnlockLoad(k, c) ==
  /\ waiters = <<>>
  /\ Step(k, c, "unlock", IF StateWord = Null THEN "ucas" ELSE "uxchg")
  /\ UNCHANGED <<reactorVars, mutexVars, oldValue>>

\* Mutant: a plain store of `this' instead of the compare-exchange.
UnlockCas_Store(k, c) ==
  /\ Step(k, c, "ucas", "after")
  /\ locked' = FALSE
  /\ UNCHANGED <<reactorVars, newly, waiters, oldValue>>

\* The compare-exchange of nullptr to `this' decides the race with a coroutine
\* that queues itself.
UnlockCas(k, c) ==
  /\ Step(k, c, "ucas", IF StateWord = Null THEN "after" ELSE "uxchg")
  /\ locked' = (StateWord # Null)
  /\ UNCHANGED <<reactorVars, newly, waiters, oldValue>>

\* Mutant: the list is not reversed.
UnlockExchange_Lifo(k, c) ==
  /\ Executes(k, c)
  /\ pc[c] = "uxchg"
  /\ newly' = <<>>
  /\ ResumeNext(k, c, newly)
  /\ UNCHANGED locked

\* Take the newly queued waiters, reverse them to FIFO order and resume the
\* first.
UnlockExchange(k, c) ==
  /\ Executes(k, c)
  /\ pc[c] = "uxchg"
  /\ newly' = <<>>
  /\ ResumeNext(k, c, Reverse(newly))
  /\ UNCHANGED locked

\* Another round, or the end of the task.
NextRound(k, c) ==
  /\ Step(k, c, "after", "start")
  /\ UNCHANGED <<reactorVars, mutexVars, oldValue>>

TaskReturn(k, c) ==
  /\ Step(k, c, "after", "done")
  /\ Finish(k, c)
  /\ UNCHANGED <<mutexVars, oldValue>>

-----------------------------------------------------------------------------
CoroStep(k, c) ==
  \/ ReadSection(k, c)
  \/ NoReadSection(k, c)
  \/ tryLock(k, c)
  \/ LoadState(k, c)
  \/ CasAcquire(k, c)
  \/ CasEnqueue(k, c)
  \/ CasRetry(k, c)
  \/ YieldInside(k, c)
  \/ NoYieldInside(k, c)
  \/ UnlockToWaiter(k, c)
  \/ UnlockLoad(k, c)
  \/ UnlockCas(k, c)
  \/ UnlockExchange(k, c)
  \/ NextRound(k, c)
  \/ TaskReturn(k, c)

SubmitTask == Submit /\ UNCHANGED <<mutexVars, oldValue, pc>>

Reactors(k) ==
  /\ Dispatch(k) \/ SuspendTail(k)
  /\ UNCHANGED <<mutexVars, oldValue, pc>>

CoreStep(k) == Reactors(k) \/ \E c \in Coros : CoroStep(k, c)

AllDone == \A c \in Coros : pc[c] = "done"

\* Every task has finished: the application stops (module Scheduler).
Stopped == AllDone /\ UNCHANGED vars

Next == SubmitTask \/ (\E k \in Cores : CoreStep(k)) \/ Stopped

\* A reactor polls for ever, so a core that can take a step takes one.
Fairness == WF_vars(SubmitTask) /\ \A k \in Cores : WF_vars(CoreStep(k))

Spec == Init /\ [][Next]_vars
FairSpec == Spec /\ Fairness

-----------------------------------------------------------------------------
\* c owns the mutex: coLock() returned and unlock() has not let go of it.
Holds(c) == pc[c] \in {"cs", "unlock", "ucas", "uxchg"}

\* The waiters in the order in which unlock() serves them.
Queue == waiters \o Reverse(newly)

\* Mutual exclusion: two coroutines never hold the mutex at once, whatever
\* the order of compare-exchanges in lockAsyncImpl and unlock, and a holder
\* always sees the word locked.
MutualExclusion ==
  /\ \A c, d \in Coros : Holds(c) /\ Holds(d) => c = d
  /\ \A c \in Coros : Holds(c) => locked

\* No lost and no duplicated waiter: the coroutines suspended in coLock() are
\* exactly those in the two lists, each of them once, and while there is one
\* the lock has a holder who will find it.
WaitersAccounted ==
  /\ IsInjective(Queue)
  /\ Range(Queue) = {c \in Coros : pc[c] = "queued"}
  /\ Queue # <<>> => \E c \in Coros : Holds(c)

\* The inductive invariant behind the properties: the word is locked exactly
\* while there is a holder; a holder that looks at the word has found its
\* private list empty; one about to exchange will find a waiter.
LockInv ==
  /\ MutualExclusion
  /\ locked => \E c \in Coros : Holds(c)
  /\ WaitersAccounted
  /\ \A c \in Coros : pc[c] \in {"ucas", "uxchg"} => waiters = <<>>
  /\ \A c \in Coros : pc[c] = "uxchg" => newly # <<>>

\* The assertions of unlock() (lines 105, 124, 125 and 134): the mutex is
\* locked on entry, and the exchange always finds a waiter to resume.
UnlockAssertions ==
  \A c \in Coros :
    /\ pc[c] \in {"unlock", "ucas"} => StateWord # Unlocked
    /\ pc[c] = "uxchg" => StateWord \notin {Unlocked, Null}

\* A coroutine is active at most once: it is on one stack, at one depth, and
\* while it is there it is neither in an inbox nor queued nor finished.  So
\* nothing ever resumes a coroutine that is running, even though unlock()
\* resumes it on another core than the one that suspends it.
ActiveOnce ==
  \A c \in Coros :
    /\ \A j, k \in Cores : running[j] = c /\ running[k] = c => j = k
    /\ \A d, e \in Coros : resumer[d] = c /\ resumer[e] = c => d = e
    /\ \A k \in Cores, d \in Coros : ~(running[k] = c /\ resumer[d] = c)
    /\ OnStack(c) => /\ pc[c] \notin {"queued", "done"}
                     /\ \A k \in Cores : c \notin Range(inbox[k])

\* A reactor that has nothing to run is outside RCU, so no writer waits for
\* it: every way to give up the core calls rcu_offline().
IdleCoreOffline == \A k \in Cores : Idle(k) => versions[k] = DONE

\* Every coroutine that lockAsyncImpl queued is resumed by some unlock() and
\* then holds the lock.
WaiterServed == \A c \in Coros : pc[c] = "queued" ~> pc[c] = "cs"

-----------------------------------------------------------------------------
\* The holder as a value.
Holders == {c \in Coros : Holds(c)}
Owner == IF Holders = {} THEN None ELSE CHOOSE c \in Holders : TRUE

Fifo == INSTANCE FifoLock
          WITH Procs <- Coros, Nobody <- None, owner <- Owner, queue <- Queue

\* The mutex implements the abstract FIFO lock: the exchange and reversal in
\* unlock() keep the order in which lockAsyncImpl queued the coroutines, and
\* the lock is never free between two owners.
ImplementsFifoLock == Fifo!Spec

=============================================================================
