---------------------------- MODULE SharedMutex ----------------------------
(***************************************************************************)
(* async_simple::coro::SharedMutex (include/sharedmutex.hpp): a            *)
(* readers-writer lock built from a SpinLock mut_ (include/spinlock.hpp)   *)
(* and two ConditionVariables gate1_ and gate2_                            *)
(* (include/conditionvariable.hpp) that are only touched under mut_.       *)
(*                                                                         *)
(* What the holder of mut_ does to state_ and to the gates goes with its   *)
(* next release of mut_ or its next inline resumption.  A notification     *)
(* resumes the waiters on the notifier's stack, one after the other, while *)
(* it still holds mut_: each one finds mut_ taken and yields on the        *)
(* notifier's core, to which it has thereby migrated.                      *)
(*                                                                         *)
(* The coroutines are the reader and writer tasks of                       *)
(* benchmarks/colocking.cpp, which may also use the try operations and may *)
(* yield while they own the lock.                                          *)
(***************************************************************************)
EXTENDS Reactor, FiniteSets

CONSTANTS
  Writers,             \* tasks that lock exclusively; the others are readers
  write_entered_flag   \* the high bit of state_: 2^31 in the code

max_readers == write_entered_flag - 1

ASSUME SharedMutexAssumption ==
  /\ Writers \subseteq Coros
  /\ write_entered_flag \in Nat \ {0, 1}

VARIABLES
  state_,     \* the write-entered flag and the reader count
  locked,     \* _locked of mut_
  gate1,      \* _awaiters of gate1_, newest first
  gate2,      \* _awaiters of gate2_
  awaiters,   \* what resumeWaiters() has still to resume; only the holder of
              \*   mut_ calls it
  ongoing,    \* colocking's flag: tasks go on with another round
  pc          \* pc[c]: where coroutine c is

lockVars == <<state_, gate1, gate2, awaiters>>
vars == <<reactorVars, lockVars, locked, ongoing, pc>>

write_entered == state_ >= write_entered_flag
readers == IF write_entered THEN state_ - write_entered_flag ELSE state_

\* Acquiring mut_ leads from a pc outside it to one inside.
AfterLock ==
  [wlock |-> "went",      \* coLock()
   wwoken |-> "went",     \*   resumed from gate1_
   wagain |-> "wdrain",   \*   resumed from gate2_
   wunlock |-> "wclear",  \* unlock()
   rlock |-> "rent",      \* coLockShared()
   rwoken |-> "rent",     \*   resumed from gate1_
   runlock |-> "rdec"]    \* unlockShared()

\* A notification leads from waiting at a gate to acquiring mut_ again.
AfterNotify ==
  [wgate1 |-> "wwoken", wgate2 |-> "wagain", rgate1 |-> "rwoken"]

\* Inside mut_: in coLock() before and after setting the flag, in unlock(), in
\* coLockShared() and unlockShared(), in a try operation, in resumeWaiters().
InsidePcs ==
  {"went", "wdrain", "wclear", "rent", "rdec", "wtry", "rtry", "notify"}

PcValues ==
  {"start", "write", "read", "after", "done"}
    \cup DOMAIN AfterLock \cup DOMAIN AfterNotify \cup InsidePcs

\* Every variable has its type; state_ fits its word.
TypeOK ==
  /\ ReactorTypeOK
  /\ state_ \in 0 .. (2 * write_entered_flag - 1)
  /\ locked \in BOOLEAN
  /\ gate1 \in Seq(Coros)
  /\ gate2 \in Seq(Coros)
  /\ awaiters \in Seq(Coros)
  /\ ongoing \in BOOLEAN
  /\ pc \in [Coros -> PcValues]

Init ==
  /\ ReactorInit
  /\ state_ = 0
  /\ locked = FALSE
  /\ gate1 = <<>>
  /\ gate2 = <<>>
  /\ awaiters = <<>>
  /\ ongoing = TRUE
  /\ pc = [c \in Coros |-> "start"]

\* Coroutine c executes on core k and moves from pc a to pc b.
Step(k, c, a, b) ==
  /\ Executes(k, c)
  /\ pc[c] = a
  /\ pc' = [pc EXCEPT ![c] = b]

-----------------------------------------------------------------------------
(***************************************************************************)
(* SpinLock and ConditionVariable                                          *)
(***************************************************************************)

\* co_await mut_.coLock(): the exchange succeeds, or mut_ stays taken for
\* _spinCount polls and the coroutine yields.
SpinAcquire(k, c) ==
  /\ Executes(k, c)
  /\ pc[c] \in DOMAIN AfterLock
  /\ ~locked
  /\ pc' = [pc EXCEPT ![c] = AfterLock[pc[c]]]
  /\ locked' = TRUE
  /\ UNCHANGED <<reactorVars, lockVars, ongoing>>

SpinYield(k, c) ==
  /\ Executes(k, c)
  /\ pc[c] \in DOMAIN AfterLock
  /\ locked
  /\ Yield(k, c)
  /\ UNCHANGED <<lockVars, locked, ongoing, pc>>

\* ConditionVariableAwaiter::await_suspend() apart from the push: go offline,
\* release the adopted mut_ and leave the core.
Suspend(k, c, a, b) ==
  /\ Step(k, c, a, b)
  /\ rcu_offline(k)
  /\ locked' = FALSE
  /\ Return(k, c)
  /\ UNCHANGED <<submitted, inbox, suspending, state_, awaiters, ongoing>>

\* What notifyOne() unlinks from a gate, and what it leaves.
First(gate) == IF gate = <<>> THEN <<>> ELSE <<Head(gate)>>
Rest(gate) == IF gate = <<>> THEN <<>> ELSE Tail(gate)

\* resumeWaiters() resumes its next awaiter inline.
ResumeWaiter(k, c) ==
  /\ Executes(k, c)
  /\ pc[c] = "notify"
  /\ awaiters # <<>>
  /\ Resume(k, Head(awaiters))
  /\ pc' = [pc EXCEPT ![Head(awaiters)] = AfterNotify[@]]
  /\ awaiters' = Tail(awaiters)
  /\ UNCHANGED <<submitted, inbox, suspending, rcuVars, state_, gate1, gate2,
                 locked, ongoing>>

\* resumeWaiters() is through; mut_.unlock().
NotifyEnd(k, c) ==
  /\ Step(k, c, "notify", "after")
  /\ awaiters = <<>>
  /\ locked' = FALSE
  /\ UNCHANGED <<reactorVars, lockVars, ongoing>>

-----------------------------------------------------------------------------
(***************************************************************************)
(* Exclusive ownership                                                     *)
(***************************************************************************)

\* A writer calls coLock(), or tryLock(), which gives up if mut_ is taken.
CallLock(k, c) ==
  /\ c \in Writers
  /\ Step(k, c, "start", "wlock")
  /\ UNCHANGED <<reactorVars, lockVars, locked, ongoing>>

CallTryLock(k, c) ==
  /\ c \in Writers
  /\ Step(k, c, "start", IF locked THEN "after" ELSE "wtry")
  /\ locked' = TRUE
  /\ UNCHANGED <<reactorVars, lockVars, ongoing>>

\* coLock(): another writer has entered.
WaitGate1(k, c) ==
  /\ write_entered
  /\ Suspend(k, c, "went", "wgate1")
  /\ gate1' = <<c>> \o gate1
  /\ UNCHANGED gate2

\* Mutant: the flag is not tested.
SetEntered_NoTest(k, c) ==
  /\ Step(k, c, "went", "wdrain")
  /\ state_' = IF write_entered THEN state_ ELSE state_ + write_entered_flag
  /\ UNCHANGED <<reactorVars, gate1, gate2, awaiters, locked, ongoing>>

\* coLock(): set the write-entered flag.
SetEntered(k, c) ==
  /\ ~write_entered
  /\ Step(k, c, "went", "wdrain")
  /\ state_' = state_ + write_entered_flag
  /\ UNCHANGED <<reactorVars, gate1, gate2, awaiters, locked, ongoing>>

\* coLock(): there are still readers.
WaitGate2(k, c) ==
  /\ readers # 0
  /\ Suspend(k, c, "wdrain", "wgate2")
  /\ gate2' = <<c>> \o gate2
  /\ UNCHANGED gate1

\* Mutant: coLock() does not wait for the readers.
Own_TooEarly(k, c) ==
  /\ Step(k, c, "wdrain", "write")
  /\ locked' = FALSE
  /\ UNCHANGED <<reactorVars, lockVars, ongoing>>

\* coLock(): the readers are gone.
Own(k, c) ==
  /\ readers = 0
  /\ Step(k, c, "wdrain", "write")
  /\ locked' = FALSE
  /\ UNCHANGED <<reactorVars, lockVars, ongoing>>

\* tryLock() inside mut_.
TryOwn(k, c) ==
  /\ Step(k, c, "wtry", IF state_ = 0 THEN "write" ELSE "after")
  /\ state_' = IF state_ = 0 THEN write_entered_flag ELSE state_
  /\ locked' = FALSE
  /\ UNCHANGED <<reactorVars, gate1, gate2, awaiters, ongoing>>

\* Mutant: notifies one waiter of gate1_ only.
Unlock_NotifyOne(k, c) ==
  /\ Step(k, c, "wclear", "notify")
  /\ state_' = 0
  /\ awaiters' = First(gate1)
  /\ gate1' = Rest(gate1)
  /\ UNCHANGED <<reactorVars, gate2, locked, ongoing>>

\* unlock() inside mut_: clear the word, gate1_.notifyAll().
Unlock(k, c) ==
  /\ Step(k, c, "wclear", "notify")
  /\ state_' = 0
  /\ awaiters' = gate1
  /\ gate1' = <<>>
  /\ UNCHANGED <<reactorVars, gate2, locked, ongoing>>

-----------------------------------------------------------------------------
(***************************************************************************)
(* Shared ownership                                                        *)
(***************************************************************************)

\* A reader calls coLockShared() or tryLockShared().
CallLockShared(k, c) ==
  /\ c \notin Writers
  /\ Step(k, c, "start", "rlock")
  /\ UNCHANGED <<reactorVars, lockVars, locked, ongoing>>

CallTryLockShared(k, c) ==
  /\ c \notin Writers
  /\ Step(k, c, "start", IF locked THEN "after" ELSE "rtry")
  /\ locked' = TRUE
  /\ UNCHANGED <<reactorVars, lockVars, ongoing>>

\* coLockShared(): a writer has entered, or the count is at its maximum.
WaitShared(k, c) ==
  /\ state_ >= max_readers
  /\ Suspend(k, c, "rent", "rgate1")
  /\ gate1' = <<c>> \o gate1
  /\ UNCHANGED gate2

\* coLockShared(): count the reader.
OwnShared(k, c) ==
  /\ state_ < max_readers
  /\ Step(k, c, "rent", "read")
  /\ state_' = state_ + 1
  /\ locked' = FALSE
  /\ UNCHANGED <<reactorVars, gate1, gate2, awaiters, ongoing>>

\* tryLockShared() inside mut_.
TryOwnShared(k, c) ==
  /\ Step(k, c, "rtry", IF state_ < max_readers THEN "read" ELSE "after")
  /\ state_' = IF state_ < max_readers THEN state_ + 1 ELSE state_
  /\ locked' = FALSE
  /\ UNCHANGED <<reactorVars, gate1, gate2, awaiters, ongoing>>

\* Mutant: tests the reader count before it is decremented.
UnlockShared_OldCount(k, c) ==
  /\ Step(k, c, "rdec", "notify")
  /\ state_' = state_ - 1
  /\ awaiters' = IF write_entered /\ readers = 0 THEN First(gate2) ELSE <<>>
  /\ gate2' = IF write_entered /\ readers = 0 THEN Rest(gate2) ELSE gate2
  /\ UNCHANGED <<reactorVars, gate1, locked, ongoing>>

\* unlockShared() inside mut_: the last reader wakes the writer that entered;
\* a reader that leaves from the maximum wakes one that was blocked there.
UnlockShared(k, c) ==
  LET last == write_entered /\ readers = 1
      overflow == ~write_entered /\ state_ = max_readers
  IN  /\ Step(k, c, "rdec", "notify")
      /\ state_' = state_ - 1
      /\ awaiters' = IF last THEN First(gate2)
                     ELSE IF overflow THEN First(gate1) ELSE <<>>
      /\ gate2' = IF last THEN Rest(gate2) ELSE gate2
      /\ gate1' = IF overflow THEN Rest(gate1) ELSE gate1
      /\ UNCHANGED <<reactorVars, locked, ongoing>>

-----------------------------------------------------------------------------
(***************************************************************************)
(* The tasks                                                               *)
(***************************************************************************)

AfterUse == [write |-> "wunlock", read |-> "runlock"]

\* The owner yields once before it calls unlock() or unlockShared(), or not.
YieldInside(k, c) ==
  /\ Executes(k, c)
  /\ pc[c] \in DOMAIN AfterUse
  /\ pc' = [pc EXCEPT ![c] = AfterUse[pc[c]]]
  /\ Yield(k, c)
  /\ UNCHANGED <<lockVars, locked, ongoing>>

NoYieldInside(k, c) ==
  /\ Executes(k, c)
  /\ pc[c] \in DOMAIN AfterUse
  /\ pc' = [pc EXCEPT ![c] = AfterUse[pc[c]]]
  /\ UNCHANGED <<reactorVars, lockVars, locked, ongoing>>

\* Another round, or the end of the task once the test has ended.
NextRound(k, c) ==
  /\ ongoing
  /\ Step(k, c, "after", "start")
  /\ UNCHANGED <<reactorVars, lockVars, locked, ongoing>>

TaskReturn(k, c) ==
  /\ ~ongoing
  /\ Step(k, c, "after", "done")
  /\ Finish(k, c)
  /\ UNCHANGED <<lockVars, locked, ongoing>>

\* The main thread ends the test.
end_test ==
  /\ ongoing
  /\ ongoing' = FALSE
  /\ UNCHANGED <<reactorVars, lockVars, locked, pc>>

CoroStep(k, c) ==
  \/ SpinAcquire(k, c)
  \/ SpinYield(k, c)
  \/ ResumeWaiter(k, c)
  \/ NotifyEnd(k, c)
  \/ CallLock(k, c)
  \/ CallTryLock(k, c)
  \/ WaitGate1(k, c)
  \/ SetEntered(k, c)
  \/ WaitGate2(k, c)
  \/ Own(k, c)
  \/ TryOwn(k, c)
  \/ Unlock(k, c)
  \/ CallLockShared(k, c)
  \/ CallTryLockShared(k, c)
  \/ WaitShared(k, c)
  \/ OwnShared(k, c)
  \/ TryOwnShared(k, c)
  \/ UnlockShared(k, c)
  \/ YieldInside(k, c)
  \/ NoYieldInside(k, c)
  \/ NextRound(k, c)
  \/ TaskReturn(k, c)

SubmitTask == Submit /\ UNCHANGED <<lockVars, locked, ongoing, pc>>

Reactors(k) == Dispatch(k) /\ UNCHANGED <<lockVars, locked, ongoing, pc>>

CoreStep(k) == Reactors(k) \/ \E c \in Coros : CoroStep(k, c)

AllDone == \A c \in Coros : pc[c] = "done"

\* Every task has finished: the application stops (module Scheduler).
Stopped == AllDone /\ ~ongoing /\ UNCHANGED vars

Next == SubmitTask \/ end_test \/ (\E k \in Cores : CoreStep(k)) \/ Stopped

\* Reactors poll for ever, and the main thread's sleep ends.
Fairness ==
  WF_vars(SubmitTask) /\ WF_vars(end_test) /\ \A k \in Cores : WF_vars(CoreStep(k))

Spec == Init /\ [][Next]_vars
FairSpec == Spec /\ Fairness

-----------------------------------------------------------------------------
At(pcs) == {c \in Coros : pc[c] \in pcs}

Inside == At(InsidePcs)

\* Coroutines counted by state_: owners of a shared lock, and the writer that
\* has entered.
Sharing == At({"read", "runlock", "rdec"})
Entered == At({"wdrain", "wgate2", "wagain", "write", "wunlock", "wclear"})

\* The coroutines at the gates and in the hands of resumeWaiters().
Blocked == gate1 \o gate2 \o awaiters

\* state_ is exact: the flag is set while one writer has entered, and the rest
\* counts the shared owners, so the assertions at lines 77, 115 and 152 hold
\* and no update of the word is lost.  Nobody is lost at a gate: the waiting
\* coroutines are exactly those in the lists, once each.
StateAccounted ==
  /\ TypeOK
  /\ Cardinality(Entered) <= 1
  /\ write_entered <=> Entered # {}
  /\ readers = Cardinality(Sharing)
  /\ IsInjective(Blocked) /\ Range(Blocked) = At(DOMAIN AfterNotify)

\* No lost wake-up: whenever mut_ is free, a coroutine waits at gate1_ only
\* behind a writer that has entered, a full reader count, or one that has been
\* woken and will look again; at gate2_ only while there are readers.
WakeUpOwed ==
  Inside = {} =>
    /\ gate1 # <<>> => state_ >= max_readers \/ At({"rwoken"}) # {}
    /\ gate2 # <<>> => readers # 0

\* Every task ends after the test has ended, whatever waited for whom: no
\* wake-up is missing, and nobody spins on the core of the holder of mut_.
Terminates == <>AllDone

Rw == INSTANCE RwLock
        WITH Procs <- Coros,
             Nobody <- None,
             readers <- Sharing,
             entered <- IF Entered = {} THEN None
                        ELSE CHOOSE c \in Entered : TRUE,
             owned <- At({"write", "wunlock", "wclear"}) # {}

\* The lock implements the abstract readers-writer lock: owners exclude each
\* other as they should, and once a writer has entered nobody overtakes it
\* (the comment at lines 48-51).
ImplementsRwLock == Rw!Spec

=============================================================================
