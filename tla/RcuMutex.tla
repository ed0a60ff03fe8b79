------------------------------ MODULE RcuMutex ------------------------------
(***************************************************************************)
(* RCU together with the Mutex and the I/O service: the writers of         *)
(* test/rcu_schedule.cpp and test/rcu_pressure_2.cpp hold a Mutex across   *)
(* synchronize_rcu(), mutex_reader locks the same Mutex between its read   *)
(* sections, and readers may await an I/O between theirs.                  *)
(*                                                                         *)
(* Readers, writers and grace periods are those of module Rcu; its SpinLock*)
(* word `locked' is the Mutex here.  The Mutex is the FIFO lock of module  *)
(* FifoLock, which module Mutex is proved to implement, with what the      *)
(* reactors see of it: unlock() resumes the next owner on its own core, so *)
(* writers and mutex_readers change cores, and await_suspend goes offline  *)
(* after the coroutine is visible to others.  service_awaiter suspends     *)
(* without going offline.                                                  *)
(***************************************************************************)
EXTENDS Rcu

CONSTANTS
  Lockers,   \* readers that run mutex_reader()
  IoReaders  \* readers that await an I/O after each section

ASSUME RcuMutexAssumption ==
  Lockers \cup IoReaders \subseteq Coros \ (Writers \cup Syncers)

VARIABLES
  queue,  \* coroutines suspended in coLock(), longest waiting first
  ios     \* <<k, c>>: an I/O that c submitted on core k's channel

mutexVars == <<queue, ios>>
mvars == <<vars, mutexVars>>

MPcValues ==
  PcValues \cup
  {"rlock",    \* a Locker in coLock()
   "io",       \* about to co_await an I/O
   "iowait"}   \* suspended until the I/O completes

MInit == Init /\ queue = <<>> /\ ios = {}

-----------------------------------------------------------------------------
\* The section ends and a Locker goes on to coLock(), an IoReader to an I/O.
SectionEnd(k, c) ==
  /\ \/ c \in Lockers /\ Step(k, c, "use", "rlock")
     \/ c \in IoReaders /\ Step(k, c, "use", "io")
  /\ UNCHANGED <<reactorVars, sequencer, heapVars, localVars, mutexVars>>

\* Where the owner of the mutex goes on: a writer swaps gp, a Locker unlocks.
AfterLock(c) == IF c \in Writers THEN "swap" ELSE "unlock"

\* co_await coLock() with the mutex free.
coLock(k, c) ==
  /\ pc[c] \in {"lock", "rlock"}
  /\ Step(k, c, pc[c], AfterLock(c))
  /\ ~locked
  /\ locked' = TRUE
  /\ UNCHANGED <<reactorVars, sequencer, gp, allocated, localVars, mutexVars>>

\* co_await coLock() with the mutex taken: from here on another core may
\* resume c; SuspendTail is still to come on this one.
coLockQueue(k, c) ==
  /\ pc[c] \in {"lock", "rlock"}
  /\ Executes(k, c)
  /\ locked
  /\ queue' = Append(queue, c)
  /\ Return(k, c)
  /\ suspending' = [suspending EXCEPT ![k] = TRUE]
  /\ UNCHANGED <<submitted, inbox, rcuVars, sequencer, heapVars, localVars, pc,
                 ios>>

\* Mutant: the mutex is free and the next owner is resumed as well.
unlock_Frees(k, c) ==
  /\ Executes(k, c)
  /\ pc[c] = "unlock"
  /\ queue # <<>>
  /\ round' = [round EXCEPT ![c] = @ + 1]
  /\ locked' = FALSE
  /\ queue' = Tail(queue)
  /\ Resume(k, Head(queue))
  /\ pc' = [pc EXCEPT ![c] = "loop", ![Head(queue)] = AfterLock(Head(queue))]
  /\ UNCHANGED <<submitted, inbox, suspending, rcuVars, sequencer, gp, allocated,
                 p, q, global_version, writer_version, current_core, i, ios>>

\* unlock(): hand the mutex to the longest waiting coroutine and resume it
\* here, on top of c.
unlock(k, c) ==
  /\ Executes(k, c)
  /\ pc[c] = "unlock"
  /\ queue # <<>>
  /\ round' = [round EXCEPT ![c] = @ + 1]
  /\ queue' = Tail(queue)
  /\ Resume(k, Head(queue))
  /\ pc' = [pc EXCEPT ![c] = "loop", ![Head(queue)] = AfterLock(Head(queue))]
  /\ UNCHANGED <<submitted, inbox, suspending, rcuVars, sequencer, heapVars,
                 p, q, global_version, writer_version, current_core, i, ios>>

\* unlock() with nobody waiting.
unlockFree(k, c) == queue = <<>> /\ SpinUnlock(k, c) /\ UNCHANGED mutexVars

\* service_awaiter::await_suspend(): leave the core without rcu_offline().
AwaitIo(k, c) ==
  /\ Step(k, c, "io", "iowait")
  /\ Return(k, c)
  /\ ios' = ios \cup {<<k, c>>}
  /\ UNCHANGED <<submitted, inbox, suspending, rcuVars, sequencer, heapVars,
                 localVars, queue>>

\* The completion callback resumes the coroutine on the core of its channel.
CompleteIo(k, c) ==
  /\ Idle(k)
  /\ <<k, c>> \in ios
  /\ ios' = ios \ {<<k, c>>}
  /\ Resume(k, c)
  /\ pc' = [pc EXCEPT ![c] = "loop"]
  /\ round' = [round EXCEPT ![c] = @ + 1]
  /\ UNCHANGED <<submitted, inbox, suspending, rcuVars, sequencer, heapVars,
                 p, q, global_version, writer_version, current_core, i, queue>>

-----------------------------------------------------------------------------
\* What module Rcu's tasks do apart from their lock.
TaskStep(k, c) ==
  /\ \/ ReadLock(k, c) \/ LoadSequencer(k, c) \/ PublishVersion(k, c)
     \/ Dereference(k, c)
     \/ c \notin Lockers \cup IoReaders /\ ReadUnlock(k, c)
     \/ New(k, c) \/ LoadOld(k, c) \/ AssignPointer(k, c)
     \/ FetchAdd(k, c) \/ ScanPass(k, c) \/ ScanWait(k, c) \/ ScanEnd(k, c)
     \/ Delete(k, c) \/ TaskReturn(k, c)
  /\ UNCHANGED mutexVars

MCoroStep(k, c) ==
  \/ TaskStep(k, c)
  \/ SectionEnd(k, c)
  \/ coLock(k, c)
  \/ coLockQueue(k, c)
  \/ unlock(k, c)
  \/ unlockFree(k, c)
  \/ AwaitIo(k, c)

MReactors(k) ==
  /\ Dispatch(k) \/ SuspendTail(k)
  /\ UNCHANGED <<sequencer, heapVars, localVars, pc, mutexVars>>

MCoreStep(k) == MReactors(k) \/ \E c \in Coros : MCoroStep(k, c)

MNext ==
  \/ SubmitTask /\ UNCHANGED mutexVars
  \/ \E k \in Cores : MCoreStep(k)
  \/ \E k \in Cores, c \in IoReaders : CompleteIo(k, c)
  \/ Stopped /\ UNCHANGED mutexVars

\* Reactors poll for ever, and between two messages they look for completions,
\* which the device delivers.
MFairness ==
  /\ WF_mvars(SubmitTask /\ UNCHANGED mutexVars)
  /\ \A k \in Cores : WF_mvars(MCoreStep(k))
  /\ \A k \in Cores, c \in IoReaders : SF_mvars(CompleteIo(k, c))

MSpec == MInit /\ [][MNext]_mvars /\ MFairness

-----------------------------------------------------------------------------
\* The types of module Rcu with the additional pcs; only coroutines in coLock()
\* are queued.
MTypeOK ==
  /\ ReactorTypeOK
  /\ pc \in [Coros -> MPcValues]
  /\ queue \in Seq(Coros)
  /\ ios \subseteq Cores \X IoReaders
  /\ \A n \in 1 .. Len(queue) : pc[queue[n]] \in {"lock", "rlock"}

\* A writer skips the core it runs on in synchronize_rcu() (rcu.cpp:46), and
\* inline resumption decides which core that is: below a coroutine on a stack
\* there is never a read section that the skipped core would have to protect,
\* and the core a writer waits on is still its own when it looks again.
SkippedCoreQuiet ==
  /\ MTypeOK
  /\ \A k \in Cores, c \in Coros :
       running[k] = c /\ pc[c] = "scan" =>
         /\ current_core[c] = k
         /\ \A d \in Coros : resumer[d] # None =>
              pc[resumer[d]] \notin {"rload", "rstore", "deref", "use"}

=============================================================================
