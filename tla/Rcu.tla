-------------------------------- MODULE Rcu --------------------------------
(***************************************************************************)
(* The quiescent-state RCU of src/rcu.cpp on the reactors of module        *)
(* Reactor.  A core publishes in versions[k] the value the global          *)
(* sequencer had when it last refreshed, once every Refresh read sections, *)
(* and DONE when it runs no reader (rcu_offline).  synchronize_rcu()       *)
(* advances the sequencer and waits, yielding, until every other core's    *)
(* version has caught up.                                                  *)
(*                                                                         *)
(* The tasks are those of test/rcu_pressure.cpp and test/rcu_schedule.cpp: *)
(* readers that run n_round read sections, writers that replace the object *)
(* gp points to under a SpinLock and delete the old one after a grace      *)
(* period, and readers that also call synchronize_rcu() without any lock.  *)
(* Objects come from a heap that reuses freed addresses.                   *)
(***************************************************************************)
EXTENDS Reactor

CONSTANTS
  Writers,  \* the tasks that run writer()
  Syncers,  \* the readers that call synchronize_rcu() after each section
  n_round,  \* rounds of each task (rcu_pressure.cpp:15)
  Objects,  \* addresses the heap hands out
  First     \* the object gp points to at the start

ASSUME RcuAssumption ==
  /\ Writers \subseteq Coros
  /\ Syncers \subseteq Coros \ Writers
  /\ n_round \in Nat
  /\ NumTasks * n_round < DONE
  /\ First \in Objects

VARIABLES
  sequencer,       \* rcu.cpp:11
  gp,              \* the RCU-protected pointer
  allocated,       \* objects between new and delete
  locked,          \* _locked of the writers' SpinLock
  round,           \* round[c]: loop counter of task c
  p,               \* p[c]: a reader's or a writer's local pointer
  q,               \* q[c]: the pointer a writer will delete
  global_version,  \* global_version[c]: local of rcu_read_lock
  writer_version,  \* writer_version[c]: local of synchronize_rcu
  current_core,    \* current_core[c]: local of synchronize_rcu
  i,               \* i[c]: loop index of synchronize_rcu
  pc               \* pc[c]: where coroutine c is

heapVars == <<gp, allocated, locked>>
localVars == <<round, p, q, global_version, writer_version, current_core, i>>
vars == <<reactorVars, sequencer, heapVars, localVars, pc>>

PcValues ==
  {"loop",     \* at the head of the task's loop
   "rload",    \* in rcu_read_lock, about to load the sequencer
   "rstore",   \* in rcu_read_lock, about to publish global_version
   "deref",    \* in the read section, about to load gp
   "use",      \* in the read section, reading *p
   "lock",     \* a writer in SpinLock::coLock
   "swap",     \* a writer with the lock, about to load gp into q
   "assign",   \* a writer about to store p into gp
   "sync",     \* about to call synchronize_rcu
   "scan",     \* in synchronize_rcu's loop over the cores
   "delete",   \* grace period over, about to delete q
   "unlock",   \* about to release the SpinLock
   "done"}

\* Every variable has its type; versions and counters of rcu.cpp stay in range.
TypeOK ==
  /\ ReactorTypeOK
  /\ sequencer \in Nat
  /\ gp \in Objects
  /\ allocated \subseteq Objects
  /\ locked \in BOOLEAN
  /\ round \in [Coros -> Nat]
  /\ p \in [Coros -> Objects]
  /\ q \in [Coros -> Objects]
  /\ global_version \in [Coros -> Nat]
  /\ writer_version \in [Coros -> Nat]
  /\ current_core \in [Coros -> Cores]
  /\ i \in [Coros -> 0 .. num_threads]
  /\ pc \in [Coros -> PcValues]

Init ==
  /\ ReactorInit
  /\ sequencer = 0
  /\ gp = First
  /\ allocated = {First}
  /\ locked = FALSE
  /\ round = [c \in Coros |-> 0]
  /\ p = [c \in Coros |-> First]
  /\ q = [c \in Coros |-> First]
  /\ global_version = [c \in Coros |-> 0]
  /\ writer_version = [c \in Coros |-> 0]
  /\ current_core = [c \in Coros |-> 0]
  /\ i = [c \in Coros |-> 0]
  /\ pc = [c \in Coros |-> "loop"]

\* Coroutine c executes on core k and moves from pc a to pc b.
Step(k, c, a, b) ==
  /\ Executes(k, c)
  /\ pc[c] = a
  /\ pc' = [pc EXCEPT ![c] = b]

-----------------------------------------------------------------------------
(***************************************************************************)
(* The read section.                                                       *)
(***************************************************************************)

\* rcu_read_lock(): count the section; one in Refresh publishes a version.
ReadLock(k, c) ==
  /\ c \notin Writers
  /\ round[c] < n_round
  /\ LET refresh == rcu_count[k] + 1 = Refresh
     IN  /\ Step(k, c, "loop", IF refresh THEN "rload" ELSE "deref")
         /\ rcu_count' =
              [rcu_count EXCEPT ![k] = IF refresh THEN 0 ELSE @ + 1]
  /\ UNCHANGED <<submitted, inbox, stackVars, suspending, versions,
                 sequencer, heapVars, localVars>>

LoadSequencer(k, c) ==
  /\ Step(k, c, "rload", "rstore")
  /\ global_version' = [global_version EXCEPT ![c] = sequencer]
  /\ UNCHANGED <<reactorVars, sequencer, heapVars, round, p, q,
                 writer_version, current_core, i>>

\* The store is skipped when it would change nothing.  The fence behind it
\* orders it before the load of gp.
PublishVersion(k, c) ==
  /\ Step(k, c, "rstore", "deref")
  /\ versions' = [versions EXCEPT ![k] = global_version[c]]
  /\ UNCHANGED <<submitted, inbox, stackVars, suspending, rcu_count,
                 sequencer, heapVars, localVars>>

\* rcu_dereference(gp).
Dereference(k, c) ==
  /\ Step(k, c, "deref", "use")
  /\ p' = [p EXCEPT ![c] = gp]
  /\ UNCHANGED <<reactorVars, sequencer, heapVars, round, q, global_version,
                 writer_version, current_core, i>>

\* The section ends; rcu_read_unlock() does nothing.  A Syncer goes on to
\* synchronize_rcu().
ReadUnlock(k, c) ==
  /\ Step(k, c, "use", IF c \in Syncers THEN "sync" ELSE "loop")
  /\ round' = [round EXCEPT ![c] = IF c \in Syncers THEN @ ELSE @ + 1]
  /\ UNCHANGED <<reactorVars, sequencer, heapVars, p, q, global_version,
                 writer_version, current_core, i>>

-----------------------------------------------------------------------------
(***************************************************************************)
(* The writer.                                                             *)
(***************************************************************************)

\* p = new Foo(): any address that is not in use.
New(k, c) ==
  /\ c \in Writers
  /\ round[c] < n_round
  /\ Step(k, c, "loop", "lock")
  /\ \E o \in Objects \ allocated :
       /\ allocated' = allocated \cup {o}
       /\ p' = [p EXCEPT ![c] = o]
  /\ UNCHANGED <<reactorVars, sequencer, gp, locked, round, q,
                 global_version, writer_version, current_core, i>>

\* SpinLock::coLock(): the exchange succeeds, or the lock stays taken for
\* _spinCount polls and the coroutine yields.
SpinAcquire(k, c) ==
  /\ Step(k, c, "lock", "swap")
  /\ ~locked
  /\ locked' = TRUE
  /\ UNCHANGED <<reactorVars, sequencer, gp, allocated, localVars>>

\* Waiting for the lock.
SpinYield(k, c) ==
  /\ Step(k, c, "lock", "lock")
  /\ locked
  /\ Yield(k, c)
  /\ UNCHANGED <<sequencer, heapVars, localVars>>

\* q = gp; rcu_assign_pointer(gp, p).  The lock keeps other writers out.
LoadOld(k, c) ==
  /\ Step(k, c, "swap", "assign")
  /\ q' = [q EXCEPT ![c] = gp]
  /\ UNCHANGED <<reactorVars, sequencer, heapVars, round, p, global_version,
                 writer_version, current_core, i>>

AssignPointer(k, c) ==
  /\ Step(k, c, "assign", "sync")
  /\ gp' = p[c]
  /\ UNCHANGED <<reactorVars, sequencer, allocated, locked, localVars>>

\* Mutant: fetch_add's result without the + 1.
FetchAdd_OldValue(k, c) ==
  /\ Step(k, c, "sync", "scan")
  /\ sequencer' = sequencer + 1
  /\ writer_version' = [writer_version EXCEPT ![c] = sequencer]
  /\ current_core' = [current_core EXCEPT ![c] = k]
  /\ i' = [i EXCEPT ![c] = 0]
  /\ UNCHANGED <<reactorVars, heapVars, round, p, q, global_version>>

\* synchronize_rcu() up to its loop.
FetchAdd(k, c) ==
  /\ Step(k, c, "sync", "scan")
  /\ sequencer' = sequencer + 1
  /\ writer_version' = [writer_version EXCEPT ![c] = sequencer + 1]
  /\ current_core' = [current_core EXCEPT ![c] = k]
  /\ i' = [i EXCEPT ![c] = 0]
  /\ UNCHANGED <<reactorVars, heapVars, round, p, q, global_version>>

\* The core is the caller's own, or its version has caught up: the next one.
ScanPass(k, c) ==
  /\ Step(k, c, "scan", "scan")
  /\ i[c] < num_threads
  /\ \/ i[c] = current_core[c]
     \/ writer_version[c] <= versions[i[c]]
  /\ i' = [i EXCEPT ![c] = @ + 1]
  /\ UNCHANGED <<reactorVars, sequencer, heapVars, round, p, q,
                 global_version, writer_version, current_core>>

ScanWait(k, c) ==
  /\ Step(k, c, "scan", "scan")
  /\ i[c] < num_threads
  /\ i[c] # current_core[c]
  /\ writer_version[c] > versions[i[c]]
  /\ Yield(k, c)
  /\ UNCHANGED <<sequencer, heapVars, localVars>>

\* The loop is over; a Syncer returns to its sections.
ScanEnd(k, c) ==
  /\ Step(k, c, "scan", IF c \in Writers THEN "delete" ELSE "loop")
  /\ i[c] = num_threads
  /\ round' = [round EXCEPT ![c] = IF c \in Writers THEN @ ELSE @ + 1]
  /\ UNCHANGED <<reactorVars, sequencer, heapVars, p, q, global_version,
                 writer_version, current_core, i>>

Delete(k, c) ==
  /\ Step(k, c, "delete", "unlock")
  /\ allocated' = allocated \ {q[c]}
  /\ UNCHANGED <<reactorVars, sequencer, gp, locked, localVars>>

SpinUnlock(k, c) ==
  /\ Step(k, c, "unlock", "loop")
  /\ locked' = FALSE
  /\ round' = [round EXCEPT ![c] = @ + 1]
  /\ UNCHANGED <<reactorVars, sequencer, gp, allocated, p, q,
                 global_version, writer_version, current_core, i>>

TaskReturn(k, c) ==
  /\ round[c] = n_round
  /\ Step(k, c, "loop", "done")
  /\ Finish(k, c)
  /\ UNCHANGED <<sequencer, heapVars, localVars>>

-----------------------------------------------------------------------------
CoroStep(k, c) ==
  \/ ReadLock(k, c)
  \/ LoadSequencer(k, c)
  \/ PublishVersion(k, c)
  \/ Dereference(k, c)
  \/ ReadUnlock(k, c)
  \/ New(k, c)
  \/ SpinAcquire(k, c)
  \/ SpinYield(k, c)
  \/ LoadOld(k, c)
  \/ AssignPointer(k, c)
  \/ FetchAdd(k, c)
  \/ ScanPass(k, c)
  \/ ScanWait(k, c)
  \/ ScanEnd(k, c)
  \/ Delete(k, c)
  \/ SpinUnlock(k, c)
  \/ TaskReturn(k, c)

SubmitTask == Submit /\ UNCHANGED <<sequencer, heapVars, localVars, pc>>

Reactors(k) ==
  Dispatch(k) /\ UNCHANGED <<sequencer, heapVars, localVars, pc>>

CoreStep(k) == Reactors(k) \/ \E c \in Coros : CoroStep(k, c)

AllDone == \A c \in Coros : pc[c] = "done"

\* Every task has finished: the application stops (module Scheduler).
Stopped == AllDone /\ UNCHANGED vars

Next == SubmitTask \/ (\E k \in Cores : CoreStep(k)) \/ Stopped

\* A reactor polls for ever, so a core that can take a step takes one.
Fairness == WF_vars(SubmitTask) /\ \A k \in Cores : WF_vars(CoreStep(k))

Spec == Init /\ [][Next]_vars
FairSpec == Spec /\ Fairness

-----------------------------------------------------------------------------
\* The grace period protects readers: the object a read section works on is
\* not deleted (and so not reused) before the section ends, and gp never
\* points to a deleted object.
NoUseAfterFree ==
  /\ gp \in allocated
  /\ \A c \in Coros : pc[c] = "use" => p[c] \in allocated

\* A writer's new object, not yet published, and its old one, not reachable
\* from gp any more.
Fresh == {c \in Coros : pc[c] \in {"lock", "swap", "assign"}}
Retired == {c \in Writers : pc[c] \in {"sync", "scan", "delete"}}

\* Nothing leaks and nothing is freed twice: the allocated objects are gp's,
\* the fresh ones and the retired ones, all different.
HeapAccounted ==
  /\ allocated = {gp} \cup {p[c] : c \in Fresh} \cup {q[c] : c \in Retired}
  /\ \A c \in Fresh : p[c] # gp /\ \A d \in Fresh \ {c} : p[c] # p[d]
  /\ \A c \in Retired : q[c] # gp /\ \A d \in Retired \ {c} : q[c] # q[d]
  /\ \A c \in Fresh, d \in Retired : p[c] # q[d]

-----------------------------------------------------------------------------
(***************************************************************************)
(* The inductive invariant behind NoUseAfterFree.                          *)
(***************************************************************************)

\* Tasks stay on their core, and one that is between two awaits is running.
Placed ==
  /\ \A k \in Cores : running[k] # None => Home(running[k]) = k
  /\ \A k \in Cores : \A n \in 1 .. Len(inbox[k]) : Home(inbox[k][n]) = k
  /\ \A c \in Coros : resumer[c] = None
  /\ \A c \in Coros :
       pc[c] \notin {"loop", "lock", "scan", "done"} => running[Home(c)] = c

\* Readers read, writers write.
Roles ==
  \A c \in Coros :
    /\ pc[c] \in {"rload", "rstore", "deref", "use"} => c \notin Writers
    /\ pc[c] \in {"lock", "swap", "assign", "delete", "unlock"} => c \in Writers

\* The SpinLock: one writer at a time between coLock() and unlock().
Holds(c) ==
  /\ c \in Writers
  /\ pc[c] \in {"swap", "assign", "sync", "scan", "delete", "unlock"}

WriterExclusion ==
  /\ \A c, d \in Coros : Holds(c) /\ Holds(d) => c = d
  /\ \A c \in Coros : Holds(c) => locked
  /\ \A c \in Coros : pc[c] = "assign" => q[c] = gp

\* A core that is in a section, or whose counter says that it is in the
\* middle of a batch, has published a version the sequencer had.
Published ==
  /\ \A c \in Coros :
       /\ pc[c] = "rstore" => global_version[c] <= sequencer
       /\ pc[c] \in {"deref", "use"} => versions[Home(c)] <= sequencer
  /\ \A k \in Cores :
       rcu_count[k] # Refresh - 1 =>
         \/ versions[k] <= sequencer
         \/ running[k] # None /\ pc[running[k]] \in {"rload", "rstore"}

\* A section works on the current object or on one whose grace period is not
\* over; and a grace period that is being waited for has not yet passed the
\* core of any section that works on its object.
Protected ==
  \A r \in Coros : pc[r] = "use" =>
    \/ p[r] = gp
    \/ \E w \in Retired : q[w] = p[r] /\ pc[w] # "delete"

GracePeriod ==
  \A r \in Coros, w \in Writers :
    pc[r] = "use" /\ pc[w] = "scan" /\ q[w] = p[r] =>
      /\ Home(r) # current_core[w]
      /\ versions[Home(r)] < writer_version[w]
      /\ i[w] <= Home(r)

RcuInv ==
  /\ Placed
  /\ Roles
  /\ WriterExclusion
  /\ Published
  /\ HeapAccounted
  /\ Protected
  /\ GracePeriod

\* Every task finishes: in particular every synchronize_rcu() returns, although
\* the cores it waits for may read all the time or have nothing to run.
Terminates == <>AllDone

=============================================================================
