----------------------------- MODULE RcuProofs -----------------------------
(***************************************************************************)
(* Proofs about RCU, for any number of cores, tasks, rounds and objects and *)
(* for any refresh interval, in three parts: synchronize_rcu() on its own  *)
(* (module Rcu), deferred reclamation with free_rcu() (module CallRcu), and *)
(* readers that also use the Mutex and the I/O service (module RcuMutex).  *)
(***************************************************************************)
EXTENDS CallRcu, RcuMutex, ReactorProofs

-----------------------------------------------------------------------------
(***************************************************************************)
(* PART ONE.  Readers and writers that wait in synchronize_rcu() (module   *)
(* Rcu).                                                                   *)
(***************************************************************************)

-----------------------------------------------------------------------------
(***************************************************************************)
(* Type correctness.                                                       *)
(***************************************************************************)

\* The initial state is well typed.
LEMMA TypeInit == Init => TypeOK
<1> SUFFICES ASSUME Init PROVE TypeOK
  OBVIOUS
<1>1. ReactorTypeOK
  <2>1. submitted \in 0 .. NumTasks
    BY ReactorAssumption DEF Init, ReactorInit
  <2>2. inbox \in [Cores -> Seq(Coros)]
    BY EmptySeq DEF Init, ReactorInit
  <2>3. rcu_count \in [Cores -> 0 .. (Refresh - 1)]
    BY ReactorAssumption DEF Init, ReactorInit
  <2>4. versions \in [Cores -> Nat]
    BY ReactorAssumption DEF Init, ReactorInit
  <2> QED
    BY <2>1, <2>2, <2>3, <2>4 DEF Init, ReactorInit, ReactorTypeOK
<1>2. i \in [Coros -> 0 .. num_threads]
  BY ReactorAssumption, RcuAssumption DEF Init
<1>3. current_core \in [Coros -> Cores]
  BY ReactorAssumption DEF Init, Cores
<1> QED
  BY <1>1, <1>2, <1>3, RcuAssumption DEF Init, TypeOK, PcValues

\* Every step keeps the types.
LEMMA TypeNext ==
  ASSUME TypeOK, [Next]_vars
  PROVE  TypeOK'
<1> USE DEF TypeOK
<1>1. CASE SubmitTask
  BY <1>1, SubmitType DEF SubmitTask, heapVars, localVars
<1>2. ASSUME NEW k \in Cores, Reactors(k)
      PROVE  TypeOK'
  BY <1>2, DispatchType DEF Reactors, heapVars, localVars
<1>3. ASSUME NEW k \in Cores, NEW c \in Coros, CoroStep(k, c)
      PROVE  TypeOK'
  <2> USE DEF PcValues, Step
  <2>1. CASE ReadLock(k, c)
    <3>1. rcu_count[k] \in 0 .. (Refresh - 1) /\ Refresh \in Nat \ {0}
      BY ReactorAssumption DEF ReactorTypeOK
    <3>2. 0 \in 0 .. (Refresh - 1)
      BY <3>1
    <3>3. rcu_count[k] + 1 # Refresh => rcu_count[k] + 1 \in 0 .. (Refresh - 1)
      BY <3>1
    <3>4. rcu_count' \in [Cores -> 0 .. (Refresh - 1)]
      BY <2>1, <3>2, <3>3 DEF ReadLock, ReactorTypeOK
    <3> QED
      BY <2>1, <3>4
      DEF ReadLock, ReactorTypeOK, stackVars, heapVars, localVars
  <2>2. CASE LoadSequencer(k, c)
    BY <2>2 DEF LoadSequencer, ReactorTypeOK, reactorVars, heapVars
  <2>3. CASE PublishVersion(k, c)
    BY <2>3 DEF PublishVersion, ReactorTypeOK, stackVars, heapVars, localVars
  <2>4. CASE Dereference(k, c)
    BY <2>4 DEF Dereference, ReactorTypeOK, reactorVars, heapVars
  <2>5. CASE ReadUnlock(k, c)
    <3>1. round' \in [Coros -> Nat]
      BY <2>5 DEF ReadUnlock
    <3> QED
      BY <2>5, <3>1 DEF ReadUnlock, ReactorTypeOK, reactorVars, heapVars
  <2>6. CASE New(k, c)
    <3>1. PICK o \in Objects \ allocated :
            allocated' = allocated \cup {o} /\ p' = [p EXCEPT ![c] = o]
      BY <2>6 DEF New
    <3>2. allocated' \subseteq Objects /\ p' \in [Coros -> Objects]
      BY <3>1
    <3> QED BY <2>6, <3>2 DEF New, ReactorTypeOK, reactorVars
  <2>7. CASE SpinAcquire(k, c)
    BY <2>7 DEF SpinAcquire, ReactorTypeOK, reactorVars, localVars
  <2>8. CASE SpinYield(k, c) \/ ScanWait(k, c)
    BY <2>8, YieldType DEF SpinYield, ScanWait, heapVars, localVars
  <2>9. CASE LoadOld(k, c)
    BY <2>9 DEF LoadOld, ReactorTypeOK, reactorVars, heapVars
  <2>10. CASE AssignPointer(k, c)
    BY <2>10 DEF AssignPointer, ReactorTypeOK, reactorVars, localVars
  <2>11. CASE FetchAdd(k, c)
    <3>1. 0 \in 0 .. num_threads
      BY ReactorAssumption
    <3>2. /\ sequencer' \in Nat
          /\ writer_version' \in [Coros -> Nat]
          /\ current_core' \in [Coros -> Cores]
      BY <2>11 DEF FetchAdd
    <3> QED
      BY <2>11, <3>1, <3>2 DEF FetchAdd, ReactorTypeOK, reactorVars, heapVars
  <2>12. CASE ScanPass(k, c)
    <3>1. i[c] + 1 \in 0 .. num_threads
      BY <2>12, ReactorAssumption DEF ScanPass
    <3> QED
      BY <2>12, <3>1 DEF ScanPass, ReactorTypeOK, reactorVars, heapVars
  <2>13. CASE ScanEnd(k, c)
    <3>1. round' \in [Coros -> Nat]
      BY <2>13 DEF ScanEnd
    <3> QED
      BY <2>13, <3>1 DEF ScanEnd, ReactorTypeOK, reactorVars, heapVars
  <2>14. CASE Delete(k, c)
    BY <2>14 DEF Delete, ReactorTypeOK, reactorVars, localVars
  <2>15. CASE SpinUnlock(k, c)
    <3>1. round' \in [Coros -> Nat]
      BY <2>15 DEF SpinUnlock
    <3> QED
      BY <2>15, <3>1 DEF SpinUnlock, ReactorTypeOK, reactorVars
  <2>16. CASE TaskReturn(k, c)
    <3>1. ReactorTypeOK'
      BY <2>16, OfflineType, ResumeType DEF TaskReturn, Finish, ReactorTypeOK
    <3> QED BY <2>16, <3>1 DEF TaskReturn, heapVars, localVars
  <2> QED
    BY <1>3, <2>1, <2>2, <2>3, <2>4, <2>5, <2>6, <2>7, <2>8, <2>9, <2>10,
       <2>11, <2>12, <2>13, <2>14, <2>15, <2>16 DEF CoroStep
<1>4. CASE UNCHANGED vars
  BY <1>4 DEF vars, reactorVars, heapVars, localVars, ReactorTypeOK
<1> QED
  BY <1>1, <1>2, <1>3, <1>4 DEF Next, CoreStep, Stopped

\* Type correctness of the RCU model.
THEOREM TypeCorrect == Spec => []TypeOK
BY TypeInit, TypeNext, PTL DEF Spec

-----------------------------------------------------------------------------
(***************************************************************************)
(* Where the tasks are.                                                    *)
(***************************************************************************)

\* The steps that neither give up the core nor take a message.
StaysOnCore(k, c) ==
  /\ Executes(k, c)
  /\ \E b \in PcValues : pc' = [pc EXCEPT ![c] = b]
  /\ UNCHANGED <<running, resumer, inbox>>

\* A step of a coroutine stays on the core, or yields, or finishes.
LEMMA CoroStepKinds ==
  ASSUME NEW k \in Cores, NEW c \in Coros, CoroStep(k, c)
  PROVE  \/ StaysOnCore(k, c)
         \/ SpinYield(k, c)
         \/ ScanWait(k, c)
         \/ TaskReturn(k, c)
<1> USE DEF StaysOnCore, Step, PcValues, reactorVars, stackVars
<1>1. CASE \/ ReadLock(k, c) \/ LoadSequencer(k, c) \/ PublishVersion(k, c)
           \/ Dereference(k, c) \/ ReadUnlock(k, c)
  BY <1>1
  DEF ReadLock, LoadSequencer, PublishVersion, Dereference, ReadUnlock
<1>2. CASE \/ New(k, c) \/ SpinAcquire(k, c) \/ LoadOld(k, c)
           \/ AssignPointer(k, c) \/ FetchAdd(k, c)
  BY <1>2 DEF New, SpinAcquire, LoadOld, AssignPointer, FetchAdd
<1>3. CASE \/ ScanPass(k, c) \/ ScanEnd(k, c)
           \/ Delete(k, c) \/ SpinUnlock(k, c)
  BY <1>3 DEF ScanPass, ScanEnd, Delete, SpinUnlock
<1> QED
  BY <1>1, <1>2, <1>3 DEF CoroStep

\* A coroutine runs on its own core only, and it is no model value.
LEMMA RunsAtHome ==
  ASSUME Placed, NEW k \in Cores, NEW c \in Coros, Executes(k, c)
  PROVE  Home(c) = k /\ c # None
BY ReactorAssumption DEF Placed, Executes

\* A step that keeps its task on the core keeps every task where it is.
LEMMA PlacedStays ==
  ASSUME TypeOK, Placed, NEW k \in Cores, NEW c \in Coros, StaysOnCore(k, c)
  PROVE  Placed'
<1>1. Home(c) = k /\ running[k] = c
  BY RunsAtHome DEF StaysOnCore, Executes
<1> QED BY <1>1 DEF StaysOnCore, Placed, TypeOK, ReactorTypeOK

\* Tasks stay on their cores.
LEMMA PlacedNext ==
  ASSUME TypeOK, Placed, [Next]_vars
  PROVE  Placed'
<1> USE DEF TypeOK, ReactorTypeOK
<1>0. \A c \in Coros : Home(c) \in Cores
  BY HomeType, ReactorAssumption DEF Coros
<1>1. CASE SubmitTask
  <2>1. submitted \in Coros /\ Home(submitted) \in Cores
    BY <1>1, HomeType, ReactorAssumption DEF SubmitTask, Submit, Coros
  <2>2. ASSUME NEW k \in Cores, NEW n \in 1 .. Len(inbox'[k])
        PROVE  Home(inbox'[k][n]) = k
    <3>1. CASE k = Home(submitted)
      <4>1. inbox'[k] = Append(inbox[k], submitted)
        BY <1>1, <3>1 DEF SubmitTask, Submit, SendMsg
      <4> QED BY <2>1, <2>2, <3>1, <4>1, AppendProperties DEF Placed
    <3>2. CASE k # Home(submitted)
      BY <1>1, <2>2, <3>2 DEF SubmitTask, Submit, SendMsg, Placed
    <3> QED BY <3>1, <3>2
  <2> QED BY <1>1, <2>2 DEF SubmitTask, Submit, stackVars, Placed
<1>2. ASSUME NEW k \in Cores, Reactors(k)
      PROVE  Placed'
  <2> DEFINE c == Head(inbox[k])
  <2>1. /\ running[k] = None
        /\ inbox[k] # <<>>
        /\ running' = [running EXCEPT ![k] = c]
        /\ resumer' = [resumer EXCEPT ![c] = None]
        /\ inbox' = [inbox EXCEPT ![k] = Tail(@)]
        /\ pc' = pc
    BY <1>2 DEF Reactors, Dispatch, Idle, Resume
  <2>2. /\ c \in Coros /\ Home(c) = k
        /\ \A n \in 1 .. Len(Tail(inbox[k])) : Home(Tail(inbox[k])[n]) = k
    <3>1. /\ inbox[k] \in Seq(Coros)
          /\ Len(inbox[k]) \in Nat \ {0}
          /\ c = inbox[k][1]
      BY <2>1, EmptySeq
    <3>2. /\ c \in Coros
          /\ Len(Tail(inbox[k])) = Len(inbox[k]) - 1
          /\ \A n \in 1 .. Len(Tail(inbox[k])) : Tail(inbox[k])[n] = inbox[k][n + 1]
      BY <2>1, <3>1, HeadTailProperties
    <3>3. \A n \in 1 .. Len(Tail(inbox[k])) : n + 1 \in 1 .. Len(inbox[k])
      BY <3>1, <3>2
    <3>4. \A n \in 1 .. Len(inbox[k]) : Home(inbox[k][n]) = k
      BY DEF Placed
    <3>5. Home(c) = k
      BY <3>1, <3>4
    <3>6. \A n \in 1 .. Len(Tail(inbox[k])) : Home(Tail(inbox[k])[n]) = k
      BY <3>2, <3>3, <3>4
    <3> QED BY <3>2, <3>5, <3>6
  <2> HIDE DEF c
  <2>3. \A j \in Cores : \A n \in 1 .. Len(inbox'[j]) : Home(inbox'[j][n]) = j
    BY <2>1, <2>2 DEF Placed
  <2>4. \A j \in Cores : running'[j] # None => Home(running'[j]) = j
    BY <2>1, <2>2 DEF Placed
  <2>5. \A d \in Coros : pc'[d] \notin {"loop", "lock", "scan", "done"} =>
                           running'[Home(d)] = d
    BY <1>0, <2>1, ReactorAssumption DEF Placed
  <2>6. \A d \in Coros : resumer'[d] = None
    BY <2>1, <2>2 DEF Placed
  <2> QED BY <2>3, <2>4, <2>5, <2>6 DEF Placed
<1>3. ASSUME NEW k \in Cores, NEW c \in Coros, StaysOnCore(k, c)
      PROVE  Placed'
  BY <1>3, PlacedStays
<1>4. ASSUME NEW k \in Cores, NEW c \in Coros,
             SpinYield(k, c) \/ ScanWait(k, c) \/ TaskReturn(k, c)
      PROVE  Placed'
  <2>1. /\ running[k] = c /\ Home(c) = k
        /\ running' = [running EXCEPT ![k] = None]
        /\ resumer' = [resumer EXCEPT ![c] = None]
        /\ \E b \in {"lock", "scan", "done"} : pc' = [pc EXCEPT ![c] = b]
    <3>1. Executes(k, c) /\ resumer[c] = None
      BY <1>4 DEF SpinYield, ScanWait, TaskReturn, Step, Placed
    <3> QED
      BY <1>4, <3>1, RunsAtHome
      DEF SpinYield, ScanWait, TaskReturn, Step, Yield, Finish, Return, Executes
  <2>2. inbox' = inbox \/ inbox' = [inbox EXCEPT ![k] = Append(@, c)]
    BY <1>4 DEF SpinYield, ScanWait, TaskReturn, Yield, Finish, SendMsg
  <2>3. ASSUME NEW j \in Cores, NEW n \in 1 .. Len(inbox'[j])
        PROVE  Home(inbox'[j][n]) = j
    <3>1. CASE inbox'[j] = inbox[j]
      BY <2>3, <3>1 DEF Placed
    <3>2. CASE j = k /\ inbox'[k] = Append(inbox[k], c)
      <4>1. /\ Len(inbox'[k]) = Len(inbox[k]) + 1
            /\ \A m \in 1 .. Len(inbox[k]) : inbox'[k][m] = inbox[k][m]
            /\ inbox'[k][Len(inbox[k]) + 1] = c
        BY <3>2, AppendProperties
      <4>2. n \in 1 .. Len(inbox[k]) \/ n = Len(inbox[k]) + 1
        BY <3>2, <4>1, LenProperties
      <4> QED BY <2>1, <3>2, <4>1, <4>2 DEF Placed
    <3> QED BY <2>2, <3>1, <3>2
  <2>4. \A j \in Cores : running'[j] # None => Home(running'[j]) = j
    BY <2>1 DEF Placed
  <2>5. \A d \in Coros : pc'[d] \notin {"loop", "lock", "scan", "done"} =>
                           running'[Home(d)] = d
    <3> SUFFICES ASSUME NEW d \in Coros,
                        pc'[d] \notin {"loop", "lock", "scan", "done"}
                 PROVE  running'[Home(d)] = d
      OBVIOUS
    <3>1. d # c /\ pc'[d] = pc[d]
      BY <2>1
    <3>2. running[Home(d)] = d
      BY <3>1 DEF Placed
    <3> QED BY <1>0, <2>1, <3>1, <3>2
  <2> QED BY <2>1, <2>3, <2>4, <2>5 DEF Placed
<1>5. CASE UNCHANGED vars
  BY <1>5 DEF vars, reactorVars, Placed
<1> QED
  BY <1>1, <1>2, <1>3, <1>4, <1>5, CoroStepKinds DEF Next, CoreStep, Stopped

-----------------------------------------------------------------------------
(***************************************************************************)
(* Writers: the lock and the heap.                                         *)
(***************************************************************************)

\* Steps outside the coroutines change neither heap nor locals.
LEMMA OutsideFrame ==
  ASSUME SubmitTask \/ (\E k \in Cores : Reactors(k)) \/ Stopped \/ UNCHANGED vars
  PROVE  UNCHANGED <<sequencer, heapVars, localVars, pc>>
BY DEF SubmitTask, Reactors, Stopped, vars

\* Readers stay readers and writers stay writers.
LEMMA RolesNext ==
  ASSUME TypeOK, Roles, [Next]_vars
  PROVE  Roles'
<1>1. CASE SubmitTask \/ (\E k \in Cores : Reactors(k)) \/ Stopped \/ UNCHANGED vars
  BY <1>1, OutsideFrame DEF Roles
<1>2. ASSUME NEW k \in Cores, NEW c \in Coros, CoroStep(k, c)
      PROVE  Roles'
  <2> USE RcuAssumption DEF Step, Roles, TypeOK
  <2>1. CASE \/ ReadLock(k, c) \/ LoadSequencer(k, c) \/ PublishVersion(k, c)
             \/ Dereference(k, c) \/ ReadUnlock(k, c)
    BY <2>1
    DEF ReadLock, LoadSequencer, PublishVersion, Dereference, ReadUnlock
  <2>2. CASE \/ New(k, c) \/ SpinAcquire(k, c) \/ SpinYield(k, c)
             \/ LoadOld(k, c) \/ AssignPointer(k, c)
    BY <2>2 DEF New, SpinAcquire, SpinYield, LoadOld, AssignPointer
  <2>3. CASE \/ FetchAdd(k, c) \/ ScanPass(k, c) \/ ScanWait(k, c)
             \/ ScanEnd(k, c)
    BY <2>3 DEF FetchAdd, ScanPass, ScanWait, ScanEnd
  <2>4. CASE Delete(k, c) \/ SpinUnlock(k, c) \/ TaskReturn(k, c)
    BY <2>4 DEF Delete, SpinUnlock, TaskReturn
  <2> QED BY <1>2, <2>1, <2>2, <2>3, <2>4 DEF CoroStep
<1> QED BY <1>1, <1>2 DEF Next, CoreStep

\* The SpinLock keeps writers apart.
LEMMA WriterExclusionNext ==
  ASSUME TypeOK, Roles, WriterExclusion, [Next]_vars
  PROVE  WriterExclusion'
<1>1. CASE SubmitTask \/ (\E k \in Cores : Reactors(k)) \/ Stopped \/ UNCHANGED vars
  <2>1. UNCHANGED <<pc, locked, q, gp>>
    BY <1>1, OutsideFrame DEF heapVars, localVars
  <2> QED BY <2>1 DEF WriterExclusion, Holds
<1>2. ASSUME NEW k \in Cores, NEW c \in Coros, CoroStep(k, c)
      PROVE  WriterExclusion'
  <2> USE DEF Step, TypeOK, heapVars, localVars
  <2>1. CASE \/ ReadLock(k, c) \/ LoadSequencer(k, c) \/ PublishVersion(k, c)
             \/ Dereference(k, c) \/ ReadUnlock(k, c)
    <3>1. c \notin Writers /\ UNCHANGED <<locked, q, gp>>
      BY <2>1
      DEF ReadLock, LoadSequencer, PublishVersion, Dereference, ReadUnlock, Roles
    <3>2. /\ \A d \in Coros : d # c => pc'[d] = pc[d]
          /\ pc'[c] # "assign"
      BY <2>1
      DEF ReadLock, LoadSequencer, PublishVersion, Dereference, ReadUnlock
    <3> QED BY <3>1, <3>2 DEF WriterExclusion, Holds
  <2>2. CASE New(k, c) \/ SpinYield(k, c) \/ TaskReturn(k, c)
    BY <2>2 DEF New, SpinYield, TaskReturn, WriterExclusion, Holds
  <2>3. CASE SpinAcquire(k, c)
    BY <2>3 DEF SpinAcquire, WriterExclusion, Holds
  <2>4. CASE LoadOld(k, c)
    BY <2>4 DEF LoadOld, WriterExclusion, Holds, Roles
  <2>5. CASE AssignPointer(k, c)
    <3>1. Holds(c)
      BY <2>5 DEF AssignPointer, Holds, Roles
    <3>2. \A d \in Coros : pc'[d] # "assign"
      BY <2>5, <3>1 DEF AssignPointer, WriterExclusion, Holds, Roles
    <3>3. \A d \in Coros : (Holds(d))' <=> Holds(d)
      BY <2>5, <3>1 DEF AssignPointer, Holds
    <3> QED BY <2>5, <3>2, <3>3 DEF AssignPointer, WriterExclusion
  <2>6. CASE FetchAdd(k, c) \/ ScanPass(k, c) \/ ScanWait(k, c)
    BY <2>6 DEF FetchAdd, ScanPass, ScanWait, WriterExclusion, Holds
  <2>7. CASE ScanEnd(k, c)
    BY <2>7 DEF ScanEnd, WriterExclusion, Holds
  <2>8. CASE Delete(k, c)
    BY <2>8 DEF Delete, WriterExclusion, Holds
  <2>9. CASE SpinUnlock(k, c)
    <3>1. Holds(c)
      BY <2>9 DEF SpinUnlock, Holds, Roles
    <3>2. \A d \in Coros : ~(Holds(d))'
      BY <2>9, <3>1 DEF SpinUnlock, WriterExclusion, Holds
    <3>3. \A d \in Coros : pc'[d] # "assign"
      BY <2>9, <3>1 DEF SpinUnlock, WriterExclusion, Holds, Roles
    <3> QED BY <3>2, <3>3 DEF WriterExclusion
  <2> QED
    BY <1>2, <2>1, <2>2, <2>3, <2>4, <2>5, <2>6, <2>7, <2>8, <2>9 DEF CoroStep
<1> QED BY <1>1, <1>2 DEF Next, CoreStep

\* What is allocated stays accounted for.
LEMMA HeapAccountedNext ==
  ASSUME TypeOK, Roles, WriterExclusion, HeapAccounted, [Next]_vars
  PROVE  HeapAccounted'
<1>1. ASSUME UNCHANGED <<gp, allocated>>, Fresh' = Fresh, Retired' = Retired,
             \A c \in Fresh : p'[c] = p[c], \A c \in Retired : q'[c] = q[c]
      PROVE  HeapAccounted'
  <2>1. {p'[c] : c \in Fresh'} = {p[c] : c \in Fresh}
    BY <1>1
  <2>2. {q'[c] : c \in Retired'} = {q[c] : c \in Retired}
    BY <1>1
  <2> QED BY <1>1, <2>1, <2>2 DEF HeapAccounted
<1>2. CASE SubmitTask \/ (\E k \in Cores : Reactors(k)) \/ Stopped \/ UNCHANGED vars
  <2>1. UNCHANGED <<gp, allocated, p, q, pc>>
    BY <1>2, OutsideFrame DEF heapVars, localVars
  <2> QED BY <1>1, <2>1 DEF Fresh, Retired
<1>3. ASSUME NEW k \in Cores, NEW c \in Coros, CoroStep(k, c)
      PROVE  HeapAccounted'
  <2> USE DEF Step, TypeOK, heapVars, localVars
  <2>1. CASE \/ ReadLock(k, c) \/ LoadSequencer(k, c) \/ PublishVersion(k, c)
             \/ Dereference(k, c) \/ ReadUnlock(k, c)
    <3>1. c \notin Writers /\ UNCHANGED <<gp, allocated, q>>
      BY <2>1
      DEF ReadLock, LoadSequencer, PublishVersion, Dereference, ReadUnlock, Roles
    <3>2. /\ \A d \in Coros : d # c => pc'[d] = pc[d] /\ p'[d] = p[d]
          /\ pc[c] \notin {"lock", "swap", "assign"}
          /\ pc'[c] \notin {"lock", "swap", "assign"}
      BY <2>1
      DEF ReadLock, LoadSequencer, PublishVersion, Dereference, ReadUnlock
    <3>3. Fresh' = Fresh /\ Retired' = Retired /\ c \notin Fresh
      BY <3>1, <3>2, RcuAssumption DEF Fresh, Retired
    <3> QED BY <1>1, <3>1, <3>2, <3>3 DEF Fresh
  <2>2. CASE New(k, c)
    <3>1. PICK o \in Objects \ allocated :
            allocated' = allocated \cup {o} /\ p' = [p EXCEPT ![c] = o]
      BY <2>2 DEF New
    <3>2. Fresh' = Fresh \cup {c} /\ c \notin Fresh /\ Retired' = Retired
      BY <2>2, RcuAssumption DEF New, Fresh, Retired
    <3>3. /\ \A d \in Fresh : p'[d] = p[d] /\ p[d] # o
          /\ \A d \in Retired : q'[d] = q[d] /\ q[d] # o
          /\ p'[c] = o /\ gp # o /\ gp' = gp
      BY <2>2, <3>1, <3>2 DEF New, Fresh, HeapAccounted
    <3>4. allocated' =
            {gp'} \cup {p'[d] : d \in Fresh'} \cup {q'[d] : d \in Retired'}
      <4>1. {p'[d] : d \in Fresh'} = {p[d] : d \in Fresh} \cup {o}
        BY <3>2, <3>3
      <4>2. {q'[d] : d \in Retired'} = {q[d] : d \in Retired}
        BY <3>2, <3>3
      <4> QED BY <3>1, <3>3, <4>1, <4>2 DEF HeapAccounted
    <3> QED BY <3>2, <3>3, <3>4 DEF HeapAccounted
  <2>3. CASE SpinYield(k, c) \/ TaskReturn(k, c) \/ SpinAcquire(k, c)
    <3>1. Fresh' = Fresh /\ Retired' = Retired
      BY <2>3, RcuAssumption
      DEF SpinYield, TaskReturn, SpinAcquire, Fresh, Retired
    <3> QED
      BY <1>1, <2>3, <3>1 DEF SpinYield, TaskReturn, SpinAcquire
  <2>4. CASE LoadOld(k, c)
    <3>1. Fresh' = Fresh /\ Retired' = Retired /\ c \notin Retired
      BY <2>4, RcuAssumption DEF LoadOld, Fresh, Retired
    <3>2. \A d \in Retired : q'[d] = q[d]
      BY <2>4, <3>1, RcuAssumption DEF LoadOld, Retired
    <3> QED BY <1>1, <2>4, <3>1, <3>2 DEF LoadOld
  <2>5. CASE AssignPointer(k, c)
    <3>1. /\ c \in Fresh /\ Fresh' = Fresh \ {c}
          /\ c \notin Retired /\ Retired' = Retired \cup {c}
          /\ q[c] = gp /\ gp' = p[c]
          /\ UNCHANGED <<p, q, allocated>>
      BY <2>5, RcuAssumption
      DEF AssignPointer, Fresh, Retired, Roles, WriterExclusion
    <3>2. {p[d] : d \in Fresh} = {p[d] : d \in Fresh \ {c}} \cup {p[c]}
      BY <3>1
    <3>3. {q[d] : d \in Retired \cup {c}} = {q[d] : d \in Retired} \cup {q[c]}
      BY <3>1
    <3>4. allocated =
            {gp'} \cup {p[d] : d \in Fresh'} \cup {q[d] : d \in Retired'}
      BY <3>1, <3>2, <3>3 DEF HeapAccounted
    <3> QED BY <3>1, <3>4 DEF HeapAccounted
  <2>6. CASE FetchAdd(k, c) \/ ScanPass(k, c) \/ ScanWait(k, c) \/ ScanEnd(k, c)
    <3>1. Fresh' = Fresh /\ Retired' = Retired
      BY <2>6, RcuAssumption
      DEF FetchAdd, ScanPass, ScanWait, ScanEnd, Fresh, Retired
    <3> QED
      BY <1>1, <2>6, <3>1 DEF FetchAdd, ScanPass, ScanWait, ScanEnd
  <2>7. CASE Delete(k, c)
    <3>1. /\ c \in Retired /\ Retired' = Retired \ {c} /\ Fresh' = Fresh
          /\ allocated' = allocated \ {q[c]}
          /\ UNCHANGED <<p, q, gp>>
      BY <2>7, RcuAssumption DEF Delete, Fresh, Retired, Roles
    <3>2. {q[d] : d \in Retired \ {c}} = {q[d] : d \in Retired} \ {q[c]}
      BY <3>1 DEF HeapAccounted
    <3>3. q[c] # gp /\ q[c] \notin {p[d] : d \in Fresh}
      BY <3>1 DEF HeapAccounted
    <3>4. allocated' =
            {gp} \cup {p[d] : d \in Fresh} \cup {q[d] : d \in Retired \ {c}}
      BY <3>1, <3>2, <3>3 DEF HeapAccounted
    <3> QED BY <3>1, <3>4 DEF HeapAccounted
  <2>8. CASE SpinUnlock(k, c)
    <3>1. Fresh' = Fresh /\ Retired' = Retired
      BY <2>8, RcuAssumption DEF SpinUnlock, Fresh, Retired
    <3> QED BY <1>1, <2>8, <3>1 DEF SpinUnlock
  <2> QED
    BY <1>3, <2>1, <2>2, <2>3, <2>4, <2>5, <2>6, <2>7, <2>8 DEF CoroStep
<1> QED BY <1>2, <1>3 DEF Next, CoreStep

-----------------------------------------------------------------------------
(***************************************************************************)
(* Readers: what a core has published.                                     *)
(***************************************************************************)

\* A coroutine between two awaits is the one its core executes, so no other
\* coroutine takes a step on that core.
LEMMA SoleRunner ==
  ASSUME TypeOK, Placed, NEW k \in Cores, NEW c \in Coros, Executes(k, c)
  PROVE  /\ Home(c) = k
         /\ \A j \in Cores : running[j] = c => j = k
         /\ \A d \in Coros :
              d # c /\ pc[d] \notin {"loop", "lock", "scan", "done"} => Home(d) # k
<1>1. Home(c) = k /\ c # None /\ running[k] = c
  BY RunsAtHome DEF Executes
<1> QED BY <1>1 DEF Placed

\* Versions stay published.
LEMMA PublishedNext ==
  ASSUME TypeOK, Placed, Published, [Next]_vars
  PROVE  Published'
<1> USE DEF TypeOK, ReactorTypeOK
<1>0. /\ \A c \in Coros : Home(c) \in Cores
      /\ Refresh \in Nat \ {0}
      /\ None \notin Coros
  BY HomeType, ReactorAssumption DEF Coros
<1>1. ASSUME UNCHANGED <<pc, global_version, sequencer, versions, rcu_count>>,
             \A k \in Cores : running[k] # None => running'[k] = running[k]
      PROVE  Published'
  BY <1>1 DEF Published
<1>2. CASE SubmitTask \/ Stopped \/ UNCHANGED vars
  <2>1. UNCHANGED <<running, versions, rcu_count>>
    BY <1>2 DEF SubmitTask, Submit, Stopped, vars, reactorVars, rcuVars, stackVars
  <2> QED BY <1>1, <1>2, <2>1, OutsideFrame DEF localVars
<1>3. ASSUME NEW k \in Cores, Reactors(k)
      PROVE  Published'
  <2>1. UNCHANGED <<pc, global_version, sequencer>>
    BY <1>3, OutsideFrame DEF localVars
  <2>2. /\ UNCHANGED <<versions, rcu_count>>
        /\ running[k] = None
        /\ \A j \in Cores : j # k => running'[j] = running[j]
    BY <1>3 DEF Reactors, Dispatch, Idle, Resume, rcuVars
  <2> QED BY <1>1, <2>1, <2>2
<1>4. ASSUME NEW k \in Cores, NEW c \in Coros, CoroStep(k, c)
      PROVE  Published'
  <2> USE DEF Step, reactorVars, stackVars, localVars
  <2>0. Executes(k, c) /\ running[k] = c
    BY <1>4
    DEF CoroStep, ReadLock, LoadSequencer, PublishVersion, Dereference,
        ReadUnlock, New, SpinAcquire, SpinYield, LoadOld, AssignPointer,
        FetchAdd, ScanPass, ScanWait, ScanEnd, Delete, SpinUnlock, TaskReturn,
        Executes
  <2>1. /\ Home(c) = k
        /\ \A j \in Cores : j # k => running[j] # c
        /\ \A d \in Coros :
             d # c /\ pc[d] \notin {"loop", "lock", "scan", "done"} => Home(d) # k
    BY <2>0, SoleRunner
  <2>2. CASE ReadLock(k, c)
    <3>1. /\ pc[c] = "loop"
          /\ UNCHANGED <<running, versions, sequencer, global_version>>
          /\ \A j \in Cores : j # k => rcu_count'[j] = rcu_count[j]
          /\ \A d \in Coros : d # c => pc'[d] = pc[d]
      BY <2>2 DEF ReadLock
    <3>2. CASE rcu_count[k] + 1 = Refresh
      <4>1. pc'[c] = "rload"
        BY <2>2, <3>2 DEF ReadLock
      <4>2. \A d \in Coros :
              /\ pc'[d] = "rstore" => global_version[d] <= sequencer
              /\ pc'[d] \in {"deref", "use"} => versions[Home(d)] <= sequencer
        BY <3>1, <4>1 DEF Published
      <4>3. ASSUME NEW j \in Cores, rcu_count'[j] # Refresh - 1
            PROVE  \/ versions[j] <= sequencer
                   \/ running[j] # None /\ pc'[running[j]] \in {"rload", "rstore"}
        <5>1. CASE j = k
          BY <1>0, <2>0, <2>1, <3>1, <4>1, <4>3, <5>1 DEF Published
        <5>2. CASE j # k
          <6>1. running[j] # None => running[j] \in Coros \ {c}
            BY <2>1, <5>2
          <6>2. \/ versions[j] <= sequencer
                \/ running[j] # None /\ pc[running[j]] \in {"rload", "rstore"}
            BY <3>1, <4>3, <5>2 DEF Published
          <6> QED BY <3>1, <5>2, <6>1, <6>2
        <5> QED BY <5>1, <5>2
      <4> QED BY <3>1, <4>2, <4>3 DEF Published
    <3>3. CASE rcu_count[k] + 1 # Refresh
      <4>1. pc'[c] = "deref" /\ rcu_count[k] # Refresh - 1
        BY <1>0, <2>2, <3>3 DEF ReadLock
      <4>2. versions[k] <= sequencer
        BY <2>0, <3>1, <4>1 DEF Published
      <4>3. \A d \in Coros :
              /\ pc'[d] = "rstore" => global_version[d] <= sequencer
              /\ pc'[d] \in {"deref", "use"} => versions[Home(d)] <= sequencer
        BY <2>1, <3>1, <4>1, <4>2 DEF Published
      <4>4. ASSUME NEW j \in Cores, rcu_count'[j] # Refresh - 1
            PROVE  \/ versions[j] <= sequencer
                   \/ running[j] # None /\ pc'[running[j]] \in {"rload", "rstore"}
        <5>1. CASE j = k
          BY <1>0, <2>1, <3>1, <4>2, <4>4, <5>1 DEF Published
        <5>2. CASE j # k
          <6>1. running[j] # None => running[j] \in Coros \ {c}
            BY <2>1, <5>2
          <6>2. \/ versions[j] <= sequencer
                \/ running[j] # None /\ pc[running[j]] \in {"rload", "rstore"}
            BY <3>1, <4>4, <5>2 DEF Published
          <6> QED BY <3>1, <5>2, <6>1, <6>2
        <5> QED BY <5>1, <5>2
      <4> QED BY <3>1, <4>3, <4>4 DEF Published
    <3> QED BY <3>2, <3>3
  <2>3. CASE LoadSequencer(k, c)
    <3>1. /\ UNCHANGED <<running, versions, sequencer, rcu_count>>
          /\ pc'[c] = "rstore" /\ global_version'[c] = sequencer
          /\ \A d \in Coros :
               d # c => pc'[d] = pc[d] /\ global_version'[d] = global_version[d]
      BY <2>3 DEF LoadSequencer
    <3>2. \A d \in Coros :
            /\ pc'[d] = "rstore" => global_version'[d] <= sequencer
            /\ pc'[d] \in {"deref", "use"} => versions[Home(d)] <= sequencer
      <4> SUFFICES ASSUME NEW d \in Coros
                   PROVE  /\ pc'[d] = "rstore" => global_version'[d] <= sequencer
                          /\ pc'[d] \in {"deref", "use"} =>
                               versions[Home(d)] <= sequencer
        OBVIOUS
      <4>1. CASE d = c
        BY <3>1, <4>1
      <4>2. CASE d # c
        BY <3>1, <4>2 DEF Published
      <4> QED BY <4>1, <4>2
    <3>3. ASSUME NEW j \in Cores, rcu_count[j] # Refresh - 1
          PROVE  \/ versions[j] <= sequencer
                 \/ running[j] # None /\ pc'[running[j]] \in {"rload", "rstore"}
      <4>1. CASE j = k
        BY <1>0, <2>0, <2>1, <3>1, <3>3, <4>1 DEF Published
      <4>2. CASE j # k
        <5>1. running[j] # None => running[j] \in Coros \ {c}
          BY <2>1, <4>2
        <5>2. \/ versions[j] <= sequencer
              \/ running[j] # None /\ pc[running[j]] \in {"rload", "rstore"}
          BY <3>1, <3>3, <4>2 DEF Published
        <5> QED BY <3>1, <4>2, <5>1, <5>2
      <4> QED BY <4>1, <4>2
    <3> QED BY <3>1, <3>2, <3>3 DEF Published
  <2>4. CASE PublishVersion(k, c)
    <3>1. /\ UNCHANGED <<running, sequencer, rcu_count, global_version>>
          /\ pc[c] = "rstore" /\ pc'[c] = "deref"
          /\ versions'[k] = global_version[c]
          /\ \A j \in Cores : j # k => versions'[j] = versions[j]
          /\ \A d \in Coros : d # c => pc'[d] = pc[d]
      BY <2>4 DEF PublishVersion
    <3>2. versions'[k] <= sequencer
      BY <3>1 DEF Published
    <3>3. \A d \in Coros : pc'[d] \in {"deref", "use"} => versions'[Home(d)] <= sequencer
      BY <1>0, <2>1, <3>1, <3>2 DEF Published
    <3>4. \A d \in Coros : pc'[d] = "rstore" => global_version[d] <= sequencer
      BY <3>1 DEF Published
    <3>5. ASSUME NEW j \in Cores, rcu_count[j] # Refresh - 1
          PROVE  \/ versions'[j] <= sequencer
                 \/ running[j] # None /\ pc'[running[j]] \in {"rload", "rstore"}
      <4>1. CASE j = k
        BY <3>2, <4>1
      <4>2. CASE j # k
        BY <2>1, <3>1, <3>5, <4>2 DEF Published
      <4> QED BY <4>1, <4>2
    <3> QED BY <3>1, <3>3, <3>4, <3>5 DEF Published
  <2>5. CASE FetchAdd(k, c)
    <3>1. /\ UNCHANGED <<running, versions, rcu_count, global_version>>
          /\ pc[c] = "sync" /\ pc'[c] = "scan"
          /\ sequencer' = sequencer + 1
          /\ \A d \in Coros : d # c => pc'[d] = pc[d]
      BY <2>5 DEF FetchAdd
    <3>2. \A n \in Nat : n <= sequencer => n <= sequencer'
      BY <3>1
    <3>3. \A d \in Coros :
            /\ pc'[d] = "rstore" => global_version[d] <= sequencer'
            /\ pc'[d] \in {"deref", "use"} => versions[Home(d)] <= sequencer'
      BY <1>0, <3>1, <3>2 DEF Published
    <3>4. ASSUME NEW j \in Cores, rcu_count[j] # Refresh - 1
          PROVE  \/ versions[j] <= sequencer'
                 \/ running[j] # None /\ pc'[running[j]] \in {"rload", "rstore"}
      BY <3>1, <3>2, <3>4 DEF Published
    <3> QED BY <3>1, <3>3, <3>4 DEF Published
  <2>6. CASE SpinYield(k, c) \/ ScanWait(k, c) \/ TaskReturn(k, c)
    <3>1. /\ UNCHANGED <<sequencer, global_version>>
          /\ pc'[c] \notin {"rload", "rstore", "deref", "use"}
          /\ rcu_count'[k] = Refresh - 1
          /\ \A j \in Cores : j # k => /\ versions'[j] = versions[j]
                                        /\ rcu_count'[j] = rcu_count[j]
                                        /\ running'[j] = running[j]
          /\ \A d \in Coros : d # c => pc'[d] = pc[d]
      BY <2>6
      DEF SpinYield, ScanWait, TaskReturn, Yield, Finish, Return, rcu_offline
    <3>2. \A d \in Coros :
            /\ pc'[d] = "rstore" => global_version[d] <= sequencer
            /\ pc'[d] \in {"deref", "use"} => versions'[Home(d)] <= sequencer
      BY <1>0, <2>1, <3>1 DEF Published
    <3>3. ASSUME NEW j \in Cores, rcu_count'[j] # Refresh - 1
          PROVE  \/ versions'[j] <= sequencer
                 \/ running'[j] # None /\ pc'[running'[j]] \in {"rload", "rstore"}
      <4>1. CASE j = k
        BY <1>0, <2>1, <3>1, <3>3, <4>1 DEF Published
      <4>2. CASE j # k
        <5>1. running[j] # None => running[j] \in Coros \ {c}
          BY <2>1, <4>2
        <5>2. \/ versions[j] <= sequencer
              \/ running[j] # None /\ pc[running[j]] \in {"rload", "rstore"}
          BY <3>1, <3>3, <4>2 DEF Published
        <5> QED BY <3>1, <4>2, <5>1, <5>2
      <4> QED BY <4>1, <4>2
    <3> QED BY <3>1, <3>2, <3>3 DEF Published
  <2>7. ASSUME UNCHANGED <<running, versions, rcu_count, sequencer, global_version>>,
               pc[c] \notin {"rload", "rstore"},
               pc'[c] \notin {"rload", "rstore"},
               pc'[c] \in {"deref", "use"} => pc[c] \in {"deref", "use"},
               \A d \in Coros : d # c => pc'[d] = pc[d]
        PROVE  Published'
    BY <1>0, <2>7 DEF Published
  <2>8. CASE Dereference(k, c) \/ ReadUnlock(k, c) \/ New(k, c) \/ SpinAcquire(k, c)
    BY <2>7, <2>8 DEF Dereference, ReadUnlock, New, SpinAcquire
  <2>9. CASE LoadOld(k, c) \/ AssignPointer(k, c) \/ ScanPass(k, c)
    BY <2>7, <2>9 DEF LoadOld, AssignPointer, ScanPass
  <2>10. CASE ScanEnd(k, c) \/ Delete(k, c) \/ SpinUnlock(k, c)
    BY <2>7, <2>10 DEF ScanEnd, Delete, SpinUnlock
  <2> QED
    BY <1>4, <2>2, <2>3, <2>4, <2>5, <2>6, <2>8, <2>9, <2>10 DEF CoroStep
<1> QED BY <1>2, <1>3, <1>4 DEF Next, CoreStep

-----------------------------------------------------------------------------
(***************************************************************************)
(* The grace period.                                                       *)
(***************************************************************************)

\* What a section works on is gp's object or one that is still protected.
LEMMA ProtectedNext ==
  ASSUME TypeOK, Roles, WriterExclusion, HeapAccounted, Protected, GracePeriod,
         [Next]_vars
  PROVE  Protected'
<1> USE DEF TypeOK
<1>0. \A c \in Coros : Home(c) \in 0 .. num_threads - 1 /\ num_threads \in Nat
  BY HomeType, ReactorAssumption DEF Coros, Cores
<1>1. ASSUME gp' = gp,
             \A r \in Coros : pc'[r] = "use" => pc[r] = "use" /\ p'[r] = p[r],
             \A w \in Writers : pc[w] \in {"sync", "scan"} =>
                pc'[w] \in {"sync", "scan"} /\ q'[w] = q[w]
      PROVE  Protected'
  <2> SUFFICES ASSUME NEW r \in Coros, pc'[r] = "use", p'[r] # gp'
               PROVE  \E w \in Retired' : q'[w] = p'[r] /\ pc'[w] # "delete"
    BY DEF Protected
  <2>1. PICK w \in Retired : q[w] = p[r] /\ pc[w] # "delete"
    BY <1>1 DEF Protected
  <2>2. /\ w \in Writers /\ pc'[w] \in {"sync", "scan"} /\ q'[w] = q[w]
        /\ p'[r] = p[r]
    BY <1>1, <2>1 DEF Retired
  <2>3. w \in Retired'
    BY <2>2 DEF Retired
  <2> QED BY <2>1, <2>2, <2>3
<1>2. CASE SubmitTask \/ (\E k \in Cores : Reactors(k)) \/ Stopped \/ UNCHANGED vars
  <2>1. UNCHANGED <<gp, p, q, pc>>
    BY <1>2, OutsideFrame DEF heapVars, localVars
  <2> QED BY <1>1, <2>1
<1>3. ASSUME NEW k \in Cores, NEW c \in Coros, CoroStep(k, c)
      PROVE  Protected'
  <2> USE DEF Step, heapVars, localVars
  <2>0. Writers \subseteq Coros
    BY RcuAssumption
  <2>1. CASE ReadLock(k, c) \/ LoadSequencer(k, c) \/ PublishVersion(k, c)
    BY <1>1, <2>0, <2>1 DEF ReadLock, LoadSequencer, PublishVersion
  <2>2. CASE Dereference(k, c)
    <3>1. /\ p'[c] = gp /\ gp' = gp /\ q' = q
          /\ pc[c] = "deref" /\ pc'[c] = "use"
          /\ \A d \in Coros : d # c => pc'[d] = pc[d] /\ p'[d] = p[d]
      BY <2>2 DEF Dereference
    <3>2. Retired' = Retired /\ \A w \in Retired : pc'[w] = pc[w]
      BY <2>0, <3>1 DEF Retired
    <3> SUFFICES ASSUME NEW r \in Coros, pc'[r] = "use", p'[r] # gp'
                 PROVE  \E w \in Retired' : q'[w] = p'[r] /\ pc'[w] # "delete"
      BY DEF Protected
    <3>3. r # c /\ pc[r] = "use" /\ p'[r] = p[r] /\ p[r] # gp
      BY <3>1
    <3>4. \E w \in Retired : q[w] = p[r] /\ pc[w] # "delete"
      BY <3>3 DEF Protected
    <3> QED BY <3>1, <3>2, <3>3, <3>4
  <2>3. CASE ReadUnlock(k, c)
    <3>1. c \notin Writers
      BY <2>3 DEF ReadUnlock, Roles
    <3> QED BY <1>1, <2>0, <2>3, <3>1 DEF ReadUnlock
  <2>4. CASE New(k, c)
    BY <1>1, <2>0, <2>4 DEF New
  <2>5. CASE SpinAcquire(k, c) \/ SpinYield(k, c) \/ LoadOld(k, c)
    BY <1>1, <2>0, <2>5 DEF SpinAcquire, SpinYield, LoadOld
  <2>6. CASE AssignPointer(k, c)
    <3>1. /\ c \in Writers /\ q[c] = gp /\ p' = p /\ q' = q
          /\ pc[c] = "assign" /\ pc'[c] = "sync"
          /\ \A d \in Coros : d # c => pc'[d] = pc[d]
      BY <2>6 DEF AssignPointer, Roles, WriterExclusion
    <3> SUFFICES ASSUME NEW r \in Coros, pc'[r] = "use"
                 PROVE  \E w \in Retired' : q[w] = p[r] /\ pc'[w] # "delete"
      BY <3>1 DEF Protected
    <3>2. pc[r] = "use"
      BY <3>1
    <3>3. CASE p[r] = gp
      <4>1. c \in Retired' /\ q[c] = p[r] /\ pc'[c] # "delete"
        BY <3>1, <3>3 DEF Retired
      <4> QED BY <4>1
    <3>4. CASE p[r] # gp
      <4>1. PICK w \in Retired : q[w] = p[r] /\ pc[w] # "delete"
        BY <3>2, <3>4 DEF Protected
      <4>2. w \in Writers /\ w # c /\ pc'[w] = pc[w]
        BY <2>0, <3>1, <4>1 DEF Retired
      <4>3. w \in Retired'
        BY <4>1, <4>2 DEF Retired
      <4> QED BY <4>1, <4>2, <4>3
    <3> QED BY <3>3, <3>4
  <2>7. CASE FetchAdd(k, c) \/ ScanPass(k, c) \/ ScanWait(k, c)
    BY <1>1, <2>0, <2>7 DEF FetchAdd, ScanPass, ScanWait
  <2>8. CASE ScanEnd(k, c)
    <3>1. /\ pc[c] = "scan" /\ i[c] = num_threads
          /\ gp' = gp /\ p' = p /\ q' = q
          /\ c \notin Writers => pc'[c] = "loop"
          /\ c \in Writers => pc'[c] = "delete"
          /\ \A d \in Coros : d # c => pc'[d] = pc[d]
      BY <2>8 DEF ScanEnd
    <3>2. c \in Writers => \A r \in Coros : pc[r] = "use" => p[r] # q[c]
      BY <1>0, <3>1 DEF GracePeriod
    <3> SUFFICES ASSUME NEW r \in Coros, pc'[r] = "use", p[r] # gp
                 PROVE  \E w \in Retired' : q[w] = p[r] /\ pc'[w] # "delete"
      BY <3>1 DEF Protected
    <3>3. pc[r] = "use"
      BY <3>1
    <3>4. PICK w \in Retired : q[w] = p[r] /\ pc[w] # "delete"
      BY <3>3 DEF Protected
    <3>5. w \in Writers /\ w # c
      BY <3>2, <3>3, <3>4 DEF Retired
    <3>6. pc'[w] = pc[w] /\ w \in Retired'
      BY <2>0, <3>1, <3>4, <3>5 DEF Retired
    <3> QED BY <3>4, <3>6
  <2>9. CASE Delete(k, c) \/ SpinUnlock(k, c) \/ TaskReturn(k, c)
    BY <1>1, <2>0, <2>9 DEF Delete, SpinUnlock, TaskReturn
  <2> QED
    BY <1>3, <2>1, <2>2, <2>3, <2>4, <2>5, <2>6, <2>7, <2>8, <2>9 DEF CoroStep
<1> QED BY <1>2, <1>3 DEF Next, CoreStep

\* A grace period that a writer of W waits for does not pass a core that still
\* works on its object.
GraceOf(W) ==
  \A r \in Coros, w \in W :
    pc[r] = "use" /\ pc[w] = "scan" /\ q[w] = p[r] =>
      /\ Home(r) # current_core[w]
      /\ versions[Home(r)] < writer_version[w]
      /\ i[w] <= Home(r)

\* A section that works on an object began before the object's grace period.
LEMMA GraceNext ==
  ASSUME TypeOK, Placed, Roles, Published, NEW W \in SUBSET Writers, GraceOf(W),
         \A w \in W : pc[w] = "scan" => q[w] # gp, [Next]_vars
  PROVE  GraceOf(W)'
<1> USE DEF TypeOK, ReactorTypeOK
<1>0. /\ \A c \in Coros : Home(c) \in Cores /\ Home(c) \in Nat
      /\ W \subseteq Coros
      /\ num_threads \in Nat
  <2>1. Coros \subseteq Nat /\ Cores \subseteq Nat
    BY ReactorAssumption DEF Coros, Cores
  <2>2. \A c \in Coros : Home(c) \in Cores
    BY <2>1, HomeType
  <2> QED BY <2>1, <2>2, ReactorAssumption, RcuAssumption
<1>1. ASSUME \A r \in Coros : pc'[r] = "use" =>
               pc[r] = "use" /\ p'[r] = p[r] /\ versions'[Home(r)] = versions[Home(r)],
             \A w \in W : pc'[w] = "scan" =>
               /\ pc[w] = "scan" /\ q'[w] = q[w] /\ i'[w] = i[w]
               /\ current_core'[w] = current_core[w]
               /\ writer_version'[w] = writer_version[w]
      PROVE  GraceOf(W)'
  <2> SUFFICES ASSUME NEW r \in Coros, NEW w \in W,
                      pc'[r] = "use", pc'[w] = "scan", q'[w] = p'[r]
               PROVE  /\ Home(r) # current_core'[w]
                      /\ versions'[Home(r)] < writer_version'[w]
                      /\ i'[w] <= Home(r)
    BY DEF GraceOf
  <2>1. pc[r] = "use" /\ pc[w] = "scan" /\ q[w] = p[r]
    BY <1>1
  <2>2. /\ Home(r) # current_core[w]
        /\ versions[Home(r)] < writer_version[w]
        /\ i[w] <= Home(r)
    BY <2>1 DEF GraceOf
  <2> QED BY <1>1, <2>2
<1>2. CASE SubmitTask \/ (\E k \in Cores : Reactors(k)) \/ Stopped \/ UNCHANGED vars
  <2>1. UNCHANGED <<p, q, pc, i, current_core, writer_version, versions>>
    BY <1>2, OutsideFrame
    DEF localVars, SubmitTask, Submit, Reactors, Dispatch, Stopped, vars,
        reactorVars, rcuVars
  <2> QED BY <1>1, <2>1
<1>3. ASSUME NEW k \in Cores, NEW c \in Coros, CoroStep(k, c)
      PROVE  GraceOf(W)'
  <2> USE DEF Step, reactorVars, stackVars, rcuVars, heapVars, localVars
  <2>0. Executes(k, c)
    BY <1>3
    DEF CoroStep, ReadLock, LoadSequencer, PublishVersion, Dereference,
        ReadUnlock, New, SpinAcquire, SpinYield, LoadOld, AssignPointer,
        FetchAdd, ScanPass, ScanWait, ScanEnd, Delete, SpinUnlock, TaskReturn
  <2>1. /\ Home(c) = k
        /\ \A d \in Coros :
             d # c /\ pc[d] \notin {"loop", "lock", "scan", "done"} => Home(d) # k
    BY <2>0, SoleRunner
  <2>2. CASE ReadLock(k, c) \/ LoadSequencer(k, c)
    BY <1>0, <1>1, <2>2 DEF ReadLock, LoadSequencer
  <2>3. CASE PublishVersion(k, c)
    BY <1>0, <1>1, <2>1, <2>3 DEF PublishVersion
  <2>4. CASE Dereference(k, c)
    <3>1. /\ p'[c] = gp /\ pc[c] = "deref"
          /\ UNCHANGED <<q, i, current_core, writer_version, versions>>
          /\ \A d \in Coros : d # c => pc'[d] = pc[d] /\ p'[d] = p[d]
      BY <2>4 DEF Dereference
    <3>2. \A w \in W : pc'[w] = "scan" => pc[w] = "scan" /\ q[w] # gp
      <4>1. c \notin Writers
        BY <2>4 DEF Dereference, Roles
      <4> QED BY <1>0, <3>1, <4>1
    <3> SUFFICES ASSUME NEW r \in Coros, NEW w \in W,
                        pc'[r] = "use", pc'[w] = "scan", q[w] = p'[r]
                 PROVE  /\ Home(r) # current_core[w]
                        /\ versions[Home(r)] < writer_version[w]
                        /\ i[w] <= Home(r)
      BY <3>1 DEF GraceOf
    <3>3. r # c
      BY <3>1, <3>2
    <3>4. pc[r] = "use" /\ p'[r] = p[r] /\ pc[w] = "scan"
      BY <3>1, <3>2, <3>3
    <3> QED BY <3>4 DEF GraceOf
  <2>5. CASE ReadUnlock(k, c)
    BY <1>0, <1>1, <2>5 DEF ReadUnlock
  <2>6. CASE New(k, c) \/ SpinAcquire(k, c)
    BY <1>0, <1>1, <2>6 DEF New, SpinAcquire
  <2>7. CASE LoadOld(k, c) \/ AssignPointer(k, c)
    BY <1>0, <1>1, <2>7 DEF LoadOld, AssignPointer
  <2>8. CASE SpinYield(k, c) \/ ScanWait(k, c) \/ TaskReturn(k, c)
    <3>1. /\ UNCHANGED <<p, q, i, current_core, writer_version>>
          /\ pc[c] # "use" /\ pc'[c] # "use"
          /\ pc'[c] = "scan" => pc[c] = "scan"
          /\ \A j \in Cores : j # k => versions'[j] = versions[j]
          /\ \A d \in Coros : d # c => pc'[d] = pc[d]
      BY <2>8 DEF SpinYield, ScanWait, TaskReturn, Yield, Finish, rcu_offline
    <3> QED BY <1>0, <1>1, <2>1, <3>1
  <2>9. CASE FetchAdd(k, c)
    <3>1. /\ UNCHANGED <<p, q, versions>>
          /\ pc[c] = "sync" /\ pc'[c] = "scan"
          /\ writer_version'[c] = sequencer + 1
          /\ current_core'[c] = k /\ i'[c] = 0
          /\ \A d \in Coros : d # c =>
               /\ pc'[d] = pc[d] /\ i'[d] = i[d]
               /\ writer_version'[d] = writer_version[d]
               /\ current_core'[d] = current_core[d]
      BY <2>9 DEF FetchAdd
    <3> SUFFICES ASSUME NEW r \in Coros, NEW w \in W,
                        pc'[r] = "use", pc'[w] = "scan", q[w] = p[r]
                 PROVE  /\ Home(r) # current_core'[w]
                        /\ versions[Home(r)] < writer_version'[w]
                        /\ i'[w] <= Home(r)
      BY <3>1 DEF GraceOf
    <3>2. pc[r] = "use" /\ r # c
      BY <3>1
    <3>3. CASE w = c
      <4>1. Home(r) # k
        BY <2>1, <3>2
      <4>2. versions[Home(r)] <= sequencer
        BY <3>2 DEF Published
      <4>3. versions[Home(r)] < sequencer + 1
        <5>1. PICK v \in Nat, s \in Nat : v = versions[Home(r)] /\ s = sequencer
          BY <1>0
        <5>2. v <= s
          BY <4>2, <5>1, Zenon
        <5>3. v < s + 1
          BY <5>2
        <5> QED BY <5>1, <5>3, Zenon
      <4>4. 0 <= Home(r)
        BY <1>0
      <4> QED BY <3>1, <3>3, <4>1, <4>3, <4>4, Zenon
    <3>4. CASE w # c
      BY <1>0, <3>1, <3>2, <3>4 DEF GraceOf
    <3> QED BY <3>3, <3>4
  <2>10. CASE ScanPass(k, c)
    <3>1. /\ UNCHANGED <<p, q, versions, current_core, writer_version>>
          /\ pc[c] = "scan" /\ pc' = pc /\ i'[c] = i[c] + 1
          /\ i[c] = current_core[c] \/ writer_version[c] <= versions[i[c]]
          /\ \A d \in Coros : d # c => i'[d] = i[d]
      BY <2>10 DEF ScanPass
    <3> SUFFICES ASSUME NEW r \in Coros, NEW w \in W,
                        pc[r] = "use", pc[w] = "scan", q[w] = p[r]
                 PROVE  i'[w] <= Home(r)
      BY <3>1 DEF GraceOf
    <3>2. /\ Home(r) # current_core[w]
          /\ versions[Home(r)] < writer_version[w]
          /\ i[w] <= Home(r)
      BY DEF GraceOf
    <3>3. CASE w = c
      <4>0. /\ Home(r) # current_core[c]
            /\ versions[Home(r)] < writer_version[c]
            /\ i[c] <= Home(r)
        BY <3>2, <3>3, Zenon
      <4>1. i[c] # Home(r)
        <5>1. PICK v \in Nat, s \in Nat :
                v = versions[Home(r)] /\ s = writer_version[c]
          BY <1>0
        <5>2. v < s
          BY <4>0, <5>1, Zenon
        <5>3. ~(s <= v)
          BY <5>2
        <5>4. ~(writer_version[c] <= versions[Home(r)])
          BY <5>1, <5>3, Zenon
        <5> QED BY <3>1, <4>0, <5>4, Zenon
      <4>2. PICK a \in Nat, b \in Nat : a = i[c] /\ b = Home(r)
        <5>1. i[c] \in 0 .. num_threads
          OBVIOUS
        <5>2. i[c] \in Nat
          <6> HIDE DEF TypeOK, ReactorTypeOK
          <6> QED BY <5>1, ReactorAssumption
        <5>3. Home(r) \in Nat
          BY <1>0
        <5> QED BY <5>2, <5>3, Zenon
      <4>3. a <= b /\ a # b
        BY <4>0, <4>1, <4>2, Zenon
      <4>4. a + 1 <= b
        BY <4>3
      <4> QED BY <3>1, <3>3, <4>2, <4>4, Zenon
    <3>4. CASE w # c
      BY <1>0, <3>1, <3>2, <3>4
    <3> QED BY <3>3, <3>4
  <2>11. CASE ScanEnd(k, c) \/ Delete(k, c) \/ SpinUnlock(k, c)
    BY <1>0, <1>1, <2>11 DEF ScanEnd, Delete, SpinUnlock
  <2> QED
    BY <1>3, <2>2, <2>3, <2>4, <2>5, <2>6, <2>7, <2>8, <2>9, <2>10, <2>11
    DEF CoroStep
<1> QED BY <1>2, <1>3 DEF Next, CoreStep

\* All writers wait for grace periods here.
LEMMA GracePeriodNext ==
  ASSUME TypeOK, Placed, Roles, Published, HeapAccounted, GracePeriod, [Next]_vars
  PROVE  GracePeriod'
<1>1. GraceOf(Writers) /\ \A w \in Writers : pc[w] = "scan" => q[w] # gp
  BY DEF GracePeriod, GraceOf, HeapAccounted, Retired
<1>2. GraceOf(Writers)'
  BY <1>1, GraceNext
<1> QED BY <1>2 DEF GracePeriod, GraceOf

-----------------------------------------------------------------------------
(***************************************************************************)
(* The theorem.                                                            *)
(***************************************************************************)

\* Nothing runs, nothing is locked and only the first object exists at first.
LEMMA RcuInvInit == Init => RcuInv
<1> SUFFICES ASSUME Init PROVE RcuInv
  OBVIOUS
<1> USE DEF Init, ReactorInit
<1>1. \A c \in Coros : pc[c] = "loop"
  OBVIOUS
<1>2. Placed
  <2>1. \A k \in Cores : Len(inbox[k]) = 0
    BY EmptySeq
  <2> QED BY <1>1, <2>1 DEF Placed
<1>3. Roles /\ WriterExclusion /\ Published
  BY <1>1 DEF Roles, WriterExclusion, Holds, Published
<1>4. HeapAccounted
  <2>1. Fresh = {} /\ Retired = {}
    BY <1>1, RcuAssumption DEF Fresh, Retired
  <2> QED BY <2>1 DEF HeapAccounted
<1>5. Protected /\ GracePeriod
  BY <1>1 DEF Protected, GracePeriod
<1> QED BY <1>2, <1>3, <1>4, <1>5 DEF RcuInv

\* The invariant is inductive.
LEMMA RcuInvariance == Spec => [](TypeOK /\ RcuInv)
<1>1. Init => TypeOK /\ RcuInv
  BY TypeInit, RcuInvInit
<1>2. TypeOK /\ RcuInv /\ [Next]_vars => (TypeOK /\ RcuInv)'
  BY TypeNext, PlacedNext, RolesNext, WriterExclusionNext, PublishedNext,
     HeapAccountedNext, ProtectedNext, GracePeriodNext DEF RcuInv
<1> QED
  BY <1>1, <1>2, PTL DEF Spec

\* synchronize_rcu() waits long enough: no object is deleted while a read
\* section works on it, for any number of cores, tasks and rounds and any
\* number of sections per version refresh.
THEOREM RcuSafe == Spec => []NoUseAfterFree
<1>1. TypeOK /\ RcuInv => NoUseAfterFree
  <2> SUFFICES ASSUME TypeOK, RcuInv PROVE NoUseAfterFree
    OBVIOUS
  <2>1. gp \in allocated /\ \A w \in Retired : q[w] \in allocated
    BY DEF RcuInv, HeapAccounted
  <2> QED BY <2>1 DEF RcuInv, Protected, NoUseAfterFree
<1> QED
  BY <1>1, RcuInvariance, PTL

\* Writers neither leak an object nor free one twice.
THEOREM HeapSafe == Spec => []HeapAccounted
<1>1. RcuInv => HeapAccounted
  BY DEF RcuInv
<1> QED
  BY <1>1, RcuInvariance, PTL

-----------------------------------------------------------------------------
(***************************************************************************)
(* PART TWO.  Deferred reclamation with free_rcu() (module CallRcu) is as  *)
(* safe as synchronize_rcu(), for any threshold, as long as the rcu_head of *)
(* a new object has a null next pointer.                                   *)
(***************************************************************************)

\* What the lists hold is typed, and a scan looks at the other cores.
CallTypeOK ==
  /\ CTypeOK
  /\ callbacks \in [Cores -> Seq(Objects)]
  /\ \A c \in Deferrers : pc[c] = "scan" => current_core[c] = Home(c)

\* Objects that are reachable, not yet published or about to be handed over.
Owned(o) ==
  \/ o = gp
  \/ \E c \in Fresh : o = p[c]
  \/ \E c \in Retiring : o = q[c]

\* Every allocated object is owned or in one list, and owned once.
OwnedOnce ==
  /\ \A o \in Objects : o \in allocated <=> Owned(o) \/ o \in Staged
  /\ \A o \in Objects : ~(Owned(o) /\ o \in Staged)
  /\ \A c \in Fresh : p[c] # gp /\ \A d \in Fresh : p[d] = p[c] => d = c
  /\ \A c \in Retiring : q[c] # gp
  /\ \A c \in Fresh, d \in Retiring : p[c] # q[d]

\* The lists do not share nodes and end with a null pointer, as will the nodes
\* still to come; and no stamp is newer than the sequencer.
Lists ==
  /\ \A k \in Cores : IsInjective(callbacks[k])
  /\ \A j, k \in Cores : j # k => Range(callbacks[j]) \cap Range(callbacks[k]) = {}
  /\ ListIntact
  /\ \A k \in Cores : callbacks[k] # <<>> => next[Last(callbacks[k])] = Null
  /\ \A o \in Objects : Owned(o) => next[o] = Null
  /\ \A o \in Objects : version[o] <= sequencer

\* A thread that frees nodes is at the head of its list.
AtHead ==
  \A c \in Deferrers : pc[c] = "delete" => node[c] = rcu_data[Home(c)].head

\* A section works on the current object, on one whose grace period is not
\* over, or on one that is in a list.
CProtected ==
  \A r \in Coros : pc[r] = "use" =>
    \/ p[r] = gp
    \/ \E w \in Retiring : q[w] = p[r] /\ pc[w] # "delete"
    \/ p[r] \in Staged

\* GracePeriod of module Rcu, for the writers that wait.
CGracePeriod == GraceOf(Writers \ Deferrers)

\* A listed object that a section works on was stamped with a later version
\* than the section's core has published, and a scan that has passed that core
\* has noticed.
StagedGrace ==
  \A r \in Coros, k \in Cores :
    pc[r] = "use" /\ p[r] \in Range(callbacks[k]) =>
      /\ Home(r) # k
      /\ versions[Home(r)] < version[p[r]]

ScanGrace ==
  \A r \in Coros, c \in Deferrers :
    /\ pc[r] = "use" /\ p[r] \in Range(callbacks[Home(c)])
    /\ pc[c] = "delete" \/ (pc[c] = "scan" /\ Home(r) < i[c])
    => min_version[c] < version[p[r]]

\* The inductive invariant.
CallInv ==
  /\ CallTypeOK
  /\ Placed /\ Roles /\ WriterExclusion /\ Published
  /\ OwnedOnce /\ Lists /\ AtHead
  /\ CProtected /\ CGracePeriod /\ StagedGrace /\ ScanGrace

-----------------------------------------------------------------------------
(***************************************************************************)
(* The steps of call_rcu() and thread_call_rcu().                          *)
(***************************************************************************)
ListStep(k, c) ==
  \/ call_rcu(k, c) \/ LoadVersion(k, c) \/ LoadHead(k, c)
  \/ FreeNode(k, c) \/ LeaveLoop(k, c)

\* Steps in which no task runs.
Outside == SubmitTask \/ (\E k \in Cores : Reactors(k)) \/ Stopped \/ UNCHANGED vars

\* Every step is one of module Rcu, which leaves the lists alone except for an
\* allocation, or a step on the lists.
LEMMA StepKinds ==
  ASSUME [CNext]_cvars
  PROVE  \/ Outside /\ UNCHANGED callVars
         \/ \E k \in Cores, c \in Coros :
              RcuStep(k, c) \/ Alloc(k, c) \/ ListStep(k, c)
BY DEF CNext, CCoreStep, CCoroStep, ListStep, Outside, cvars

\* Where no task runs, the step is one of module Rcu.
LEMMA OutsideIsNext ==
  ASSUME Outside
  PROVE  [Next]_vars
BY DEF Outside, Next, CoreStep

\* A task of module Rcu takes that module's step.
LEMMA RcuStepIsNext ==
  ASSUME NEW k \in Cores, NEW c \in Coros, RcuStep(k, c)
  PROVE  CoroStep(k, c) /\ Next /\ UNCHANGED callVars
<1>1. CoroStep(k, c) /\ UNCHANGED callVars
  BY DEF RcuStep, CoroStep
<1> QED BY <1>1 DEF Next, CoreStep

\* An allocation is New of module Rcu.
LEMMA AllocIsNext ==
  ASSUME NEW k \in Cores, NEW c \in Coros, Alloc(k, c)
  PROVE  Next
BY DEF Alloc, CoroStep, Next, CoreStep

\* What the list steps have in common: a deferring writer moves on inside its
\* critical section and changes neither pointers nor its core.
LEMMA ListStepFrame ==
  ASSUME TypeOK, NEW k \in Cores, NEW c \in Coros, ListStep(k, c)
  PROVE  /\ c \in Deferrers /\ c \in Writers /\ Executes(k, c)
         /\ pc[c] \in {"sync", "scan", "delete"}
         /\ pc'[c] \in {"scan", "delete", "unlock"}
         /\ pc' = [pc EXCEPT ![c] = pc'[c]]
         /\ \A d \in Coros : d # c => pc'[d] = pc[d]
         /\ UNCHANGED <<submitted, inbox, running, resumer, suspending, versions, rcu_count>>
         /\ UNCHANGED <<gp, locked, round, p, q, global_version, writer_version>>
         /\ sequencer' = sequencer \/ sequencer' = sequencer + 1
<1> USE DEF Step, reactorVars, heapVars, localVars, TypeOK
<1>0. Deferrers \subseteq Writers
  BY CallRcuAssumption
<1>1. CASE call_rcu(k, c)
  BY <1>0, <1>1 DEF call_rcu
<1>2. CASE LoadVersion(k, c)
  BY <1>0, <1>2 DEF LoadVersion
<1>3. CASE LoadHead(k, c)
  BY <1>0, <1>3 DEF LoadHead
<1>4. CASE FreeNode(k, c)
  BY <1>0, <1>4 DEF FreeNode
<1>5. CASE LeaveLoop(k, c)
  BY <1>0, <1>5 DEF LeaveLoop
<1> QED BY <1>1, <1>2, <1>3, <1>4, <1>5 DEF ListStep

\* The list steps keep what module Rcu's steps keep.
LEMMA ListStepBase ==
  ASSUME CallInv, NEW k \in Cores, NEW c \in Coros, ListStep(k, c)
  PROVE  Placed' /\ Roles' /\ WriterExclusion' /\ Published'
<1> USE DEF CallInv, CallTypeOK, CTypeOK
<1>1. /\ c \in Deferrers /\ c \in Writers /\ Executes(k, c)
      /\ pc[c] \in {"sync", "scan", "delete"}
      /\ pc'[c] \in {"scan", "delete", "unlock"}
      /\ pc' = [pc EXCEPT ![c] = pc'[c]]
      /\ \A d \in Coros : d # c => pc'[d] = pc[d]
      /\ UNCHANGED <<submitted, inbox, running, resumer, suspending, versions, rcu_count>>
      /\ UNCHANGED <<gp, locked, round, p, q, global_version, writer_version>>
      /\ sequencer' = sequencer \/ sequencer' = sequencer + 1
  BY ListStepFrame
<1>2. Placed'
  <2>1. StaysOnCore(k, c)
    BY <1>1 DEF StaysOnCore, PcValues
  <2> QED BY <2>1, PlacedStays
<1>3. Roles'
  BY <1>1 DEF Roles
<1>4. WriterExclusion'
  <2>1. \A d \in Coros : (Holds(d))' <=> Holds(d)
    BY <1>1 DEF Holds
  <2> QED BY <1>1, <2>1 DEF WriterExclusion
<1>5. Published'
  <2>1. sequencer \in Nat /\ \A n \in Nat : n <= sequencer => n <= sequencer'
    BY <1>1 DEF TypeOK
  <2>2. \A d \in Coros : Home(d) \in Cores
    BY HomeType, ReactorAssumption DEF Coros
  <2>3. \A d \in Coros :
          /\ pc'[d] = "rstore" => global_version'[d] <= sequencer'
          /\ pc'[d] \in {"deref", "use"} => versions'[Home(d)] <= sequencer'
    BY <1>1, <2>1, <2>2 DEF Published, TypeOK, ReactorTypeOK
  <2>4. ASSUME NEW j \in Cores, rcu_count'[j] # Refresh - 1
        PROVE  \/ versions'[j] <= sequencer'
               \/ running'[j] # None /\ pc'[running'[j]] \in {"rload", "rstore"}
    <3>1. \/ versions[j] <= sequencer
          \/ running[j] # None /\ pc[running[j]] \in {"rload", "rstore"}
      BY <1>1, <2>4 DEF Published
    <3>2. running[j] # None => running[j] \in Coros
      BY DEF TypeOK, ReactorTypeOK
    <3>3. versions[j] \in Nat
      BY DEF TypeOK, ReactorTypeOK
    <3> QED BY <1>1, <2>1, <3>1, <3>2, <3>3
  <2> QED BY <2>3, <2>4 DEF Published
<1> QED BY <1>2, <1>3, <1>4, <1>5

\* Every step keeps what module Rcu's steps keep.
LEMMA BaseNext ==
  ASSUME CallInv, [CNext]_cvars
  PROVE  Placed' /\ Roles' /\ WriterExclusion' /\ Published'
<1> USE DEF CallInv, CallTypeOK, CTypeOK
<1>1. CASE [Next]_vars
  BY <1>1, PlacedNext, RolesNext, WriterExclusionNext, PublishedNext
<1>2. ASSUME NEW k \in Cores, NEW c \in Coros, ListStep(k, c)
      PROVE  Placed' /\ Roles' /\ WriterExclusion' /\ Published'
  BY <1>2, ListStepBase
<1> QED BY <1>1, <1>2, StepKinds, AllocIsNext, OutsideIsNext, RcuStepIsNext

-----------------------------------------------------------------------------
(***************************************************************************)
(* What the steps leave alone.                                             *)
(***************************************************************************)

\* A reclaiming task is not touched by the steps of module Rcu.
LEMMA DeferrerFrame ==
  ASSUME CallInv,
         \/ Outside
         \/ \E k \in Cores, c \in Coros : RcuStep(k, c) \/ Alloc(k, c)
  PROVE  \A d \in Deferrers : pc'[d] \in {"scan", "delete"} =>
           pc'[d] = pc[d] /\ i'[d] = i[d] /\ current_core'[d] = current_core[d]
<1> USE DEF CallInv, CallTypeOK, CTypeOK
<1>0. Deferrers \subseteq Writers /\ Deferrers \subseteq Coros
  BY CallRcuAssumption, RcuAssumption
<1>1. CASE Outside
  BY <1>1, OutsideFrame DEF Outside, localVars
<1>2. ASSUME NEW k \in Cores, NEW c \in Coros, RcuStep(k, c) \/ Alloc(k, c)
      PROVE  \A d \in Deferrers : pc'[d] \in {"scan", "delete"} =>
               pc'[d] = pc[d] /\ i'[d] = i[d] /\ current_core'[d] = current_core[d]
  <2> USE <1>0 DEF Step, TypeOK, localVars
  <2>1. CASE \/ ReadLock(k, c) \/ LoadSequencer(k, c) \/ PublishVersion(k, c)
             \/ Dereference(k, c) \/ ReadUnlock(k, c)
    BY <2>1 DEF ReadLock, LoadSequencer, PublishVersion, Dereference, ReadUnlock
  <2>2. CASE \/ New(k, c) \/ SpinAcquire(k, c) \/ SpinYield(k, c)
             \/ LoadOld(k, c) \/ AssignPointer(k, c)
             \/ SpinUnlock(k, c) \/ TaskReturn(k, c)
    BY <2>2 DEF New, SpinAcquire, SpinYield, LoadOld, AssignPointer, SpinUnlock,
                TaskReturn
  <2>3. CASE /\ c \notin Deferrers
             /\ \/ FetchAdd(k, c) \/ ScanPass(k, c) \/ ScanWait(k, c)
                \/ ScanEnd(k, c) \/ Delete(k, c)
    BY <2>3 DEF FetchAdd, ScanPass, ScanWait, ScanEnd, Delete
  <2> QED BY <1>2, <2>1, <2>2, <2>3 DEF RcuStep, Alloc
<1> QED BY <1>1, <1>2

\* Types, and where a scan starts.
LEMMA CallTypeNext ==
  ASSUME CallInv, [CNext]_cvars
  PROVE  CallTypeOK'
<1> USE DEF CallInv, CallTypeOK, CTypeOK
<1>0. Deferrers \subseteq Writers /\ Deferrers \subseteq Coros /\ UINT_MAX \in Nat
  BY CallRcuAssumption, RcuAssumption
<1>1. CASE Outside /\ UNCHANGED callVars
  BY <1>1, TypeNext, OutsideIsNext, DeferrerFrame DEF callVars
<1>2. ASSUME NEW k \in Cores, NEW c \in Coros, RcuStep(k, c)
      PROVE  CallTypeOK'
  BY <1>2, TypeNext, RcuStepIsNext, DeferrerFrame DEF callVars
<1>3. ASSUME NEW k \in Cores, NEW c \in Coros, Alloc(k, c)
      PROVE  CallTypeOK'
  <2>1. TypeOK'
    BY <1>3, TypeNext, AllocIsNext
  <2>2. next' \in [Objects -> Nodes]
    BY <1>3, <2>1 DEF Alloc, Nodes
  <2> QED BY <1>3, <2>1, <2>2, DeferrerFrame DEF Alloc
<1>4. ASSUME NEW k \in Cores, NEW c \in Coros, ListStep(k, c)
      PROVE  CallTypeOK'
  <2>1. /\ Executes(k, c) /\ c \in Deferrers
        /\ pc' \in [Coros -> PcValues]
        /\ UNCHANGED <<submitted, inbox, running, resumer, suspending, versions, rcu_count>>
        /\ UNCHANGED <<gp, locked, round, p, q, global_version, writer_version>>
        /\ sequencer' \in Nat
        /\ \A d \in Coros : d # c => pc'[d] = pc[d]
    <3>1. /\ Executes(k, c) /\ c \in Deferrers
          /\ pc'[c] \in {"scan", "delete", "unlock"}
          /\ pc' = [pc EXCEPT ![c] = pc'[c]]
          /\ \A d \in Coros : d # c => pc'[d] = pc[d]
          /\ UNCHANGED <<submitted, inbox, running, resumer, suspending, versions, rcu_count>>
          /\ UNCHANGED <<gp, locked, round, p, q, global_version, writer_version>>
          /\ sequencer' = sequencer \/ sequencer' = sequencer + 1
      BY <1>4, ListStepFrame
    <3>2. pc'[c] \in PcValues
      BY <3>1 DEF PcValues
    <3>3. pc' \in [Coros -> PcValues]
      BY <3>1, <3>2 DEF TypeOK
    <3>4. sequencer' \in Nat
      BY <3>1 DEF TypeOK
    <3> QED BY <3>1, <3>3, <3>4
  <2>2. Home(c) = k
    BY <2>1, RunsAtHome
  <2>3. ReactorTypeOK'
    BY <2>1 DEF TypeOK, ReactorTypeOK
  <2>4. ASSUME allocated' \subseteq Objects, current_core' \in [Coros -> Cores],
               i' \in [Coros -> 0 .. num_threads]
        PROVE  TypeOK'
    BY <2>1, <2>3, <2>4 DEF TypeOK
  <2> USE DEF Step, localVars, heapVars
  <2>5. CASE call_rcu(k, c)
    <3>1. q[c] \in Objects /\ callbacks[k] \in Seq(Objects)
      BY DEF TypeOK
    <3>2. callbacks' \in [Cores -> Seq(Objects)]
      BY <2>5, <3>1, AppendProperties DEF call_rcu
    <3>3. TypeOK'
      <4>1. 0 \in 0 .. num_threads
        BY ReactorAssumption
      <4>2. current_core' \in [Coros -> Cores] /\ i' \in [Coros -> 0 .. num_threads]
        BY <2>5, <4>1 DEF call_rcu, TypeOK
      <4> QED BY <2>4, <2>5, <4>2 DEF call_rcu, TypeOK
    <3>4. version' \in [Objects -> Nat] /\ min_version' \in [Coros -> 0 .. UINT_MAX]
      <4>1. UINT_MAX \in 0 .. UINT_MAX
        BY <1>0
      <4>2. sequencer + 1 \in Nat
        BY DEF TypeOK
      <4> QED BY <2>5, <3>1, <4>1, <4>2 DEF call_rcu
    <3>5. next' \in [Objects -> Nodes]
      BY <2>5, <3>1 DEF call_rcu, Enqueue, Nodes
    <3>6. rcu_data' \in [Cores -> [head : Nodes, tail : Nodes, count : Nat]]
      <4>1. rcu_data[k] \in [head : Nodes, tail : Nodes, count : Nat]
        OBVIOUS
      <4>2. q[c] \in Nodes
        BY <3>1 DEF Nodes
      <4> QED BY <2>5, <4>1, <4>2 DEF call_rcu, Enqueue
    <3>7. \A d \in Deferrers : pc'[d] = "scan" => current_core'[d] = Home(d)
      BY <1>0, <2>1, <2>2, <2>5 DEF call_rcu, TypeOK
    <3> QED BY <2>5, <3>2, <3>3, <3>4, <3>5, <3>6, <3>7 DEF call_rcu
  <2>6. CASE LoadVersion(k, c)
    <3>1. i[c] + 1 \in 0 .. num_threads /\ i[c] \in Cores
      <4>1. i[c] \in 0 .. num_threads /\ i[c] < num_threads /\ num_threads \in Nat
        BY <2>6, ReactorAssumption DEF LoadVersion, TypeOK
      <4> QED BY <4>1 DEF Cores
    <3>2. TypeOK'
      BY <2>4, <2>6, <3>1 DEF LoadVersion, TypeOK
    <3>3. versions[i[c]] < min_version[c] => versions[i[c]] \in 0 .. UINT_MAX
      <4>1. versions[i[c]] \in Nat /\ min_version[c] \in 0 .. UINT_MAX
        BY <3>1 DEF TypeOK, ReactorTypeOK
      <4> QED BY <1>0, <4>1
    <3>4. min_version' \in [Coros -> 0 .. UINT_MAX]
      BY <2>6, <3>3 DEF LoadVersion
    <3> QED BY <1>0, <2>1, <2>6, <3>2, <3>4 DEF LoadVersion
  <2>7. CASE LoadHead(k, c)
    BY <1>0, <2>1, <2>4, <2>7 DEF LoadHead, TypeOK
  <2>8. CASE FreeNode(k, c)
    <3>1. node[c] \in Objects /\ next[node[c]] \in Nodes
      BY <2>8 DEF FreeNode, Nodes
    <3>2. TypeOK'
      BY <2>4, <2>8 DEF FreeNode, TypeOK
    <3>3. callbacks' \in [Cores -> Seq(Objects)]
      <4>1. callbacks[k] # <<>> => Tail(callbacks[k]) \in Seq(Objects)
        BY HeadTailProperties
      <4> QED BY <2>8, <4>1 DEF FreeNode
    <3>4. rcu_data' \in [Cores -> [head : Nodes, tail : Nodes, count : Nat]]
      <4>1. rcu_data[k] \in [head : Nodes, tail : Nodes, count : Nat]
        OBVIOUS
      <4>2. Null \in Nodes
        BY DEF Nodes
      <4> QED BY <2>8, <3>1, <4>1, <4>2 DEF FreeNode
    <3>5. node' \in [Coros -> Nodes]
      BY <2>8, <3>1 DEF FreeNode
    <3> QED BY <1>0, <2>1, <2>8, <3>2, <3>3, <3>4, <3>5 DEF FreeNode
  <2>9. CASE LeaveLoop(k, c)
    <3>1. node' \in [Coros -> Nodes]
      BY <2>9 DEF LeaveLoop, Nodes
    <3> QED BY <1>0, <2>1, <2>4, <2>9, <3>1 DEF LeaveLoop, TypeOK
  <2> QED BY <1>4, <2>5, <2>6, <2>7, <2>8, <2>9 DEF ListStep
<1> QED BY <1>1, <1>2, <1>3, <1>4, StepKinds

\* A step that leaves the heap and the lists alone.
Quiet ==
  /\ UNCHANGED <<gp, allocated, next, version, rcu_data, callbacks>>
  /\ sequencer <= sequencer'
  /\ Fresh' = Fresh /\ Retiring' = Retiring
  /\ \A c \in Fresh : p'[c] = p[c]
  /\ \A c \in Retiring : q'[c] = q[c]

\* Which steps touch the heap or the lists.
LEMMA HeapKinds ==
  ASSUME CallInv, [CNext]_cvars
  PROVE  \/ Quiet
         \/ \E k \in Cores, c \in Coros :
              \/ Alloc(k, c)
              \/ AssignPointer(k, c) /\ UNCHANGED callVars
              \/ Delete(k, c) /\ c \notin Deferrers /\ UNCHANGED callVars
              \/ call_rcu(k, c)
              \/ FreeNode(k, c)
<1> USE DEF CallInv, CallTypeOK, CTypeOK, TypeOK
<1>0. Deferrers \subseteq Writers /\ Writers \subseteq Coros /\ Deferrers \subseteq Coros
  BY CallRcuAssumption, RcuAssumption
<1>1. CASE Outside /\ UNCHANGED callVars
  <2>1. UNCHANGED <<sequencer, heapVars, localVars, pc>>
    BY <1>1, OutsideFrame DEF Outside
  <2>2. Fresh' = Fresh /\ Retiring' = Retiring
    BY <2>1 DEF Fresh, Retiring
  <2> QED BY <1>1, <2>1, <2>2 DEF Quiet, heapVars, localVars, callVars
<1>2. ASSUME NEW k \in Cores, NEW c \in Coros, RcuStep(k, c)
      PROVE  \/ Quiet
             \/ AssignPointer(k, c) /\ UNCHANGED callVars
             \/ Delete(k, c) /\ c \notin Deferrers /\ UNCHANGED callVars
  <2> USE DEF Step, heapVars, localVars
  <2>0. UNCHANGED <<next, version, rcu_data, callbacks>>
    BY <1>2 DEF RcuStep, callVars
  <2>1. CASE \/ ReadLock(k, c) \/ LoadSequencer(k, c) \/ PublishVersion(k, c)
             \/ Dereference(k, c) \/ ReadUnlock(k, c)
    <3>1. c \notin Writers /\ UNCHANGED <<gp, allocated, q, sequencer>>
      BY <2>1
      DEF ReadLock, LoadSequencer, PublishVersion, Dereference, ReadUnlock, Roles
    <3>2. /\ \A d \in Coros : d # c => pc'[d] = pc[d] /\ p'[d] = p[d]
          /\ pc[c] \notin {"lock", "swap", "assign"}
          /\ pc'[c] \notin {"lock", "swap", "assign"}
      BY <2>1
      DEF ReadLock, LoadSequencer, PublishVersion, Dereference, ReadUnlock
    <3>3. Fresh' = Fresh /\ c \notin Fresh
      BY <3>2 DEF Fresh
    <3>4. Retiring' = Retiring
      <4>1. \A d \in Writers : pc'[d] = pc[d]
        BY <1>0, <3>1, <3>2
      <4> QED BY <4>1 DEF Retiring
    <3>5. \A d \in Fresh : p'[d] = p[d]
      BY <3>2, <3>3 DEF Fresh
    <3> QED BY <2>0, <3>1, <3>3, <3>4, <3>5 DEF Quiet
  <2>2. CASE SpinYield(k, c) \/ SpinAcquire(k, c) \/ SpinUnlock(k, c) \/ TaskReturn(k, c)
    <3>1. /\ \A d \in Coros : d # c => pc'[d] = pc[d]
          /\ pc'[c] \notin {"sync", "scan", "delete"} /\ pc[c] \notin {"sync", "scan", "delete"}
          /\ pc'[c] \in {"lock", "swap", "assign"} <=> pc[c] \in {"lock", "swap", "assign"}
          /\ UNCHANGED <<gp, allocated, p, q, sequencer>>
      BY <2>2 DEF SpinYield, SpinAcquire, SpinUnlock, TaskReturn
    <3>2. Fresh' = Fresh
      BY <3>1 DEF Fresh
    <3>3. Retiring' = Retiring
      BY <1>0, <3>1 DEF Retiring
    <3> QED BY <2>0, <3>1, <3>2, <3>3 DEF Quiet
  <2>3. CASE LoadOld(k, c)
    <3>1. /\ \A d \in Coros : d # c => pc'[d] = pc[d] /\ q'[d] = q[d]
          /\ pc[c] = "swap" /\ pc'[c] = "assign"
          /\ UNCHANGED <<gp, allocated, p, sequencer>>
      BY <2>3 DEF LoadOld
    <3>2. Fresh' = Fresh
      BY <3>1 DEF Fresh
    <3>3. Retiring' = Retiring /\ c \notin Retiring
      BY <1>0, <3>1 DEF Retiring
    <3>4. \A d \in Retiring : q'[d] = q[d]
      BY <1>0, <3>1, <3>3 DEF Retiring
    <3> QED BY <2>0, <3>1, <3>2, <3>3, <3>4 DEF Quiet
  <2>4. CASE /\ c \notin Deferrers
             /\ FetchAdd(k, c) \/ ScanPass(k, c) \/ ScanWait(k, c) \/ ScanEnd(k, c)
    <3>1. /\ \A d \in Coros : d # c => pc'[d] = pc[d]
          /\ pc[c] \in {"sync", "scan"}
          /\ pc'[c] \in IF c \in Writers THEN {"scan", "delete"} ELSE {"scan", "loop"}
          /\ UNCHANGED <<gp, allocated, p, q>>
      BY <2>4 DEF FetchAdd, ScanPass, ScanWait, ScanEnd
    <3>2. sequencer <= sequencer'
      BY <2>4 DEF FetchAdd, ScanPass, ScanWait, ScanEnd
    <3>3. Fresh' = Fresh
      BY <3>1 DEF Fresh
    <3>4. Retiring' = Retiring
      BY <1>0, <2>4, <3>1 DEF Retiring
    <3> QED BY <2>0, <3>1, <3>2, <3>3, <3>4 DEF Quiet
  <2> QED BY <1>2, <2>1, <2>2, <2>3, <2>4 DEF RcuStep
<1>3. ASSUME NEW k \in Cores, NEW c \in Coros,
             LoadVersion(k, c) \/ LoadHead(k, c) \/ LeaveLoop(k, c)
      PROVE  Quiet
  <2> USE DEF Step, heapVars, localVars
  <2>1. /\ \A d \in Coros : d # c => pc'[d] = pc[d]
        /\ c \in Deferrers
        /\ pc[c] \in {"scan", "delete"} /\ pc'[c] \in {"scan", "delete", "unlock"}
        /\ UNCHANGED <<gp, allocated, p, q, sequencer, next, version, rcu_data, callbacks>>
    BY <1>3 DEF LoadVersion, LoadHead, LeaveLoop
  <2>2. Fresh' = Fresh
    BY <2>1 DEF Fresh
  <2>3. Retiring' = Retiring
    BY <1>0, <2>1 DEF Retiring
  <2> QED BY <2>1, <2>2, <2>3 DEF Quiet
<1> QED BY <1>1, <1>2, <1>3, StepKinds DEF ListStep

\* A section began with the pointer that is current, or goes on: then no step
\* changes what it works on or what its core has published.
LEMMA SectionFrame ==
  ASSUME CallInv, [CNext]_cvars, NEW r \in Coros, pc'[r] = "use"
  PROVE  \/ /\ pc[r] = "use" /\ p'[r] = p[r]
            /\ versions'[Home(r)] = versions[Home(r)]
         \/ /\ p'[r] = gp
            /\ UNCHANGED <<gp, callbacks>>
<1> USE DEF CallInv, CallTypeOK, CTypeOK, TypeOK, ReactorTypeOK
<1>0. Home(r) \in Cores
  BY HomeType, ReactorAssumption DEF Coros
<1>1. CASE Outside /\ UNCHANGED callVars
  <2>1. UNCHANGED <<p, pc, versions>>
    BY <1>1, OutsideFrame
    DEF Outside, localVars, SubmitTask, Submit, Reactors, Dispatch, Stopped, vars,
        reactorVars, rcuVars
  <2> QED BY <2>1
<1>2. ASSUME NEW k \in Cores, NEW c \in Coros, CoroStep(k, c), c = r => UNCHANGED callbacks
      PROVE  \/ /\ pc[r] = "use" /\ p'[r] = p[r]
                /\ versions'[Home(r)] = versions[Home(r)]
             \/ /\ p'[r] = gp
                /\ UNCHANGED <<gp, callbacks>>
  <2> USE DEF Step, reactorVars, stackVars, rcuVars, heapVars, localVars
  <2>0. Executes(k, c)
    BY <1>2
    DEF CoroStep, ReadLock, LoadSequencer, PublishVersion, Dereference,
        ReadUnlock, New, SpinAcquire, SpinYield, LoadOld, AssignPointer,
        FetchAdd, ScanPass, ScanWait, ScanEnd, Delete, SpinUnlock, TaskReturn
  <2>1. r # c /\ pc[r] = "use" => Home(r) # k
    BY <2>0, SoleRunner
  <2>2. CASE ReadLock(k, c) \/ LoadSequencer(k, c) \/ ReadUnlock(k, c)
    BY <2>2 DEF ReadLock, LoadSequencer, ReadUnlock
  <2>3. CASE PublishVersion(k, c)
    BY <1>0, <2>1, <2>3 DEF PublishVersion
  <2>4. CASE Dereference(k, c)
    BY <1>2, <2>4 DEF Dereference
  <2>5. CASE New(k, c) \/ SpinAcquire(k, c) \/ LoadOld(k, c) \/ AssignPointer(k, c)
    BY <2>5 DEF New, SpinAcquire, LoadOld, AssignPointer
  <2>6. CASE FetchAdd(k, c) \/ ScanPass(k, c) \/ ScanEnd(k, c) \/ Delete(k, c)
             \/ SpinUnlock(k, c)
    BY <2>6 DEF FetchAdd, ScanPass, ScanEnd, Delete, SpinUnlock
  <2>7. CASE SpinYield(k, c) \/ ScanWait(k, c) \/ TaskReturn(k, c)
    <3>1. /\ r # c /\ pc[r] = "use" /\ p' = p
          /\ rcu_offline(k) \/ UNCHANGED rcuVars
      BY <2>7 DEF SpinYield, ScanWait, TaskReturn, Yield, Finish
    <3>2. \A j \in Cores : j # k => versions'[j] = versions[j]
      BY <3>1 DEF rcu_offline
    <3> QED BY <1>0, <2>1, <3>1, <3>2
  <2> QED BY <1>2, <2>2, <2>3, <2>4, <2>5, <2>6, <2>7 DEF CoroStep
<1>3. ASSUME NEW k \in Cores, NEW c \in Coros, ListStep(k, c)
      PROVE  /\ pc[r] = "use" /\ p'[r] = p[r]
             /\ versions'[Home(r)] = versions[Home(r)]
  BY <1>3, ListStepFrame
<1>4. ASSUME NEW k \in Cores, NEW c \in Coros, RcuStep(k, c) \/ Alloc(k, c)
      PROVE  CoroStep(k, c) /\ UNCHANGED callbacks
  BY <1>4, RcuStepIsNext DEF Alloc, CoroStep, callVars
<1> QED BY <1>1, <1>2, <1>3, <1>4, StepKinds

-----------------------------------------------------------------------------
(***************************************************************************)
(* The heap and the lists.                                                 *)
(***************************************************************************)

\* Who owns what does not change with the pointers.
LEMMA OwnedSame ==
  ASSUME gp' = gp, Fresh' = Fresh, Retiring' = Retiring,
         \A c \in Fresh : p'[c] = p[c], \A c \in Retiring : q'[c] = q[c]
  PROVE  \A o \in Objects : Owned(o)' <=> Owned(o)
BY DEF Owned

\* The lists' objects, one list at a time.
LEMMA InStaged ==
  ASSUME NEW o
  PROVE  o \in Staged <=> \E k \in Cores : o \in Range(callbacks[k])
BY DEF Staged

\* At most one task owns a replaced object.
LEMMA OneRetiring ==
  ASSUME WriterExclusion, NEW c \in Retiring, NEW d \in Retiring
  PROVE  c = d
<1>1. c \in Coros /\ d \in Coros /\ Holds(c) /\ Holds(d)
  BY RcuAssumption DEF Retiring, Holds
<1> QED BY <1>1 DEF WriterExclusion

\* The first and the last node of a list.
LEMMA Ends ==
  ASSUME NEW S, NEW s \in Seq(S), s # <<>>
  PROVE  /\ Len(s) \in Nat \ {0}
         /\ Head(s) = s[1] /\ Head(s) \in S /\ Head(s) \in Range(s)
         /\ Last(s) = s[Len(s)] /\ Last(s) \in S /\ Last(s) \in Range(s)
         /\ \A n \in 1 .. Len(s) : s[n] \in Range(s) /\ s[n] \in S
<1>1. DOMAIN s = 1 .. Len(s) /\ Len(s) \in Nat /\ \A n \in DOMAIN s : s[n] \in S
  BY LenProperties, ElementOfSeq
<1>2. Len(s) # 0
  BY EmptySeq
<1>3. 1 \in DOMAIN s /\ Len(s) \in DOMAIN s
  BY <1>1, <1>2
<1>4. \A n \in DOMAIN s : s[n] \in Range(s)
  BY DEF Range
<1> QED BY <1>1, <1>2, <1>3, <1>4 DEF Last

\* What call_rcu() does to the heap and the lists.
LEMMA CallEffect ==
  ASSUME CallInv, NEW k \in Cores, NEW c \in Coros, call_rcu(k, c)
  PROVE  /\ Home(c) = k /\ c \in Deferrers /\ pc[c] = "sync"
         /\ q[c] \in Objects /\ Owned(q[c]) /\ q[c] \notin Staged
         /\ UNCHANGED <<gp, allocated, p, q>>
         /\ Fresh' = Fresh /\ c \in Retiring /\ Retiring' = Retiring \ {c}
         /\ sequencer' = sequencer + 1
         /\ version' = [version EXCEPT ![q[c]] = sequencer + 1]
         /\ callbacks'[k] = Append(callbacks[k], q[c])
         /\ \A j \in Cores : j # k => callbacks'[j] = callbacks[j]
         /\ IsInjective(callbacks'[k])
         /\ Range(callbacks'[k]) = Range(callbacks[k]) \cup {q[c]}
         /\ \A o \in Objects : o \in Staged' <=> o \in Staged \/ o = q[c]
         /\ \A o \in Objects : Owned(o)' <=> Owned(o) /\ o # q[c]
<1> USE DEF CallInv, CallTypeOK, CTypeOK, TypeOK
<1>0. Deferrers \subseteq Writers /\ Writers \subseteq Coros
  BY CallRcuAssumption, RcuAssumption
<1>1. /\ Executes(k, c) /\ c \in Deferrers /\ pc[c] = "sync"
      /\ pc'[c] \in {"scan", "unlock"}
      /\ \A d \in Coros : d # c => pc'[d] = pc[d]
      /\ UNCHANGED <<gp, allocated, p, q>>
      /\ sequencer' = sequencer + 1
      /\ version' = [version EXCEPT ![q[c]] = sequencer + 1]
      /\ callbacks' = [callbacks EXCEPT ![k] = Append(callbacks[k], q[c])]
  BY DEF call_rcu, Step, heapVars
<1>2. Home(c) = k /\ q[c] \in Objects
  BY <1>1, RunsAtHome
<1>3. Fresh' = Fresh
  BY <1>1 DEF Fresh
<1>4. c \in Retiring /\ Retiring' = Retiring \ {c}
  BY <1>0, <1>1 DEF Retiring
<1>5. Owned(q[c]) /\ q[c] \notin Staged
  BY <1>2, <1>4 DEF Owned, OwnedOnce
<1>6. /\ callbacks'[k] = Append(callbacks[k], q[c])
      /\ \A j \in Cores : j # k => callbacks'[j] = callbacks[j]
  BY <1>1
<1>7. /\ IsInjective(callbacks'[k])
      /\ Range(callbacks'[k]) = Range(callbacks[k]) \cup {q[c]}
  <2>1. callbacks[k] \in Seq(Objects) /\ IsInjective(callbacks[k])
        /\ q[c] \notin Range(callbacks[k])
    BY <1>5, InStaged DEF Lists
  <2> QED BY <1>2, <1>6, <2>1, InjectiveAppend
<1>8. \A o \in Objects : o \in Staged' <=> o \in Staged \/ o = q[c]
  <2>1. \A o : o \in Staged' <=> \E j \in Cores : o \in Range(callbacks'[j])
    BY DEF Staged
  <2> QED BY <1>6, <1>7, <2>1, InStaged
<1>9. \A o \in Objects : Owned(o)' <=> Owned(o) /\ o # q[c]
  <2>1. \A d \in Retiring : d = c
    BY <1>4, OneRetiring
  <2>2. q[c] # gp /\ \A d \in Fresh : p[d] # q[c]
    BY <1>4 DEF OwnedOnce
  <2> QED BY <1>1, <1>3, <1>4, <2>1, <2>2 DEF Owned
<1> QED BY <1>1, <1>2, <1>3, <1>4, <1>5, <1>6, <1>7, <1>8, <1>9

\* What one round of thread_call_rcu()'s loop does.
LEMMA FreeEffect ==
  ASSUME CallInv, NEW k \in Cores, NEW c \in Coros, FreeNode(k, c)
  PROVE  /\ Home(c) = k /\ c \in Deferrers /\ pc[c] = "delete"
         /\ callbacks[k] # <<>> /\ node[c] = Head(callbacks[k])
         /\ node[c] \in Range(callbacks[k])
         /\ node[c] \in Objects /\ version[node[c]] <= min_version[c]
         /\ allocated' = allocated \ {node[c]}
         /\ UNCHANGED <<gp, p, q, sequencer, version, next, min_version>>
         /\ Fresh' = Fresh /\ Retiring' = Retiring
         /\ callbacks'[k] = Tail(callbacks[k])
         /\ \A j \in Cores : j # k => callbacks'[j] = callbacks[j]
         /\ IsInjective(callbacks'[k])
         /\ Range(callbacks'[k]) = Range(callbacks[k]) \ {node[c]}
         /\ \A o \in Objects : o \in Staged' <=> o \in Staged /\ o # node[c]
<1> USE DEF CallInv, CallTypeOK, CTypeOK, TypeOK
<1>0. Deferrers \subseteq Writers /\ Writers \subseteq Coros
  BY CallRcuAssumption, RcuAssumption
<1>1. /\ Executes(k, c) /\ c \in Deferrers /\ pc[c] = "delete"
      /\ pc' = pc
      /\ node[c] # Null /\ version[node[c]] <= min_version[c]
      /\ allocated' = allocated \ {node[c]}
      /\ UNCHANGED <<gp, p, q, sequencer, version, next, min_version>>
      /\ callbacks' = [callbacks EXCEPT ![k] = IF @ = <<>> THEN @ ELSE Tail(@)]
  BY DEF FreeNode, Step, localVars
<1>2. Home(c) = k
  BY <1>1, RunsAtHome
<1>3. Fresh' = Fresh /\ Retiring' = Retiring
  BY <1>1 DEF Fresh, Retiring
<1>4. callbacks[k] # <<>> /\ node[c] = Head(callbacks[k])
  <2>1. node[c] = rcu_data[k].head
    BY <1>1, <1>2 DEF AtHead
  <2>2. rcu_data[k].head = IF callbacks[k] = <<>> THEN Null ELSE Head(callbacks[k])
    BY DEF Lists, ListIntact
  <2> QED BY <1>1, <2>1, <2>2
<1>5. node[c] \in Range(callbacks[k]) /\ node[c] \in Objects
  BY <1>4, Ends
<1>6. /\ callbacks'[k] = Tail(callbacks[k])
      /\ \A j \in Cores : j # k => callbacks'[j] = callbacks[j]
  BY <1>1, <1>4
<1>7. /\ IsInjective(callbacks'[k])
      /\ Range(callbacks'[k]) = Range(callbacks[k]) \ {node[c]}
  <2>1. callbacks[k] \in Seq(Objects) /\ IsInjective(callbacks[k])
    BY DEF Lists
  <2> QED BY <1>4, <1>6, <2>1, InjectiveTail
<1>8. \A o \in Objects : o \in Staged' <=> o \in Staged /\ o # node[c]
  <2>1. \A o : o \in Staged' <=> \E j \in Cores : o \in Range(callbacks'[j])
    BY DEF Staged
  <2>2. \A j \in Cores : j # k => node[c] \notin Range(callbacks[j])
    BY <1>5 DEF Lists
  <2> QED BY <1>6, <1>7, <2>1, <2>2, InStaged
<1> QED BY <1>1, <1>2, <1>3, <1>4, <1>5, <1>6, <1>7, <1>8

\* What an allocation does.
LEMMA AllocEffect ==
  ASSUME CallInv, NEW k \in Cores, NEW c \in Coros, Alloc(k, c)
  PROVE  /\ p'[c] \in Objects \ allocated
         /\ allocated' = allocated \cup {p'[c]}
         /\ UNCHANGED <<gp, q, sequencer, version, rcu_data, callbacks>>
         /\ c \notin Fresh /\ Fresh' = Fresh \cup {c} /\ Retiring' = Retiring
         /\ \A d \in Coros : d # c => p'[d] = p[d]
         /\ HeadsZeroed => next' = [next EXCEPT ![p'[c]] = Null]
         /\ \A o \in Objects : Owned(o)' <=> Owned(o) \/ o = p'[c]
<1> USE DEF CallInv, CallTypeOK, CTypeOK, TypeOK
<1>0. Deferrers \subseteq Writers /\ Writers \subseteq Coros
  BY CallRcuAssumption, RcuAssumption
<1>1. /\ pc[c] = "loop" /\ pc'[c] = "lock"
      /\ \A d \in Coros : d # c => pc'[d] = pc[d]
      /\ UNCHANGED <<gp, q, sequencer>>
      /\ \E o \in Objects \ allocated :
           allocated' = allocated \cup {o} /\ p' = [p EXCEPT ![c] = o]
  BY DEF Alloc, New, Step
<1>2. /\ p'[c] \in Objects \ allocated
      /\ allocated' = allocated \cup {p'[c]}
      /\ \A d \in Coros : d # c => p'[d] = p[d]
  BY <1>1
<1>3. c \notin Fresh /\ Fresh' = Fresh \cup {c}
  BY <1>1 DEF Fresh
<1>4. Retiring' = Retiring
  BY <1>0, <1>1 DEF Retiring
<1>5. /\ UNCHANGED <<version, rcu_data, callbacks>>
      /\ HeadsZeroed => next' = [next EXCEPT ![p'[c]] = Null]
  BY DEF Alloc
<1>6. \A o \in Objects : Owned(o)' <=> Owned(o) \/ o = p'[c]
  <2>1. \A d \in Fresh : d \in Coros /\ d # c
    BY <1>3 DEF Fresh
  <2> QED BY <1>1, <1>2, <1>3, <1>4, <2>1 DEF Owned
<1> QED BY <1>1, <1>2, <1>3, <1>4, <1>5, <1>6

\* What is allocated stays owned or listed, once.
LEMMA OwnedOnceNext ==
  ASSUME CallInv, [CNext]_cvars
  PROVE  OwnedOnce'
<1> USE DEF CallInv, CallTypeOK, CTypeOK, TypeOK
<1>0. Deferrers \subseteq Writers /\ Writers \subseteq Coros
  BY CallRcuAssumption, RcuAssumption
<1>1. CASE Quiet
  <2>1. \A o \in Objects : Owned(o)' <=> Owned(o)
    BY <1>1, OwnedSame DEF Quiet
  <2>2. Staged' = Staged
    BY <1>1 DEF Quiet, Staged
  <2>3. /\ \A o \in Objects : o \in allocated' <=> Owned(o)' \/ o \in Staged'
        /\ \A o \in Objects : ~(Owned(o)' /\ o \in Staged')
    BY <1>1, <2>1, <2>2 DEF Quiet, OwnedOnce
  <2>4. \A c \in Fresh' : p'[c] # gp' /\ \A d \in Fresh' : p'[d] = p'[c] => d = c
    BY <1>1 DEF Quiet, OwnedOnce
  <2>5. \A c \in Retiring' : q'[c] # gp'
    BY <1>1 DEF Quiet, OwnedOnce
  <2>6. \A c \in Fresh', d \in Retiring' : p'[c] # q'[d]
    <3>1. \A c \in Fresh, d \in Retiring : p[c] # q[d]
      BY DEF OwnedOnce
    <3> QED BY <1>1, <3>1 DEF Quiet
  <2> QED BY <2>3, <2>4, <2>5, <2>6 DEF OwnedOnce
<1>2. ASSUME NEW k \in Cores, NEW c \in Coros, Alloc(k, c)
      PROVE  OwnedOnce'
  <2> DEFINE n == p'[c]
  <2>1. /\ n \in Objects \ allocated
        /\ allocated' = allocated \cup {n}
        /\ UNCHANGED <<gp, q, callbacks>>
        /\ c \notin Fresh /\ Fresh' = Fresh \cup {c} /\ Retiring' = Retiring
        /\ \A d \in Coros : d # c => p'[d] = p[d]
        /\ \A o \in Objects : Owned(o)' <=> Owned(o) \/ o = n
    BY <1>2, AllocEffect
  <2>2. ~Owned(n) /\ n \notin Staged /\ Staged' = Staged
    BY <2>1 DEF OwnedOnce, Staged
  <2> HIDE DEF n
  <2>3. /\ \A o \in Objects : o \in allocated' <=> Owned(o)' \/ o \in Staged'
        /\ \A o \in Objects : ~(Owned(o)' /\ o \in Staged')
    BY <2>1, <2>2 DEF OwnedOnce
  <2>4. \A d \in Fresh : d \in Coros /\ d # c /\ p'[d] = p[d] /\ p[d] # n
    BY <2>1, <2>2 DEF Owned, Fresh
  <2>5. n # gp /\ \A d \in Retiring : q[d] # n
    BY <2>2 DEF Owned
  <2>6. p'[c] = n
    BY DEF n
  <2>7. \A d \in Fresh' : p'[d] # gp' /\ \A e \in Fresh' : p'[e] = p'[d] => e = d
    <3>1. \A d \in Fresh : p[d] # gp /\ \A e \in Fresh : p[e] = p[d] => e = d
      BY DEF OwnedOnce
    <3> HIDE DEF CallInv
    <3> QED BY <2>1, <2>4, <2>5, <2>6, <3>1
  <2>8. \A d \in Fresh', e \in Retiring' : p'[d] # q'[e]
    BY <2>1, <2>4, <2>5, <2>6 DEF OwnedOnce
  <2>9. \A d \in Retiring' : q'[d] # gp'
    BY <2>1 DEF OwnedOnce
  <2> QED BY <2>3, <2>7, <2>8, <2>9 DEF OwnedOnce
<1>3. ASSUME NEW k \in Cores, NEW c \in Coros,
             AssignPointer(k, c), UNCHANGED callVars
      PROVE  OwnedOnce'
  <2>1. /\ pc[c] = "assign" /\ pc'[c] = "sync" /\ q[c] = gp /\ c \in Writers
        /\ \A d \in Coros : d # c => pc'[d] = pc[d]
        /\ gp' = p[c]
        /\ UNCHANGED <<p, q, allocated>>
    BY <1>3 DEF AssignPointer, Step, localVars, Roles, WriterExclusion
  <2>2. c \in Fresh /\ Fresh' = Fresh \ {c}
    BY <2>1 DEF Fresh
  <2>3. c \notin Retiring /\ Retiring' = Retiring \cup {c}
    BY <1>0, <2>1 DEF Retiring
  <2>4. \A o \in Objects : Owned(o)' <=> Owned(o)
    BY <2>1, <2>2, <2>3 DEF Owned
  <2>5. Staged' = Staged
    BY <1>3 DEF callVars, Staged
  <2>6. /\ \A o \in Objects : o \in allocated' <=> Owned(o)' \/ o \in Staged'
        /\ \A o \in Objects : ~(Owned(o)' /\ o \in Staged')
    BY <2>1, <2>4, <2>5 DEF OwnedOnce
  <2>7. \A d \in Fresh' : p'[d] # gp' /\ \A e \in Fresh' : p'[e] = p'[d] => e = d
    BY <2>1, <2>2 DEF OwnedOnce
  <2>8. \A d \in Retiring' : q'[d] # gp'
    BY <2>1, <2>2, <2>3 DEF OwnedOnce
  <2>9. \A d \in Fresh', e \in Retiring' : p'[d] # q'[e]
    BY <2>1, <2>2, <2>3 DEF OwnedOnce
  <2> QED BY <2>6, <2>7, <2>8, <2>9 DEF OwnedOnce
<1>4. ASSUME NEW k \in Cores, NEW c \in Coros,
             Delete(k, c), c \notin Deferrers, UNCHANGED callVars
      PROVE  OwnedOnce'
  <2>1. /\ pc[c] = "delete" /\ pc'[c] = "unlock" /\ c \in Writers
        /\ \A d \in Coros : d # c => pc'[d] = pc[d]
        /\ UNCHANGED <<p, q, gp>>
        /\ allocated' = allocated \ {q[c]}
    BY <1>4 DEF Delete, Step, localVars, Roles
  <2>2. Fresh' = Fresh
    BY <2>1 DEF Fresh
  <2>3. c \in Retiring /\ Retiring' = Retiring \ {c}
    BY <1>0, <1>4, <2>1 DEF Retiring
  <2>4. \A d \in Retiring : d = c
    BY <2>3, OneRetiring
  <2>5. q[c] # gp /\ (\A d \in Fresh : p[d] # q[c]) /\ q[c] \in Objects /\ Owned(q[c])
    BY <2>3 DEF OwnedOnce, Owned
  <2>6. \A o \in Objects : Owned(o)' <=> Owned(o) /\ o # q[c]
    BY <2>1, <2>2, <2>3, <2>4, <2>5 DEF Owned
  <2>7. Staged' = Staged
    BY <1>4 DEF callVars, Staged
  <2>8. /\ \A o \in Objects : o \in allocated' <=> Owned(o)' \/ o \in Staged'
        /\ \A o \in Objects : ~(Owned(o)' /\ o \in Staged')
    BY <2>1, <2>5, <2>6, <2>7 DEF OwnedOnce
  <2> QED BY <2>1, <2>2, <2>3, <2>8 DEF OwnedOnce
<1>5. ASSUME NEW k \in Cores, NEW c \in Coros, call_rcu(k, c)
      PROVE  OwnedOnce'
  <2>1. /\ q[c] \in Objects /\ Owned(q[c]) /\ q[c] \notin Staged
        /\ UNCHANGED <<gp, allocated, p, q>>
        /\ Fresh' = Fresh /\ c \in Retiring /\ Retiring' = Retiring \ {c}
        /\ \A o \in Objects : o \in Staged' <=> o \in Staged \/ o = q[c]
        /\ \A o \in Objects : Owned(o)' <=> Owned(o) /\ o # q[c]
    BY <1>5, CallEffect
  <2> QED BY <2>1 DEF OwnedOnce
<1>6. ASSUME NEW k \in Cores, NEW c \in Coros, FreeNode(k, c)
      PROVE  OwnedOnce'
  <2>1. /\ node[c] \in Range(callbacks[k])
        /\ node[c] \in Objects
        /\ allocated' = allocated \ {node[c]}
        /\ UNCHANGED <<gp, p, q>>
        /\ Fresh' = Fresh /\ Retiring' = Retiring
        /\ \A o \in Objects : o \in Staged' <=> o \in Staged /\ o # node[c]
    BY <1>6, FreeEffect
  <2>2. node[c] \in Staged
    BY <2>1, InStaged
  <2>3. \A o \in Objects : Owned(o)' <=> Owned(o)
    BY <2>1, OwnedSame
  <2> QED BY <2>1, <2>2, <2>3 DEF OwnedOnce
<1> QED BY <1>1, <1>2, <1>3, <1>4, <1>5, <1>6, HeapKinds

\* The nodes of s are linked in order and have increasing stamps.
Linked(s) ==
  \A n \in 1 .. Len(s) - 1 : next[s[n]] = s[n + 1] /\ version[s[n]] < version[s[n + 1]]

\* A list whose nodes do not change stays linked.
LEMMA LinkedSame ==
  ASSUME NEW s \in Seq(Objects), Linked(s),
         \A o \in Range(s) : version'[o] = version[o],
         \A n \in 1 .. Len(s) - 1 : next'[s[n]] = next[s[n]]
  PROVE  \A n \in 1 .. Len(s) - 1 :
           next'[s[n]] = s[n + 1] /\ version'[s[n]] < version'[s[n + 1]]
<1> SUFFICES ASSUME NEW n \in 1 .. Len(s) - 1
             PROVE  next'[s[n]] = s[n + 1] /\ version'[s[n]] < version'[s[n + 1]]
  OBVIOUS
<1>1. Len(s) \in Nat
  BY LenProperties
<1>2. n \in 1 .. Len(s) /\ n + 1 \in 1 .. Len(s) /\ s # <<>>
  BY <1>1, EmptySeq
<1>3. s[n] \in Range(s) /\ s[n + 1] \in Range(s)
  BY <1>2, Ends
<1> QED BY <1>3 DEF Linked

\* The lists stay disjoint, linked and terminated.
LEMMA ListsNext ==
  ASSUME HeadsZeroed, CallInv, [CNext]_cvars
  PROVE  Lists'
<1> USE DEF CallInv, CallTypeOK, CTypeOK, TypeOK
<1>a. \A k \in Cores :
        /\ callbacks[k] \in Seq(Objects) /\ IsInjective(callbacks[k])
        /\ Linked(callbacks[k])
        /\ rcu_data[k].head = IF callbacks[k] = <<>> THEN Null ELSE Head(callbacks[k])
        /\ rcu_data[k].tail = IF callbacks[k] = <<>> THEN Null ELSE Last(callbacks[k])
        /\ callbacks[k] # <<>> => next[Last(callbacks[k])] = Null
  BY DEF Lists, ListIntact, Linked
<1>b. \A k \in Cores : \A o \in Range(callbacks[k]) : o \in Staged /\ o \in Objects /\ ~Owned(o)
  <2>1. \A k \in Cores : \A o \in Range(callbacks[k]) : o \in Staged /\ o \in Objects
    BY InStaged, RangeEmpty
  <2> QED BY <2>1 DEF OwnedOnce
<1>1. ASSUME UNCHANGED <<callbacks, rcu_data, version>>, sequencer <= sequencer',
             sequencer' \in Nat,
             \A o \in Staged : next'[o] = next[o],
             \A o \in Objects : Owned(o)' => next'[o] = Null
      PROVE  Lists'
  <2>1. ASSUME NEW k \in Cores
        PROVE  /\ callbacks[k] # <<>> => next'[Last(callbacks[k])] = Null
               /\ \A n \in 1 .. Len(callbacks[k]) - 1 :
                    /\ next'[callbacks[k][n]] = callbacks[k][n + 1]
                    /\ version[callbacks[k][n]] < version[callbacks[k][n + 1]]
    <3>1. callbacks[k] # <<>> => Last(callbacks[k]) \in Range(callbacks[k])
      BY <1>a, Ends
    <3>2. ASSUME NEW n \in 1 .. Len(callbacks[k]) - 1
          PROVE  next'[callbacks[k][n]] = next[callbacks[k][n]]
      <4>1. n \in 1 .. Len(callbacks[k]) /\ callbacks[k] # <<>>
        BY <1>a, LenProperties, EmptySeq
      <4>2. callbacks[k][n] \in Range(callbacks[k])
        BY <1>a, <4>1, Ends
      <4> QED BY <1>1, <1>b, <4>2
    <3> QED BY <1>1, <1>a, <1>b, <3>1, <3>2 DEF Linked
  <2>2. ListIntact'
    BY <1>1, <1>a, <2>1 DEF ListIntact
  <2>3. \A o \in Objects : version'[o] <= sequencer'
    <3>1. \A o \in Objects : version[o] <= sequencer /\ version[o] \in Nat
      BY DEF Lists
    <3> QED BY <1>1, <3>1
  <2> QED BY <1>1, <2>1, <2>2, <2>3 DEF Lists
<1>2. CASE Quiet
  <2>1. \A o \in Objects : Owned(o)' <=> Owned(o)
    BY <1>2, OwnedSame DEF Quiet
  <2>2. sequencer' \in Nat
    BY CallTypeNext
  <2> QED BY <1>1, <1>2, <2>1, <2>2 DEF Quiet, Lists
<1>3. ASSUME NEW k \in Cores, NEW c \in Coros, Alloc(k, c)
      PROVE  Lists'
  <2>1. /\ p'[c] \in Objects \ allocated
        /\ UNCHANGED <<sequencer, version, rcu_data, callbacks>>
        /\ next' = [next EXCEPT ![p'[c]] = Null]
        /\ \A o \in Objects : Owned(o)' <=> Owned(o) \/ o = p'[c]
    BY <1>3, AllocEffect
  <2>2. p'[c] \notin Staged
    BY <2>1 DEF OwnedOnce
  <2> QED BY <1>1, <2>1, <2>2 DEF Lists
<1>4. ASSUME NEW k \in Cores, NEW c \in Coros,
             AssignPointer(k, c) \/ (Delete(k, c) /\ c \notin Deferrers),
             UNCHANGED callVars
      PROVE  Lists'
  <2>1. UNCHANGED <<sequencer, next, version, rcu_data, callbacks, p, q>>
    BY <1>4 DEF AssignPointer, Delete, callVars, localVars
  <2>2. \A o \in Objects : Owned(o)' => Owned(o)
    <3>1. CASE AssignPointer(k, c)
      <4>1. /\ pc[c] = "assign" /\ gp' = p[c] /\ q[c] = gp
            /\ pc'[c] = "sync" /\ \A d \in Coros : d # c => pc'[d] = pc[d]
        BY <3>1 DEF AssignPointer, Step, WriterExclusion
      <4>2. c \in Fresh /\ Fresh' \subseteq Fresh
        BY <4>1 DEF Fresh
      <4>3. Retiring' \subseteq Retiring \cup {c}
        BY <4>1, RcuAssumption DEF Retiring
      <4> QED BY <2>1, <4>1, <4>2, <4>3 DEF Owned
    <3>2. CASE Delete(k, c)
      <4>1. gp' = gp /\ pc'[c] = "unlock" /\ \A d \in Coros : d # c => pc'[d] = pc[d]
        BY <3>2 DEF Delete, Step
      <4>2. Fresh' \subseteq Fresh
        BY <4>1 DEF Fresh
      <4>3. Retiring' \subseteq Retiring
        BY <4>1, RcuAssumption DEF Retiring
      <4> QED BY <2>1, <4>1, <4>2, <4>3 DEF Owned
    <3> QED BY <1>4, <3>1, <3>2
  <2> QED BY <1>1, <2>1, <2>2 DEF Lists
<1>5. ASSUME NEW k \in Cores, NEW c \in Coros, call_rcu(k, c)
      PROVE  Lists'
  <2> DEFINE s == callbacks[k]
             t == callbacks'[k]
             o == q[c]
  <2>1. /\ o \in Objects /\ Owned(o) /\ o \notin Staged
        /\ sequencer' = sequencer + 1
        /\ version' = [version EXCEPT ![o] = sequencer + 1]
        /\ t = Append(s, o)
        /\ \A j \in Cores : j # k => callbacks'[j] = callbacks[j]
        /\ IsInjective(t)
        /\ Range(t) = Range(s) \cup {o}
        /\ \A x \in Objects : Owned(x)' <=> Owned(x) /\ x # o
    BY <1>5, CallEffect
  <2>2. /\ next' = IF s = <<>> THEN next ELSE [next EXCEPT ![Last(s)] = o]
        /\ rcu_data'[k].head = (IF s = <<>> THEN o ELSE Head(s))
        /\ rcu_data'[k].tail = o
        /\ \A j \in Cores : j # k => rcu_data'[j] = rcu_data[j]
    <3>1. Enqueue(k, o)
      BY <1>5 DEF call_rcu
    <3>2. rcu_data[k].tail = (IF s = <<>> THEN Null ELSE Last(s))
          /\ rcu_data[k].head = (IF s = <<>> THEN Null ELSE Head(s))
      BY <1>a
    <3>3. s # <<>> => Last(s) \in Objects /\ Last(s) # Null
      BY <1>a, Ends, CallRcuAssumption
    <3> QED BY <3>1, <3>2, <3>3 DEF Enqueue
  <2> HIDE DEF s, t, o
  <2>3. /\ s \in Seq(Objects) /\ t \in Seq(Objects) /\ t # <<>>
        /\ Len(s) \in Nat /\ Len(t) = Len(s) + 1
        /\ \A n \in 1 .. Len(s) : t[n] = s[n]
        /\ t[Len(t)] = o /\ Last(t) = o
        /\ Head(t) = IF s = <<>> THEN o ELSE Head(s)
    <3>1. /\ s \in Seq(Objects) /\ Len(s) \in Nat
      BY <1>a, LenProperties DEF s
    <3>2. /\ t \in Seq(Objects) /\ Len(t) = Len(s) + 1
          /\ \A n \in 1 .. Len(s) : t[n] = s[n]
          /\ t[Len(t)] = o
      BY <2>1, <3>1, AppendProperties
    <3>3. t # <<>>
      BY <3>1, <3>2, EmptySeq
    <3>4. Last(t) = o /\ Head(t) = t[1]
      BY <3>2, <3>3, Ends
    <3>5. CASE s = <<>>
      BY <3>1, <3>2, <3>3, <3>4, <3>5, EmptySeq
    <3>6. CASE s # <<>>
      <4>1. Head(s) = s[1] /\ 1 \in 1 .. Len(s)
        BY <3>1, <3>6, Ends
      <4> QED BY <3>1, <3>2, <3>3, <3>4, <3>6, <4>1
    <3> QED BY <3>1, <3>2, <3>3, <3>4, <3>5, <3>6
  <2>4. /\ s # <<>> => Last(s) \in Range(s) /\ Last(s) = s[Len(s)] /\ Len(s) # 0
        /\ \A n \in 1 .. Len(s) : s[n] \in Range(s)
        /\ s = <<>> => Len(s) = 0
    <3>1. s = <<>> => Len(s) = 0
      BY EmptySeq
    <3>2. CASE s # <<>>
      BY <2>3, <3>2, Ends
    <3> QED BY <2>3, <3>1, <3>2
  <2>5. \A x \in Range(s) : x # o /\ x \in Objects
    BY <1>b, <2>1 DEF s
  <2>6. next'[o] = Null /\ next' \in [Objects -> Nodes]
    <3>1. next[o] = Null
      BY <2>1 DEF Lists
    <3>2. s # <<>> => Last(s) # o
      BY <2>4, <2>5
    <3>3. next'[o] = Null
      BY <2>1, <2>2, <3>1, <3>2
    <3> QED BY <3>3, CallTypeNext
  <2>7. \A x \in Objects : x # o => version'[x] = version[x]
    BY <2>1
  <2>8. version'[o] = sequencer + 1
    BY <2>1
  <2>9. ASSUME NEW n \in 1 .. Len(t) - 1
        PROVE  next'[t[n]] = t[n + 1] /\ version'[t[n]] < version'[t[n + 1]]
    <3>0. n \in 1 .. Len(s) /\ Len(s) # 0 /\ s # <<>>
      BY <2>3, <2>4
    <3>1. t[n] = s[n] /\ s[n] \in Range(s) /\ s[n] \in Objects
      BY <2>3, <2>4, <2>5, <3>0
    <3>2. CASE n = Len(s)
      <4>1. t[n + 1] = o /\ s[n] = Last(s)
        BY <2>3, <2>4, <3>0, <3>2
      <4>2. next'[s[n]] = o
        BY <2>2, <3>0, <3>1, <4>1
      <4>3. version'[s[n]] = version[s[n]] /\ version[s[n]] <= sequencer
        BY <2>5, <2>7, <3>1 DEF Lists
      <4>4. version[s[n]] \in Nat /\ sequencer \in Nat
        BY <3>1
      <4>5. version'[s[n]] < version'[o]
        <5> HIDE DEF CallInv
        <5>1. version[s[n]] < sequencer + 1
          BY <4>3, <4>4
        <5> QED BY <2>8, <4>3, <5>1
      <4> QED BY <3>1, <4>1, <4>2, <4>5
    <3>3. CASE n # Len(s)
      <4>1. n \in 1 .. Len(s) - 1 /\ n + 1 \in 1 .. Len(s)
        BY <2>3, <3>0, <3>3
      <4>2. t[n + 1] = s[n + 1] /\ s[n + 1] \in Range(s) /\ s[n + 1] \in Objects
        BY <2>3, <2>4, <2>5, <4>1
      <4>3. next[s[n]] = s[n + 1] /\ version[s[n]] < version[s[n + 1]]
        BY <1>a, <4>1 DEF Linked, s
      <4>4. s[n] # Last(s)
        <5>1. IsInjective(s) /\ Len(s) \in 1 .. Len(s) /\ DOMAIN s = 1 .. Len(s)
          BY <1>a, <2>3, <3>0, LenProperties DEF s
        <5> QED BY <2>4, <3>0, <3>3, <5>1 DEF IsInjective
      <4>5. next'[s[n]] = next[s[n]]
        BY <2>2, <3>0, <3>1, <4>4
      <4>6. version'[s[n]] = version[s[n]] /\ version'[s[n + 1]] = version[s[n + 1]]
        BY <2>5, <2>7, <3>1, <4>2
      <4>7. next'[s[n]] = s[n + 1] /\ version'[s[n]] < version'[s[n + 1]]
        BY <4>3, <4>5, <4>6
      <4> QED BY <3>1, <4>2, <4>7
    <3> QED BY <3>2, <3>3
  <2>10. ASSUME NEW j \in Cores, j # k
         PROVE  /\ callbacks'[j] # <<>> => next'[Last(callbacks'[j])] = Null
                /\ \A n \in 1 .. Len(callbacks'[j]) - 1 :
                     /\ next'[callbacks'[j][n]] = callbacks'[j][n + 1]
                     /\ version'[callbacks'[j][n]] < version'[callbacks'[j][n + 1]]
                /\ Range(callbacks'[j]) \cap Range(t) = {}
    <3> DEFINE u == callbacks[j]
    <3>1. callbacks'[j] = u /\ u \in Seq(Objects) /\ Linked(u)
      BY <1>a, <2>1, <2>10
    <3>2. Range(u) \cap Range(s) = {} /\ o \notin Range(u)
      BY <2>1, <2>10, InStaged DEF Lists, s
    <3>3. \A x \in Range(u) : x \in Objects /\ version'[x] = version[x]
      BY <1>b, <2>7, <3>2
    <3>4. \A x \in Range(u) : next'[x] = next[x]
      BY <2>2, <2>4, <3>2, <3>3
    <3>5. u # <<>> => Last(u) \in Range(u) /\ next[Last(u)] = Null
      BY <1>a, <3>1, Ends
    <3>6. \A n \in 1 .. Len(u) - 1 : next'[u[n]] = next[u[n]]
      <4> SUFFICES ASSUME NEW n \in 1 .. Len(u) - 1
                   PROVE  next'[u[n]] = next[u[n]]
        OBVIOUS
      <4>1. Len(u) \in Nat /\ n \in 1 .. Len(u) /\ u # <<>>
        BY <3>1, LenProperties, EmptySeq
      <4>2. u[n] \in Range(u)
        BY <3>1, <4>1, Ends
      <4> QED BY <3>4, <4>2
    <3> HIDE DEF u
    <3>7. \A n \in 1 .. Len(u) - 1 :
            next'[u[n]] = u[n + 1] /\ version'[u[n]] < version'[u[n + 1]]
      <4> HIDE DEF CallInv
      <4> QED BY <3>1, <3>3, <3>6, LinkedSame
    <3>8. Range(u) \cap Range(t) = {}
      BY <2>1, <3>2
    <3> HIDE DEF CallInv
    <3> QED BY <3>1, <3>4, <3>5, <3>7, <3>8
  <2>11. ListIntact'
    <3>1. ASSUME NEW j \in Cores
          PROVE  LET z == callbacks'[j]
                 IN  /\ rcu_data'[j].head = IF z = <<>> THEN Null ELSE Head(z)
                     /\ rcu_data'[j].tail = IF z = <<>> THEN Null ELSE Last(z)
                     /\ \A n \in 1 .. Len(z) - 1 :
                          next'[z[n]] = z[n + 1] /\ version'[z[n]] < version'[z[n + 1]]
      <4>1. CASE j = k
        BY <2>2, <2>3, <2>9, <4>1 DEF t
      <4>2. CASE j # k
        BY <1>a, <2>1, <2>2, <2>10, <4>2
      <4> QED BY <4>1, <4>2
    <3> QED BY <3>1 DEF ListIntact
  <2>12. \A j, l \in Cores : j # l => Range(callbacks'[j]) \cap Range(callbacks'[l]) = {}
    <3>1. \A j, l \in Cores : j # l => Range(callbacks[j]) \cap Range(callbacks[l]) = {}
      BY DEF Lists
    <3>2. \A j \in Cores : j # k =>
            /\ callbacks'[j] = callbacks[j]
            /\ Range(callbacks'[j]) \cap Range(callbacks'[k]) = {}
      BY <2>1, <2>10 DEF t
    <3> QED BY <3>1, <3>2
  <2>13. \A j \in Cores : IsInjective(callbacks'[j])
    BY <1>a, <2>1 DEF t
  <2>14. \A j \in Cores : callbacks'[j] # <<>> => next'[Last(callbacks'[j])] = Null
    BY <2>3, <2>6, <2>10 DEF t
  <2>15. ASSUME NEW x \in Objects, Owned(x)'
         PROVE  next'[x] = Null
    <3>1. Owned(x) /\ x # o /\ x \notin Staged
      BY <2>1, <2>15 DEF OwnedOnce
    <3>2. next[x] = Null
      BY <3>1 DEF Lists
    <3>3. s # <<>> => Last(s) # x
      BY <2>4, <3>1, InStaged DEF s
    <3> QED BY <2>2, <3>2, <3>3
  <2>16. \A x \in Objects : version'[x] <= sequencer'
    <3>1. \A x \in Objects : version[x] <= sequencer /\ version[x] \in Nat
      BY DEF Lists
    <3>2. sequencer' = sequencer + 1 /\ sequencer \in Nat
      BY <2>1
    <3> HIDE DEF CallInv
    <3> QED BY <2>7, <2>8, <3>1, <3>2
  <2> QED BY <2>11, <2>12, <2>13, <2>14, <2>15, <2>16 DEF Lists
<1>6. ASSUME NEW k \in Cores, NEW c \in Coros, FreeNode(k, c)
      PROVE  Lists'
  <2> DEFINE s == callbacks[k]
             t == callbacks'[k]
             h == node[c]
  <2>1. /\ s # <<>> /\ h = Head(s) /\ h \in Objects
        /\ UNCHANGED <<gp, p, q, sequencer, version, next>>
        /\ Fresh' = Fresh /\ Retiring' = Retiring
        /\ t = Tail(s)
        /\ \A j \in Cores : j # k => callbacks'[j] = callbacks[j]
        /\ IsInjective(t)
        /\ Range(t) = Range(s) \ {h}
    BY <1>6, FreeEffect
  <2>2. /\ rcu_data'[k].head = next[h]
        /\ rcu_data'[k].tail = (IF next[h] = Null THEN Null ELSE Last(s))
        /\ \A j \in Cores : j # k => rcu_data'[j] = rcu_data[j]
    BY <1>6, <1>a, <2>1 DEF FreeNode
  <2> HIDE DEF s, t, h
  <2>3. /\ s \in Seq(Objects) /\ Len(s) \in Nat \ {0} /\ h = s[1]
        /\ t \in Seq(Objects) /\ Len(t) = Len(s) - 1
        /\ \A n \in 1 .. Len(t) : t[n] = s[n + 1]
        /\ t = <<>> <=> Len(s) = 1
        /\ Last(s) = s[Len(s)]
    <3>1. s \in Seq(Objects)
      BY <1>a DEF s
    <3>2. /\ Len(s) \in Nat \ {0} /\ Head(s) = s[1] /\ Last(s) = s[Len(s)]
      BY <2>1, <3>1, Ends
    <3>3. /\ t \in Seq(Objects) /\ Len(t) = Len(s) - 1
          /\ \A n \in 1 .. Len(t) : t[n] = s[n + 1]
      BY <2>1, <3>1, HeadTailProperties
    <3>4. t = <<>> <=> Len(t) = 0
      BY <3>3, EmptySeq
    <3> HIDE DEF CallInv
    <3>5. t = <<>> <=> Len(s) = 1
      BY <3>2, <3>3, <3>4
    <3> QED BY <2>1, <3>1, <3>2, <3>3, <3>5
  <2>5. ASSUME t # <<>>
        PROVE  next[h] = Head(t) /\ Last(t) = Last(s) /\ next[h] # Null
    <3>1. 1 \in 1 .. Len(s) - 1 /\ 1 \in 1 .. Len(t) /\ Len(t) \in 1 .. Len(t)
      BY <2>3, <2>5
    <3>2. next[h] = s[2] /\ t[1] = s[2] /\ t[Len(t)] = s[Len(s)]
      <4>1. next[s[1]] = s[1 + 1]
        BY <1>a, <3>1 DEF Linked, s
      <4>2. t[1] = s[1 + 1] /\ t[Len(t)] = s[Len(t) + 1]
        BY <2>3, <3>1
      <4> QED BY <2>3, <4>1, <4>2
    <3>3. Head(t) = t[1] /\ Last(t) = t[Len(t)] /\ Head(t) \in Objects
      BY <2>3, <2>5, Ends
    <3> HIDE DEF CallInv
    <3> QED BY <2>3, <3>2, <3>3, CallRcuAssumption
  <2>6. ASSUME NEW n \in 1 .. Len(t) - 1
        PROVE  next[t[n]] = t[n + 1] /\ version[t[n]] < version[t[n + 1]]
    <3>1. n \in 1 .. Len(t) /\ n + 1 \in 1 .. Len(t) /\ n + 1 \in 1 .. Len(s) - 1
      BY <2>3
    <3>2. t[n] = s[n + 1] /\ t[n + 1] = s[n + 1 + 1]
      BY <2>3, <3>1
    <3> QED BY <1>a, <3>1, <3>2 DEF Linked, s
  <2>7. next[h] = Null <=> t = <<>>
    <3>1. t = <<>> => next[h] = Null
      <4>1. ASSUME t = <<>> PROVE Last(s) = h
        BY <2>3, <4>1
      <4> QED BY <1>a, <2>1, <4>1 DEF s
    <3> QED BY <2>5, <3>1
  <2>8. ListIntact'
    <3>1. ASSUME NEW j \in Cores
          PROVE  LET z == callbacks'[j]
                 IN  /\ rcu_data'[j].head = IF z = <<>> THEN Null ELSE Head(z)
                     /\ rcu_data'[j].tail = IF z = <<>> THEN Null ELSE Last(z)
                     /\ \A n \in 1 .. Len(z) - 1 :
                          next'[z[n]] = z[n + 1] /\ version'[z[n]] < version'[z[n + 1]]
      <4>1. CASE j = k
        BY <2>1, <2>2, <2>5, <2>6, <2>7, <4>1 DEF t
      <4>2. CASE j # k
        <5>1. callbacks'[j] = callbacks[j] /\ rcu_data'[j] = rcu_data[j]
          BY <2>1, <2>2, <4>2
        <5> QED BY <1>a, <2>1, <5>1 DEF Linked
      <4> QED BY <4>1, <4>2
    <3> QED BY <3>1 DEF ListIntact
  <2>9. \A j, l \in Cores : j # l => Range(callbacks'[j]) \cap Range(callbacks'[l]) = {}
    BY <2>1 DEF Lists, t, s
  <2>10. \A j \in Cores : IsInjective(callbacks'[j])
    BY <1>a, <2>1 DEF t
  <2>11. \A j \in Cores : callbacks'[j] # <<>> => next'[Last(callbacks'[j])] = Null
    BY <1>a, <2>1, <2>5 DEF t, s
  <2>12. \A o \in Objects : Owned(o)' => next'[o] = Null
    BY <2>1, OwnedSame DEF Lists
  <2>13. \A o \in Objects : version'[o] <= sequencer'
    BY <2>1 DEF Lists
  <2> QED BY <2>8, <2>9, <2>10, <2>11, <2>12, <2>13 DEF Lists
<1> QED BY <1>2, <1>3, <1>4, <1>5, <1>6, HeapKinds

\* Only one task at a time is reclaiming.
LEMMA OneReclaims ==
  ASSUME WriterExclusion, NEW c \in Deferrers, NEW d \in Deferrers,
         pc[c] \in {"sync", "scan", "delete"}, pc[d] \in {"sync", "scan", "delete"}
  PROVE  c = d
<1>1. c \in Coros /\ d \in Coros /\ Holds(c) /\ Holds(d)
  BY CallRcuAssumption, RcuAssumption DEF Holds
<1> QED BY <1>1 DEF WriterExclusion

\* Tasks that free nodes stay at the head of their lists.
LEMMA AtHeadNext ==
  ASSUME CallInv, [CNext]_cvars
  PROVE  AtHead'
<1> USE DEF CallInv, CallTypeOK, CTypeOK, TypeOK
<1>0. Deferrers \subseteq Writers /\ Deferrers \subseteq Coros
  BY CallRcuAssumption, RcuAssumption
<1>1. ASSUME \/ Outside /\ UNCHANGED callVars
             \/ \E k \in Cores, c \in Coros : RcuStep(k, c) \/ Alloc(k, c)
      PROVE  AtHead'
  <2>1. UNCHANGED <<node, rcu_data>>
    BY <1>1 DEF RcuStep, Alloc, callVars
  <2>2. \A d \in Deferrers : pc'[d] = "delete" => pc[d] = "delete"
    BY <1>1, DeferrerFrame
  <2> QED BY <2>1, <2>2 DEF AtHead
<1>2. ASSUME NEW k \in Cores, NEW c \in Coros, ListStep(k, c)
      PROVE  AtHead'
  <2>1. /\ c \in Deferrers /\ Executes(k, c)
        /\ pc[c] \in {"sync", "scan", "delete"}
        /\ \A d \in Coros : d # c => pc'[d] = pc[d]
    BY <1>2, ListStepFrame
  <2>2. Home(c) = k
    BY <2>1, RunsAtHome
  <2>3. ASSUME NEW d \in Deferrers, d # c
        PROVE  pc'[d] # "delete"
    BY <1>0, <2>1, <2>3, OneReclaims
  <2>4. pc'[c] = "delete" => node'[c] = rcu_data'[k].head
    <3> USE DEF Step
    <3>1. CASE call_rcu(k, c) \/ LoadVersion(k, c) \/ LeaveLoop(k, c)
      BY <3>1 DEF call_rcu, LoadVersion, LeaveLoop
    <3>2. CASE LoadHead(k, c)
      BY <3>2 DEF LoadHead
    <3>3. CASE FreeNode(k, c)
      BY <3>3 DEF FreeNode
    <3> QED BY <1>2, <3>1, <3>2, <3>3 DEF ListStep
  <2> QED BY <2>2, <2>3, <2>4 DEF AtHead
<1> QED BY <1>1, <1>2, StepKinds

-----------------------------------------------------------------------------
(***************************************************************************)
(* What the sections work on.                                              *)
(***************************************************************************)

\* No section works on an object that is freed.
LEMMA CProtectedNext ==
  ASSUME CallInv, [CNext]_cvars
  PROVE  CProtected'
<1> USE DEF CallInv, CallTypeOK, CTypeOK, TypeOK
<1>0. /\ Deferrers \subseteq Writers /\ Writers \subseteq Coros
      /\ num_threads \in Nat
      /\ \A c \in Coros : Home(c) \in Cores
  <2>1. \A c \in Coros : Home(c) \in Cores
    BY HomeType, ReactorAssumption DEF Coros
  <2> QED BY <2>1, CallRcuAssumption, RcuAssumption, ReactorAssumption
<1> SUFFICES ASSUME NEW r \in Coros, pc'[r] = "use"
             PROVE  \/ p'[r] = gp'
                    \/ \E w \in Retiring' : q'[w] = p'[r] /\ pc'[w] # "delete"
                    \/ p'[r] \in Staged'
  BY DEF CProtected
<1>1. CASE p'[r] = gp /\ UNCHANGED <<gp, callbacks>>
  BY <1>1
<1>2. CASE pc[r] = "use" /\ p'[r] = p[r]
  <2>0. /\ p[r] \in Objects
        /\ \/ p[r] = gp
           \/ \E w \in Retiring : q[w] = p[r] /\ pc[w] # "delete"
           \/ p[r] \in Staged
    BY <1>2 DEF CProtected
  <2>1. CASE p[r] = gp
    <3>1. CASE gp' = gp
      BY <1>2, <2>1, <3>1
    <3>2. ASSUME NEW k \in Cores, NEW c \in Coros, AssignPointer(k, c)
          PROVE  \E w \in Retiring' : q'[w] = p'[r] /\ pc'[w] # "delete"
      <4>1. /\ pc[c] = "assign" /\ pc'[c] = "sync" /\ q[c] = gp /\ q' = q
            /\ c \in Writers
        BY <3>2 DEF AssignPointer, Step, localVars, Roles, WriterExclusion
      <4>2. c \in Retiring'
        BY <4>1 DEF Retiring
      <4> QED BY <1>2, <2>1, <4>1, <4>2
    <3>3. ASSUME NEW k \in Cores, NEW c \in Coros,
                 Alloc(k, c) \/ Delete(k, c) \/ call_rcu(k, c) \/ FreeNode(k, c)
          PROVE  gp' = gp
      BY <3>3 DEF Alloc, New, Delete, call_rcu, FreeNode, heapVars
    <3> QED BY <3>1, <3>2, <3>3, HeapKinds DEF Quiet
  <2>2. ASSUME NEW w \in Retiring, q[w] = p[r], pc[w] # "delete"
        PROVE  \/ \E v \in Retiring' : q'[v] = p'[r] /\ pc'[v] # "delete"
               \/ p'[r] \in Staged'
    <3>0. w \in Coros /\ w \in Writers /\ Holds(w)
      BY <1>0 DEF Retiring, Holds
    <3>1. ASSUME w \in Retiring', q'[w] = q[w], pc'[w] # "delete"
          PROVE  \E v \in Retiring' : q'[v] = p'[r] /\ pc'[v] # "delete"
      BY <1>2, <2>2, <3>1
    <3>2. ASSUME pc'[w] = pc[w], q'[w] = q[w]
          PROVE  \E v \in Retiring' : q'[v] = p'[r] /\ pc'[v] # "delete"
      BY <2>2, <3>1, <3>2 DEF Retiring
    <3>3. CASE Outside
      BY <3>2, <3>3, OutsideFrame DEF Outside, localVars
    <3>4. ASSUME NEW k \in Cores, NEW c \in Coros, RcuStep(k, c) \/ Alloc(k, c)
          PROVE  \E v \in Retiring' : q'[v] = p'[r] /\ pc'[v] # "delete"
      <4> USE DEF Step, localVars
      <4>1. ASSUME c # w
            PROVE  pc'[w] = pc[w] /\ q'[w] = q[w]
        <5>1. CASE \/ ReadLock(k, c) \/ LoadSequencer(k, c) \/ PublishVersion(k, c)
                   \/ Dereference(k, c) \/ ReadUnlock(k, c)
          BY <3>0, <4>1, <5>1
          DEF ReadLock, LoadSequencer, PublishVersion, Dereference, ReadUnlock
        <5>2. CASE \/ New(k, c) \/ SpinAcquire(k, c) \/ SpinYield(k, c)
                   \/ LoadOld(k, c) \/ AssignPointer(k, c)
                   \/ SpinUnlock(k, c) \/ TaskReturn(k, c)
          BY <3>0, <4>1, <5>2
          DEF New, SpinAcquire, SpinYield, LoadOld, AssignPointer, SpinUnlock, TaskReturn
        <5>3. CASE \/ FetchAdd(k, c) \/ ScanPass(k, c) \/ ScanWait(k, c)
                   \/ ScanEnd(k, c) \/ Delete(k, c)
          BY <3>0, <4>1, <5>3 DEF FetchAdd, ScanPass, ScanWait, ScanEnd, Delete
        <5> QED BY <3>4, <5>1, <5>2, <5>3 DEF RcuStep, Alloc
      <4>2. ASSUME c = w
            PROVE  w \in Retiring' /\ q'[w] = q[w] /\ pc'[w] # "delete"
        <5>1. pc[c] \in {"sync", "scan"} /\ (c \in Deferrers => pc[c] = "sync")
          BY <2>2, <4>2 DEF Retiring
        <5>2. CASE \/ ReadLock(k, c) \/ LoadSequencer(k, c) \/ PublishVersion(k, c)
                   \/ Dereference(k, c) \/ ReadUnlock(k, c)
          BY <5>1, <5>2
          DEF ReadLock, LoadSequencer, PublishVersion, Dereference, ReadUnlock
        <5>3. CASE \/ New(k, c) \/ SpinAcquire(k, c) \/ SpinYield(k, c)
                   \/ LoadOld(k, c) \/ AssignPointer(k, c)
                   \/ SpinUnlock(k, c) \/ TaskReturn(k, c)
          BY <5>1, <5>3
          DEF New, SpinAcquire, SpinYield, LoadOld, AssignPointer, SpinUnlock, TaskReturn
        <5>4. CASE /\ c \notin Deferrers
                   /\ FetchAdd(k, c) \/ ScanPass(k, c) \/ ScanWait(k, c)
          BY <3>0, <4>2, <5>4 DEF FetchAdd, ScanPass, ScanWait, Retiring
        <5>5. CASE c \notin Deferrers /\ ScanEnd(k, c)
          <6>1. pc[c] = "scan" /\ i[c] = num_threads
            BY <5>5 DEF ScanEnd
          <6>2. i[w] <= Home(r)
            BY <1>2, <2>2, <3>0, <4>2, <5>5, <6>1 DEF CGracePeriod, GraceOf
          <6>3. Home(r) \in 0 .. num_threads - 1
            BY <1>0 DEF Cores
          <6> QED BY <1>0, <4>2, <6>1, <6>2, <6>3
        <5>6. CASE Delete(k, c)
          BY <5>1, <5>6 DEF Delete
        <5> QED BY <3>4, <5>2, <5>3, <5>4, <5>5, <5>6 DEF RcuStep, Alloc
      <4> QED BY <3>1, <3>2, <4>1, <4>2
    <3>5. ASSUME NEW k \in Cores, NEW c \in Coros, ListStep(k, c)
          PROVE  \/ \E v \in Retiring' : q'[v] = p'[r] /\ pc'[v] # "delete"
                 \/ p'[r] \in Staged'
      <4>1. /\ c \in Deferrers /\ c \in Writers /\ q' = q
            /\ pc[c] \in {"sync", "scan", "delete"}
            /\ \A d \in Coros : d # c => pc'[d] = pc[d]
        BY <3>5, ListStepFrame
      <4>2. CASE c # w
        BY <3>0, <3>2, <4>1, <4>2
      <4>3. CASE c = w
        <5>1. pc[c] = "sync"
          BY <2>2, <4>1, <4>3 DEF Retiring
        <5>2. call_rcu(k, c)
          BY <3>5, <5>1 DEF ListStep, LoadVersion, LoadHead, FreeNode, LeaveLoop, Step
        <5>3. q[c] \in Staged'
          BY <5>2, CallEffect
        <5> QED BY <1>2, <2>2, <4>3, <5>3
      <4> QED BY <4>2, <4>3
    <3> QED BY <3>3, <3>4, <3>5, StepKinds
  <2>3. CASE p[r] \in Staged
    <3>1. CASE callbacks' = callbacks
      BY <1>2, <2>3, <3>1 DEF Staged
    <3>2. ASSUME NEW k \in Cores, NEW c \in Coros, call_rcu(k, c)
          PROVE  p'[r] \in Staged'
      BY <1>2, <2>0, <2>3, <3>2, CallEffect
    <3>3. ASSUME NEW k \in Cores, NEW c \in Coros, FreeNode(k, c)
          PROVE  p'[r] \in Staged'
      <4>1. /\ Home(c) = k /\ c \in Deferrers /\ pc[c] = "delete"
            /\ node[c] \in Range(callbacks[k])
            /\ node[c] \in Objects /\ version[node[c]] <= min_version[c]
            /\ \A o \in Objects : o \in Staged' <=> o \in Staged /\ o # node[c]
        BY <3>3, FreeEffect
      <4>2. p[r] # node[c]
        <5>1. p[r] = node[c] => min_version[c] < version[node[c]]
          BY <1>2, <4>1 DEF ScanGrace
        <5>2. version[node[c]] \in Nat /\ min_version[c] \in Nat
          BY <1>0, <4>1
        <5> HIDE DEF CallInv
        <5> QED BY <4>1, <5>1, <5>2
      <4> QED BY <1>2, <2>0, <2>3, <4>1, <4>2
    <3>4. ASSUME NEW k \in Cores, NEW c \in Coros,
                 Alloc(k, c) \/ UNCHANGED callVars
          PROVE  callbacks' = callbacks
      BY <3>4 DEF Alloc, callVars
    <3> QED BY <3>1, <3>2, <3>3, <3>4, HeapKinds DEF Quiet
  <2> QED BY <2>0, <2>1, <2>2, <2>3
<1> QED BY <1>1, <1>2, SectionFrame

\* The grace periods of the writers that wait.
LEMMA CGracePeriodNext ==
  ASSUME CallInv, [CNext]_cvars
  PROVE  CGracePeriod'
<1> USE DEF CallInv, CallTypeOK, CTypeOK
<1> DEFINE W == Writers \ Deferrers
<1>0. W \in SUBSET Writers /\ Writers \subseteq Coros
  BY RcuAssumption
<1>1. \A w \in W : pc[w] = "scan" => q[w] # gp
  BY DEF OwnedOnce, Retiring
<1>2. CASE [Next]_vars
  BY <1>0, <1>1, <1>2, GraceNext DEF CGracePeriod
<1>3. ASSUME NEW k \in Cores, NEW c \in Coros, ListStep(k, c)
      PROVE  CGracePeriod'
  <2>1. /\ c \in Deferrers /\ UNCHANGED <<p, q, versions, writer_version>>
        /\ \A d \in Coros : d # c => pc'[d] = pc[d]
        /\ pc'[c] # "use"
    BY <1>3, ListStepFrame
  <2>2. \A d \in Coros : d # c => i'[d] = i[d] /\ current_core'[d] = current_core[d]
    BY <1>3
    DEF ListStep, call_rcu, LoadVersion, LoadHead, FreeNode, LeaveLoop, localVars, TypeOK
  <2>3. \A w \in W : w \in Coros /\ w # c
    BY <1>0, <2>1
  <2>4. \A r \in Coros : pc'[r] = "use" => pc[r] = "use"
    BY <2>1
  <2>5. ASSUME NEW r \in Coros, NEW w \in W,
               pc'[r] = "use", pc'[w] = "scan", q'[w] = p'[r]
        PROVE  /\ Home(r) # current_core'[w]
               /\ versions'[Home(r)] < writer_version'[w]
               /\ i'[w] <= Home(r)
    <3>1. pc[r] = "use" /\ pc[w] = "scan" /\ q[w] = p[r]
      BY <2>1, <2>3, <2>4, <2>5
    <3>2. /\ Home(r) # current_core[w]
          /\ versions[Home(r)] < writer_version[w]
          /\ i[w] <= Home(r)
      BY <3>1 DEF CGracePeriod, GraceOf
    <3> QED BY <2>1, <2>2, <2>3, <3>2
  <2> QED BY <2>5 DEF CGracePeriod, GraceOf
<1> QED BY <1>2, <1>3, StepKinds, AllocIsNext, OutsideIsNext, RcuStepIsNext

\* The stamps protect the sections.
LEMMA StagedGraceNext ==
  ASSUME CallInv, [CNext]_cvars
  PROVE  StagedGrace'
<1> USE DEF CallInv, CallTypeOK, CTypeOK
<1> SUFFICES ASSUME NEW r \in Coros, NEW k \in Cores, pc'[r] = "use",
                    p'[r] \in Range(callbacks'[k])
             PROVE  Home(r) # k /\ versions'[Home(r)] < version'[p'[r]]
  BY DEF StagedGrace
<1>0. Home(r) \in Cores
  BY HomeType, ReactorAssumption DEF Coros
<1>1. ~(p'[r] = gp /\ callbacks' = callbacks)
  <2>1. Owned(gp) /\ gp \in Objects
    BY DEF Owned, TypeOK
  <2> QED BY <2>1, InStaged DEF OwnedOnce
<1>2. /\ pc[r] = "use" /\ p'[r] = p[r] /\ p[r] \in Objects
      /\ versions'[Home(r)] = versions[Home(r)]
  BY <1>1, SectionFrame DEF TypeOK
<1>3. ASSUME p[r] \in Range(callbacks[k]), version'[p[r]] = version[p[r]]
      PROVE  Home(r) # k /\ versions'[Home(r)] < version'[p'[r]]
  BY <1>2, <1>3 DEF StagedGrace
<1>4. CASE UNCHANGED <<callbacks, version>>
  BY <1>2, <1>3, <1>4
<1>5. ASSUME NEW j \in Cores, NEW c \in Coros, call_rcu(j, c)
      PROVE  Home(r) # k /\ versions'[Home(r)] < version'[p'[r]]
  <2>1. /\ Home(c) = j /\ pc[c] = "sync"
        /\ q[c] \in Objects /\ q[c] \notin Staged
        /\ version' = [version EXCEPT ![q[c]] = sequencer + 1]
        /\ \A l \in Cores : l # j => callbacks'[l] = callbacks[l]
        /\ Range(callbacks'[j]) = Range(callbacks[j]) \cup {q[c]}
    BY <1>5, CallEffect
  <2>2. CASE p[r] \in Range(callbacks[k])
    <3>1. p[r] # q[c]
      BY <2>1, <2>2, InStaged
    <3> QED BY <1>2, <1>3, <2>1, <2>2, <3>1
  <2>3. CASE p[r] \notin Range(callbacks[k])
    <3>1. k = j /\ p[r] = q[c]
      BY <1>2, <2>1, <2>3
    <3>2. Executes(j, c) /\ r # c
      BY <1>2, <1>5, <2>1 DEF call_rcu, Step
    <3>3. Home(r) # j
      BY <1>2, <3>2, SoleRunner
    <3>4. versions[Home(r)] <= sequencer
      BY <1>2 DEF Published
    <3>5. version'[p[r]] = sequencer + 1
      BY <2>1, <3>1
    <3>6. versions[Home(r)] \in Nat /\ sequencer \in Nat
      BY <1>0 DEF TypeOK, ReactorTypeOK
    <3>7. versions[Home(r)] < sequencer + 1
      <4> HIDE DEF CallInv
      <4> QED BY <3>4, <3>6
    <3> QED BY <1>2, <3>1, <3>3, <3>5, <3>7
  <2> QED BY <2>2, <2>3
<1>6. ASSUME NEW j \in Cores, NEW c \in Coros, FreeNode(j, c)
      PROVE  Home(r) # k /\ versions'[Home(r)] < version'[p'[r]]
  <2>1. /\ version' = version
        /\ \A l \in Cores : l # j => callbacks'[l] = callbacks[l]
        /\ Range(callbacks'[j]) = Range(callbacks[j]) \ {node[c]}
    BY <1>6, FreeEffect
  <2> QED BY <1>2, <1>3, <2>1
<1>7. ASSUME NEW j \in Cores, NEW c \in Coros, Alloc(j, c) \/ UNCHANGED callVars
      PROVE  UNCHANGED <<callbacks, version>>
  BY <1>7 DEF Alloc, callVars
<1> QED BY <1>4, <1>5, <1>6, <1>7, HeapKinds DEF Quiet

\* A scan that has passed a section's core knows that core's version.
LEMMA ScanGraceNext ==
  ASSUME CallInv, [CNext]_cvars
  PROVE  ScanGrace'
<1> USE DEF CallInv, CallTypeOK, CTypeOK
<1> SUFFICES ASSUME NEW r \in Coros, NEW c \in Deferrers, pc'[r] = "use",
                    p'[r] \in Range(callbacks'[Home(c)]),
                    pc'[c] = "delete" \/ (pc'[c] = "scan" /\ Home(r) < i'[c])
             PROVE  min_version'[c] < version'[p'[r]]
  BY DEF ScanGrace
<1>0. /\ Home(r) \in Cores /\ Home(c) \in Cores /\ c \in Coros
      /\ Home(r) \in Nat /\ Home(r) < num_threads
  <2>1. c \in Coros
    BY CallRcuAssumption, RcuAssumption
  <2>2. Home(r) \in Cores /\ Home(c) \in Cores
    BY <2>1, HomeType, ReactorAssumption DEF Coros
  <2> QED BY <2>1, <2>2, ReactorAssumption DEF Cores
<1>1. ~(p'[r] = gp /\ callbacks' = callbacks)
  <2>1. Owned(gp) /\ gp \in Objects
    BY DEF Owned, TypeOK
  <2> QED BY <1>0, <2>1, InStaged DEF OwnedOnce
<1>2. /\ pc[r] = "use" /\ p'[r] = p[r] /\ p[r] \in Objects
      /\ versions'[Home(r)] = versions[Home(r)]
  BY <1>1, SectionFrame DEF TypeOK
<1>3. ASSUME p[r] \in Range(callbacks[Home(c)]), version'[p[r]] = version[p[r]],
             min_version'[c] = min_version[c],
             pc[c] = "delete" \/ (pc[c] = "scan" /\ Home(r) < i[c])
      PROVE  min_version'[c] < version'[p'[r]]
  <2>1. min_version[c] < version[p[r]]
    BY <1>2, <1>3 DEF ScanGrace
  <2> QED BY <1>2, <1>3, <2>1
<1>4. ASSUME \/ Outside /\ UNCHANGED callVars
             \/ \E k \in Cores, d \in Coros : RcuStep(k, d) \/ Alloc(k, d)
      PROVE  min_version'[c] < version'[p'[r]]
  <2>1. UNCHANGED <<callbacks, version, min_version>>
    BY <1>4 DEF RcuStep, Alloc, callVars
  <2>2. pc'[c] = pc[c] /\ i'[c] = i[c]
    BY <1>4, DeferrerFrame
  <2> QED BY <1>2, <1>3, <2>1, <2>2
<1>5. ASSUME NEW k \in Cores, NEW d \in Coros, ListStep(k, d)
      PROVE  min_version'[c] < version'[p'[r]]
  <2>1. /\ d \in Deferrers /\ Executes(k, d)
        /\ pc[d] \in {"sync", "scan", "delete"}
        /\ \A e \in Coros : e # d => pc'[e] = pc[e]
    BY <1>5, ListStepFrame
  <2>2. c = d /\ Home(c) = k
    <3>1. c = d
      BY <1>0, <2>1, OneReclaims
    <3> QED BY <2>1, <3>1, RunsAtHome
  <2>3. min_version[c] \in Nat /\ version[p[r]] \in Nat /\ i[c] \in Nat
    BY <1>0, <1>2, CallRcuAssumption, ReactorAssumption DEF TypeOK
  <2> USE DEF Step, localVars, TypeOK
  <2>4. CASE call_rcu(k, c)
    <3>1. pc'[c] # "delete" /\ i'[c] = 0
      BY <1>0, <2>4 DEF call_rcu
    <3>2. Home(r) < 0
      BY <3>1
    <3> HIDE DEF CallInv
    <3> QED BY <1>0, <3>2
  <2>5. CASE LoadVersion(k, c)
    <3>1. /\ pc[c] = "scan" /\ pc'[c] = "scan" /\ i'[c] = i[c] + 1
          /\ UNCHANGED <<callbacks, version>>
          /\ min_version'[c] = IF i[c] # current_core[c] /\ versions[i[c]] < min_version[c]
                               THEN versions[i[c]] ELSE min_version[c]
      BY <1>0, <2>5 DEF LoadVersion
    <3>2. CASE Home(r) < i[c]
      <4>1. min_version[c] < version[p[r]]
        BY <1>2, <3>1, <3>2 DEF ScanGrace
      <4>2. i[c] \in Cores
        <5>1. i[c] < num_threads /\ i[c] \in Nat /\ num_threads \in Nat
          BY <2>3, <2>5, ReactorAssumption DEF LoadVersion
        <5> HIDE DEF CallInv
        <5> QED BY <5>1 DEF Cores
      <4>3. versions[i[c]] \in Nat
        BY <4>2 DEF ReactorTypeOK
      <4>4. min_version'[c] < version[p[r]]
        <5> HIDE DEF CallInv
        <5> QED BY <2>3, <3>1, <4>1, <4>3
      <4> QED BY <1>2, <3>1, <4>4
    <3>3. CASE Home(r) = i[c]
      <4>1. Home(r) # k /\ versions[Home(r)] < version[p[r]]
        BY <1>2, <2>2, <3>1 DEF StagedGrace
      <4>2. current_core[c] = k
        BY <2>2, <3>1
      <4>3. versions[Home(r)] \in Nat
        BY <1>0 DEF ReactorTypeOK
      <4>4. min_version'[c] < version[p[r]]
        <5>1. i[c] # current_core[c]
          BY <3>3, <4>1, <4>2
        <5>2. min_version'[c] = IF versions[Home(r)] < min_version[c]
                                THEN versions[Home(r)] ELSE min_version[c]
          BY <3>1, <3>3, <5>1
        <5> HIDE DEF CallInv
        <5> QED BY <2>3, <4>1, <4>3, <5>2
      <4> QED BY <1>2, <3>1, <4>4
    <3>4. Home(r) < i[c] \/ Home(r) = i[c]
      <4>1. Home(r) < i[c] + 1
        BY <3>1
      <4> HIDE DEF CallInv
      <4> QED BY <1>0, <2>3, <4>1
    <3> QED BY <3>2, <3>3, <3>4
  <2>6. CASE LoadHead(k, c)
    BY <1>0, <1>2, <1>3, <2>6 DEF LoadHead
  <2>7. CASE FreeNode(k, c)
    <3>1. /\ pc[c] = "delete" /\ UNCHANGED <<version, min_version>>
          /\ Range(callbacks'[k]) = Range(callbacks[k]) \ {node[c]}
      BY <1>0, <2>7, FreeEffect
    <3> QED BY <1>2, <1>3, <2>2, <3>1
  <2>8. CASE LeaveLoop(k, c)
    BY <1>0, <2>8 DEF LeaveLoop
  <2> QED BY <1>5, <2>2, <2>4, <2>5, <2>6, <2>7, <2>8 DEF ListStep
<1> QED BY <1>4, <1>5, StepKinds

-----------------------------------------------------------------------------
(***************************************************************************)
(* The theorems.                                                           *)
(***************************************************************************)

\* At the start gp's object is the only one and the lists are empty.
LEMMA CallInvInit == CInit => CallInv
<1> SUFFICES ASSUME CInit PROVE CallInv
  OBVIOUS
<1>0. /\ Deferrers \subseteq Coros /\ Writers \subseteq Coros /\ UINT_MAX \in Nat
      /\ Init
  BY CallRcuAssumption, RcuAssumption DEF CInit
<1>1. TypeOK /\ Placed /\ Roles /\ WriterExclusion /\ Published
  BY <1>0, TypeInit, RcuInvInit DEF RcuInv
<1>2. /\ \A c \in Coros : pc[c] = "loop"
      /\ gp = First /\ First \in Objects /\ allocated = {First}
      /\ sequencer = 0
  BY <1>0, RcuAssumption DEF Init
<1>3. Fresh = {} /\ Retiring = {}
  BY <1>0, <1>2 DEF Fresh, Retiring
<1>4. /\ next = [o \in Objects |-> Null]
      /\ version = [o \in Objects |-> 0]
      /\ rcu_data = [k \in Cores |-> [head |-> Null, tail |-> Null, count |-> 0]]
      /\ min_version = [c \in Coros |-> 0]
      /\ node = [c \in Coros |-> Null]
      /\ callbacks = [k \in Cores |-> <<>>]
  BY DEF CInit
<1>5. CallTypeOK
  <2>1. callbacks \in [Cores -> Seq(Objects)]
    BY <1>4, EmptySeq
  <2>2. CTypeOK
    BY <1>0, <1>1, <1>4 DEF CTypeOK, Nodes
  <2> QED BY <1>0, <1>2, <2>1, <2>2 DEF CallTypeOK
<1>6. \A k \in Cores : /\ callbacks[k] = <<>> /\ Range(callbacks[k]) = {}
                       /\ IsInjective(callbacks[k])
  <2>1. <<>> \in Seq(Objects)
    BY EmptySeq
  <2>2. Range(<<>>) = {} /\ IsInjective(<<>>)
    BY <2>1, RangeEmpty
  <2> QED BY <1>4, <2>2
<1>7. Staged = {}
  BY <1>6 DEF Staged
<1>8. OwnedOnce
  BY <1>2, <1>3, <1>7 DEF OwnedOnce, Owned
<1>9. ListIntact
  <2>1. Len(<<>>) - 1 = 0 - 1
    OBVIOUS
  <2>2. 1 .. Len(<<>>) - 1 = {}
    BY <2>1
  <2> QED BY <1>4, <1>6, <2>2 DEF ListIntact
<1>10. Lists
  BY <1>2, <1>4, <1>6, <1>9 DEF Lists
<1>11. AtHead /\ CProtected /\ CGracePeriod /\ StagedGrace /\ ScanGrace
  BY <1>0, <1>2
  DEF AtHead, CProtected, CGracePeriod, GraceOf, StagedGrace, ScanGrace
<1> QED BY <1>1, <1>5, <1>8, <1>10, <1>11 DEF CallInv

\* Every step keeps the invariant.
LEMMA CallInvNext ==
  ASSUME HeadsZeroed, CallInv, [CNext]_cvars
  PROVE  CallInv'
<1>1. CallTypeOK' /\ OwnedOnce' /\ Lists' /\ AtHead'
  BY CallTypeNext, OwnedOnceNext, ListsNext, AtHeadNext
<1>2. Placed' /\ Roles' /\ WriterExclusion' /\ Published'
  BY BaseNext
<1>3. CProtected' /\ CGracePeriod' /\ StagedGrace' /\ ScanGrace'
  BY CProtectedNext, CGracePeriodNext, StagedGraceNext, ScanGraceNext
<1> QED BY <1>1, <1>2, <1>3 DEF CallInv

\* The invariant holds throughout.
LEMMA CallInvariant ==
  ASSUME HeadsZeroed
  PROVE  CSpec => []CallInv
<1>1. CallInv /\ [CNext]_cvars => CallInv'
  BY CallInvNext
<1> QED BY <1>1, CallInvInit, PTL DEF CSpec

\* Deferred reclamation protects readers: no section works on an object that
\* synchronize_rcu() or thread_call_rcu() (rcu.cpp:91) has let go, and gp
\* never points to one.
THEOREM DeferredFreeSafe ==
  ASSUME HeadsZeroed
  PROVE  CSpec => []NoUseAfterFree
<1>1. CallInv => NoUseAfterFree
  <2> SUFFICES ASSUME CallInv PROVE NoUseAfterFree
    OBVIOUS
  <2> USE DEF CallInv, CallTypeOK, CTypeOK, TypeOK
  <2>1. gp \in allocated
    BY DEF OwnedOnce, Owned
  <2>2. ASSUME NEW r \in Coros, pc[r] = "use"
        PROVE  p[r] \in allocated
    <3>1. p[r] \in Objects
      OBVIOUS
    <3>2. Owned(p[r]) \/ p[r] \in Staged
      BY <2>2 DEF CProtected, Owned
    <3> QED BY <3>1, <3>2 DEF OwnedOnce
  <2> QED BY <2>1, <2>2 DEF NoUseAfterFree
<1> QED BY <1>1, CallInvariant, PTL

\* Nothing leaks from the rcu_data lists and nothing is freed twice: every
\* allocated object is owned or in exactly one list.
THEOREM NothingLeaks ==
  ASSUME HeadsZeroed
  PROVE  CSpec => []CallbacksAccounted
<1>1. CallInv => CallbacksAccounted
  <2> SUFFICES ASSUME CallInv PROVE CallbacksAccounted
    OBVIOUS
  <2> USE DEF CallInv, CallTypeOK
  <2> DEFINE owned == {p[c] : c \in Fresh} \cup {q[c] : c \in Retiring} \cup {gp}
  <2>1. owned \subseteq Objects /\ Staged \subseteq Objects /\ allocated \subseteq Objects
    <3>1. owned \subseteq Objects /\ allocated \subseteq Objects
      BY RcuAssumption DEF CTypeOK, TypeOK, Fresh, Retiring
    <3>2. \A k \in Cores : Range(callbacks[k]) \subseteq Objects
      BY RangeEmpty
    <3> QED BY <3>1, <3>2 DEF Staged
  <2>2. \A o \in Objects : o \in owned <=> Owned(o)
    BY DEF Owned
  <2>3. allocated = owned \cup Staged /\ owned \cap Staged = {}
    BY <2>1, <2>2 DEF OwnedOnce
  <2> QED BY <2>3 DEF CallbacksAccounted, Lists
<1> QED BY <1>1, CallInvariant, PTL

\* The list a thread walks holds exactly what it was handed, oldest first and
\* with increasing stamps.
THEOREM ListsIntact ==
  ASSUME HeadsZeroed
  PROVE  CSpec => []ListIntact
<1>1. CallInv => ListIntact
  BY DEF CallInv, Lists
<1> QED BY <1>1, CallInvariant, PTL

-----------------------------------------------------------------------------
(***************************************************************************)
(* PART THREE.  RCU with the Mutex and the I/O service (module RcuMutex).  *)
(* Coroutines change cores here, so `its core' is the one whose stack a    *)
(* coroutine is on top of.                                                 *)
(***************************************************************************)

\* The types, with those of module Rcu.
MTypes ==
  /\ ReactorTypeOK
  /\ sequencer \in Nat
  /\ gp \in Objects
  /\ allocated \subseteq Objects
  /\ locked \in BOOLEAN
  /\ round \in [Coros -> Nat]
  /\ p \in [Coros -> Objects]
  /\ q \in [Coros -> Objects]
  /\ global_version \in [Coros -> Nat]
  /\ writer_version \in [Coros -> Nat]
  /\ current_core \in [Coros -> Cores]
  /\ i \in [Coros -> 0 .. num_threads]
  /\ pc \in [Coros -> MPcValues]
  /\ queue \in Seq(Coros)
  /\ ios \subseteq Cores \X IoReaders

\* Where a coroutine may be between two of its steps: on a stack, in an inbox,
\* in the mutex's queue, at the device, or nowhere.
Queued(c) == c \in Range(queue)
AtDevice(c) == \E k \in Cores : <<k, c>> \in ios

MParked ==
  \A c \in Coros :
    /\ OnStack(c) => /\ ~InInbox(c) /\ ~Unsent(c) /\ ~Queued(c)
                     /\ pc[c] \notin {"iowait", "done"}
    /\ InInbox(c) => ~Unsent(c) /\ pc[c] \in {"loop", "scan"}
    /\ Unsent(c) => pc[c] = "loop"
    /\ Queued(c) => pc[c] \in {"lock", "rlock"}
    /\ AtDevice(c) => pc[c] = "iowait"

WaitsOnce ==
  /\ IsInjective(queue)
  /\ \A c \in Coros, j, k \in Cores : <<j, c>> \in ios /\ <<k, c>> \in ios => j = k

\* A coroutine that is neither between two rounds nor waiting for something
\* is on top of a stack; below one there are only coroutines that have called
\* unlock(), also when the one on top has just queued itself.
OnTop(c) == \E k \in Cores : running[k] = c

Stacks ==
  /\ \A c \in Coros :
       pc[c] \notin {"loop", "lock", "rlock", "scan", "iowait", "done"} => OnTop(c)
  /\ \A d \in Coros : resumer[d] # None => pc[resumer[d]] = "loop"
  /\ \A k \in Cores : suspending[k] /\ running[k] # None => pc[running[k]] = "loop"

\* synchronize_rcu() yields to the core it started on.
ScansHere ==
  \A c \in Coros, k \in Cores :
    pc[c] = "scan" /\ (running[k] = c \/ c \in Range(inbox[k])) => current_core[c] = k

MRoles ==
  \A c \in Coros :
    /\ pc[c] \in {"rload", "rstore", "deref", "use"} => c \notin Writers
    /\ pc[c] \in {"lock", "swap", "assign", "delete"} => c \in Writers
    /\ pc[c] = "rlock" => c \in Lockers
    /\ pc[c] = "io" => c \in IoReaders
    /\ pc[c] = "unlock" => c \in Writers \cup Lockers

\* One owner of the mutex at a time.
Owns(c) ==
  \/ pc[c] = "unlock"
  \/ c \in Writers /\ pc[c] \in {"swap", "assign", "sync", "scan", "delete"}

OwnerExclusion ==
  /\ \A c, d \in Coros : Owns(c) /\ Owns(d) => c = d
  /\ \A c \in Coros : Owns(c) => locked
  /\ \A c \in Coros : pc[c] = "assign" => q[c] = gp

\* Published and GracePeriod of module Rcu, for the core a reader runs on.
MPublished ==
  /\ \A c \in Coros : pc[c] = "rstore" => global_version[c] <= sequencer
  /\ \A c \in Coros, k \in Cores :
       running[k] = c /\ pc[c] \in {"deref", "use"} => versions[k] <= sequencer
  /\ \A k \in Cores :
       rcu_count[k] # Refresh - 1 =>
         \/ versions[k] <= sequencer
         \/ running[k] # None /\ pc[running[k]] \in {"rload", "rstore"}

MGracePeriod ==
  \A r \in Coros, w \in Writers, k \in Cores :
    running[k] = r /\ pc[r] = "use" /\ pc[w] = "scan" /\ q[w] = p[r] =>
      /\ k # current_core[w]
      /\ versions[k] < writer_version[w]
      /\ i[w] <= k

Placement == OneFrame /\ InboxOnce /\ MParked /\ WaitsOnce /\ Stacks /\ ScansHere

RcuMutexInv ==
  /\ MTypes
  /\ Placement
  /\ MRoles
  /\ OwnerExclusion
  /\ HeapAccounted
  /\ MPublished
  /\ Protected
  /\ MGracePeriod

\* The initial state is well typed.
LEMMA MTypesInit == MInit => MTypes
<1> SUFFICES ASSUME MInit PROVE MTypes
  OBVIOUS
<1> USE DEF MInit, Init, ReactorInit
<1>1. ReactorTypeOK
  <2>1. submitted \in 0 .. NumTasks
    BY ReactorAssumption
  <2>2. inbox \in [Cores -> Seq(Coros)]
    BY EmptySeq
  <2>3. /\ rcu_count \in [Cores -> 0 .. (Refresh - 1)]
        /\ versions \in [Cores -> Nat]
    BY ReactorAssumption
  <2> QED BY <2>1, <2>2, <2>3 DEF ReactorTypeOK
<1>2. i \in [Coros -> 0 .. num_threads]
  BY ReactorAssumption
<1>3. current_core \in [Coros -> Cores]
  BY ReactorAssumption DEF Cores
<1> QED
  BY <1>1, <1>2, <1>3, RcuAssumption, EmptySeq DEF MTypes, MPcValues, PcValues

\* Every step of a task that module Rcu describes keeps the types.
LEMMA TaskStepTypes ==
  ASSUME MTypes, NEW k \in Cores, NEW c \in Coros, TaskStep(k, c)
  PROVE  MTypes'
<1> USE DEF MTypes, MPcValues, PcValues, Step
<1>0. UNCHANGED <<queue, ios>>
  BY DEF TaskStep, mutexVars
<1>1. CASE ReadLock(k, c)
  <2>1. rcu_count[k] \in 0 .. (Refresh - 1) /\ Refresh \in Nat \ {0}
    BY ReactorAssumption DEF ReactorTypeOK
  <2>2. 0 \in 0 .. (Refresh - 1)
    BY <2>1
  <2>3. rcu_count[k] + 1 # Refresh => rcu_count[k] + 1 \in 0 .. (Refresh - 1)
    BY <2>1
  <2>4. rcu_count' \in [Cores -> 0 .. (Refresh - 1)]
    BY <1>1, <2>2, <2>3 DEF ReadLock, ReactorTypeOK
  <2> QED
    BY <1>0, <1>1, <2>4
    DEF ReadLock, ReactorTypeOK, stackVars, heapVars, localVars
<1>2. CASE LoadSequencer(k, c)
  BY <1>0, <1>2 DEF LoadSequencer, ReactorTypeOK, reactorVars, heapVars
<1>3. CASE PublishVersion(k, c)
  BY <1>0, <1>3 DEF PublishVersion, ReactorTypeOK, stackVars, heapVars, localVars
<1>4. CASE Dereference(k, c)
  BY <1>0, <1>4 DEF Dereference, ReactorTypeOK, reactorVars, heapVars
<1>5. CASE ReadUnlock(k, c)
  <2>1. round' \in [Coros -> Nat]
    BY <1>5 DEF ReadUnlock
  <2> QED
    BY <1>0, <1>5, <2>1 DEF ReadUnlock, ReactorTypeOK, reactorVars, heapVars
<1>6. CASE New(k, c)
  <2>1. PICK o \in Objects \ allocated :
          allocated' = allocated \cup {o} /\ p' = [p EXCEPT ![c] = o]
    BY <1>6 DEF New
  <2>2. allocated' \subseteq Objects /\ p' \in [Coros -> Objects]
    BY <2>1
  <2> QED BY <1>0, <1>6, <2>2 DEF New, ReactorTypeOK, reactorVars
<1>7. CASE ScanWait(k, c)
  BY <1>0, <1>7, YieldType DEF ScanWait, heapVars, localVars
<1>8. CASE LoadOld(k, c)
  BY <1>0, <1>8 DEF LoadOld, ReactorTypeOK, reactorVars, heapVars
<1>9. CASE AssignPointer(k, c)
  BY <1>0, <1>9 DEF AssignPointer, ReactorTypeOK, reactorVars, localVars
<1>10. CASE FetchAdd(k, c)
  <2>1. 0 \in 0 .. num_threads
    BY ReactorAssumption
  <2>2. /\ sequencer' \in Nat
        /\ writer_version' \in [Coros -> Nat]
        /\ current_core' \in [Coros -> Cores]
    BY <1>10 DEF FetchAdd
  <2> QED
    BY <1>0, <1>10, <2>1, <2>2 DEF FetchAdd, ReactorTypeOK, reactorVars, heapVars
<1>11. CASE ScanPass(k, c)
  <2>1. i[c] + 1 \in 0 .. num_threads
    BY <1>11, ReactorAssumption DEF ScanPass
  <2> QED
    BY <1>0, <1>11, <2>1 DEF ScanPass, ReactorTypeOK, reactorVars, heapVars
<1>12. CASE ScanEnd(k, c)
  <2>1. round' \in [Coros -> Nat]
    BY <1>12 DEF ScanEnd
  <2> QED
    BY <1>0, <1>12, <2>1 DEF ScanEnd, ReactorTypeOK, reactorVars, heapVars
<1>13. CASE Delete(k, c)
  BY <1>0, <1>13 DEF Delete, ReactorTypeOK, reactorVars, localVars
<1>14. CASE TaskReturn(k, c)
  <2>1. ReactorTypeOK'
    BY <1>14, OfflineType, ResumeType DEF TaskReturn, Finish, ReactorTypeOK
  <2> QED BY <1>0, <1>14, <2>1 DEF TaskReturn, heapVars, localVars
<1> QED
  BY <1>1, <1>2, <1>3, <1>4, <1>5, <1>6, <1>7, <1>8, <1>9, <1>10, <1>11,
     <1>12, <1>13, <1>14 DEF TaskStep

\* What the queue's head is.
LEMMA QueueHead ==
  ASSUME MTypes, queue # <<>>
  PROVE  Head(queue) \in Coros /\ Tail(queue) \in Seq(Coros)
BY HeadTailProperties DEF MTypes

\* Every step keeps the types.
LEMMA MTypesNext ==
  ASSUME MTypes, MRoles, [MNext]_mvars
  PROVE  MTypes'
<1>1. CASE SubmitTask /\ UNCHANGED mutexVars
  <2>1. ReactorTypeOK'
    BY <1>1, SubmitType DEF SubmitTask, MTypes
  <2> QED BY <1>1, <2>1 DEF MTypes, SubmitTask, heapVars, localVars, mutexVars
<1>2. ASSUME NEW k \in Cores, MReactors(k)
      PROVE  MTypes'
  <2>1. ReactorTypeOK'
    <3>1. CASE Dispatch(k)
      BY <3>1, DispatchType DEF MTypes
    <3>2. CASE SuspendTail(k)
      BY <3>2, OfflineType DEF SuspendTail, MTypes, ReactorTypeOK, stackVars
    <3> QED BY <1>2, <3>1, <3>2 DEF MReactors
  <2> QED BY <1>2, <2>1 DEF MTypes, MReactors, heapVars, localVars, mutexVars
<1>3. ASSUME NEW k \in Cores, NEW c \in Coros, MCoroStep(k, c)
      PROVE  MTypes'
  <2> USE DEF MTypes, MPcValues, PcValues, Step
  <2>1. CASE TaskStep(k, c)
    BY <2>1, TaskStepTypes
  <2>2. CASE SectionEnd(k, c)
    BY <2>2
    DEF SectionEnd, ReactorTypeOK, reactorVars, heapVars, localVars, mutexVars
  <2>3. CASE coLock(k, c)
    BY <2>3
    DEF coLock, AfterLock, ReactorTypeOK, reactorVars, localVars, mutexVars
  <2>4. CASE coLockQueue(k, c)
    <3>1. queue' \in Seq(Coros)
      BY <2>4, AppendProperties DEF coLockQueue
    <3> QED
      BY <2>4, <3>1, ResumeType
      DEF coLockQueue, ReactorTypeOK, rcuVars, heapVars, localVars
  <2>5. CASE unlock(k, c)
    <3>1. Head(queue) \in Coros /\ Tail(queue) \in Seq(Coros)
      BY <2>5, QueueHead DEF unlock
    <3>2. /\ running' \in [Cores -> Coros \cup {None}]
          /\ resumer' \in [Coros -> Coros \cup {None}]
      BY <2>5, <3>1, ResumeType DEF unlock
    <3>3. round' \in [Coros -> Nat]
      <4> HIDE DEF MPcValues, PcValues
      <4>1. round \in [Coros -> Nat] /\ round' = [round EXCEPT ![c] = @ + 1]
        BY <2>5 DEF unlock
      <4> QED BY <4>1
    <3>4. AfterLock(Head(queue)) \in MPcValues /\ "loop" \in MPcValues
      BY DEF AfterLock
    <3>5. pc' \in [Coros -> MPcValues]
      <4> HIDE DEF MPcValues, PcValues
      <4> QED BY <2>5, <3>1, <3>4 DEF unlock
    <3> QED
      BY <2>5, <3>1, <3>2, <3>3, <3>5
      DEF unlock, ReactorTypeOK, rcuVars, heapVars
  <2>6. CASE unlockFree(k, c)
    <3>1. round' \in [Coros -> Nat]
      BY <2>6 DEF unlockFree, SpinUnlock
    <3> QED
      BY <2>6, <3>1
      DEF unlockFree, SpinUnlock, ReactorTypeOK, reactorVars, mutexVars
  <2>7. CASE AwaitIo(k, c)
    <3>1. <<k, c>> \in Cores \X IoReaders
      BY <2>7 DEF AwaitIo, MRoles
    <3>2. ios' \subseteq Cores \X IoReaders
      BY <2>7, <3>1 DEF AwaitIo
    <3> QED
      BY <2>7, <3>2, ResumeType
      DEF AwaitIo, ReactorTypeOK, rcuVars, heapVars, localVars
  <2> QED BY <1>3, <2>1, <2>2, <2>3, <2>4, <2>5, <2>6, <2>7 DEF MCoroStep
<1>4. ASSUME NEW k \in Cores, NEW c \in IoReaders, CompleteIo(k, c)
      PROVE  MTypes'
  <2>1. c \in Coros
    BY RcuMutexAssumption
  <2>2. /\ running' \in [Cores -> Coros \cup {None}]
        /\ resumer' \in [Coros -> Coros \cup {None}]
    BY <1>4, <2>1, ResumeType DEF CompleteIo, MTypes
  <2>3. /\ round' \in [Coros -> Nat] /\ pc' \in [Coros -> MPcValues]
        /\ ios' \subseteq Cores \X IoReaders
    BY <1>4, <2>1 DEF CompleteIo, MTypes, MPcValues, PcValues
  <2> QED
    BY <1>4, <2>2, <2>3 DEF CompleteIo, MTypes, ReactorTypeOK, rcuVars, heapVars
<1>5. CASE (Stopped /\ UNCHANGED mutexVars) \/ UNCHANGED mvars
  BY <1>5
  DEF Stopped, mvars, vars, reactorVars, heapVars, localVars, mutexVars, MTypes,
      ReactorTypeOK
<1> QED
  BY <1>1, <1>2, <1>3, <1>4, <1>5 DEF MNext, MCoreStep

-----------------------------------------------------------------------------
(***************************************************************************)
(* Where the coroutines are.                                               *)
(***************************************************************************)

\* A step of c on core k that does not give up the core.
MStays(k, c) ==
  /\ Executes(k, c)
  /\ \E b \in MPcValues \ {"iowait", "done"} :
       /\ pc' = [pc EXCEPT ![c] = b]
       /\ b = "scan" => \/ current_core'[c] = k
                        \/ pc[c] = "scan" /\ current_core'[c] = current_core[c]
  /\ \A d \in Coros \ {c} : current_core'[d] = current_core[d]
  /\ UNCHANGED <<submitted, inbox, running, resumer, suspending, queue, ios>>

\* A step of c that takes it off the stack of core k.
MLeaves(k, c) ==
  /\ Executes(k, c)
  /\ Return(k, c)
  /\ \A j \in Cores \ {k} : suspending'[j] = suspending[j]
  /\ UNCHANGED <<submitted, current_core>>
  /\ \/ /\ pc[c] = "scan" /\ UNCHANGED <<pc, queue, ios>>
        /\ SendMsg(k, c)
     \/ pc' = [pc EXCEPT ![c] = "done"] /\ UNCHANGED <<inbox, queue, ios>>
     \/ /\ pc[c] \in {"lock", "rlock"} /\ UNCHANGED <<pc, inbox, ios>>
        /\ queue' = Append(queue, c)
     \/ /\ pc' = [pc EXCEPT ![c] = "iowait"] /\ UNCHANGED <<inbox, queue>>
        /\ ios' = ios \cup {<<k, c>>}

\* Every step of a coroutine is one of these or an unlock() with a waiter.
LEMMA MCoroKinds ==
  ASSUME MTypes, NEW k \in Cores, NEW c \in Coros, MCoroStep(k, c)
  PROVE  MStays(k, c) \/ MLeaves(k, c) \/ unlock(k, c)
<1> USE DEF Step, reactorVars, stackVars, localVars, mutexVars
<1>0. ASSUME Executes(k, c),
             NEW b \in MPcValues \ {"iowait", "done", "scan"},
             pc' = [pc EXCEPT ![c] = b],
             UNCHANGED <<submitted, inbox, running, resumer, suspending, queue,
                         ios, current_core>>
      PROVE  MStays(k, c)
  BY <1>0 DEF MStays
<1>1. CASE TaskStep(k, c)
  <2>0. UNCHANGED <<queue, ios>>
    BY <1>1 DEF TaskStep
  <2> USE DEF MPcValues, PcValues
  <2>1. CASE ReadLock(k, c)
    <3>1. PICK b \in {"rload", "deref"} : pc' = [pc EXCEPT ![c] = b]
      BY <2>1 DEF ReadLock
    <3> QED BY <1>0, <2>0, <2>1, <3>1 DEF ReadLock
  <2>2. CASE LoadSequencer(k, c) \/ PublishVersion(k, c) \/ Dereference(k, c)
    BY <1>0, <2>0, <2>2 DEF LoadSequencer, PublishVersion, Dereference
  <2>3. CASE ReadUnlock(k, c)
    <3>1. PICK b \in {"sync", "loop"} : pc' = [pc EXCEPT ![c] = b]
      BY <2>3 DEF ReadUnlock
    <3> QED BY <1>0, <2>0, <2>3, <3>1 DEF ReadUnlock
  <2>4. CASE New(k, c) \/ LoadOld(k, c) \/ AssignPointer(k, c) \/ Delete(k, c)
    BY <1>0, <2>0, <2>4 DEF New, LoadOld, AssignPointer, Delete
  <2>5. CASE FetchAdd(k, c)
    BY <2>0, <2>5 DEF FetchAdd, MStays, MTypes
  <2>6. CASE ScanPass(k, c)
    BY <2>0, <2>6 DEF ScanPass, MStays
  <2>7. CASE ScanWait(k, c)
    <3>1. pc' = pc
      BY <2>7 DEF ScanWait, MTypes
    <3> QED BY <2>0, <2>7, <3>1 DEF ScanWait, Yield, MLeaves
  <2>8. CASE ScanEnd(k, c)
    <3>1. PICK b \in {"delete", "loop"} : pc' = [pc EXCEPT ![c] = b]
      BY <2>8 DEF ScanEnd
    <3> QED BY <1>0, <2>0, <2>8, <3>1 DEF ScanEnd
  <2>9. CASE TaskReturn(k, c)
    BY <2>0, <2>9 DEF TaskReturn, Finish, MLeaves
  <2> QED
    BY <1>1, <2>1, <2>2, <2>3, <2>4, <2>5, <2>6, <2>7, <2>8, <2>9 DEF TaskStep
<1>2. CASE SectionEnd(k, c)
  BY <1>0, <1>2 DEF SectionEnd, MPcValues, PcValues
<1>3. CASE coLock(k, c)
  <2>1. AfterLock(c) \in {"swap", "unlock"}
    BY DEF AfterLock
  <2> QED BY <1>0, <1>3, <2>1 DEF coLock, MPcValues, PcValues
<1>4. CASE coLockQueue(k, c)
  BY <1>4 DEF coLockQueue, MLeaves, MTypes, ReactorTypeOK
<1>5. CASE unlockFree(k, c)
  BY <1>0, <1>5 DEF unlockFree, SpinUnlock, MPcValues, PcValues
<1>6. CASE AwaitIo(k, c)
  BY <1>6 DEF AwaitIo, MLeaves
<1> QED
  BY <1>1, <1>2, <1>3, <1>4, <1>5, <1>6 DEF MCoroStep

\* A coroutine that stays where it is keeps all coroutines where they are.
LEMMA StaysPlacement ==
  ASSUME MTypes, Placement, NEW k \in Cores, NEW c \in Coros, MStays(k, c)
  PROVE  Placement'
<1> USE DEF Placement
<1>1. PICK b \in MPcValues \ {"iowait", "done"} :
        /\ pc' = [pc EXCEPT ![c] = b]
        /\ b = "scan" => \/ current_core'[c] = k
                         \/ pc[c] = "scan" /\ current_core'[c] = current_core[c]
  BY DEF MStays
<1>2. /\ running[k] = c /\ ~suspending[k] /\ OnTop(c) /\ OnStack(c)
      /\ \A d \in Coros \ {c} : current_core'[d] = current_core[d]
      /\ UNCHANGED <<submitted, inbox, running, resumer, suspending, queue, ios>>
      /\ \A d \in Coros : pc'[d] = IF d = c THEN b ELSE pc[d]
  BY <1>1 DEF MStays, Executes, OnTop, OnStack, MTypes
<1>3. OneFrame' /\ InboxOnce' /\ WaitsOnce'
  BY <1>2 DEF OneFrame, InboxOnce, WaitsOnce
<1>4. /\ \A d \in Coros : (OnStack(d))' <=> OnStack(d)
      /\ \A d \in Coros : (OnTop(d))' <=> OnTop(d)
      /\ \A d \in Coros : (InInbox(d))' <=> InInbox(d)
      /\ \A d \in Coros : (Unsent(d))' <=> Unsent(d)
      /\ \A d \in Coros : (Queued(d))' <=> Queued(d)
      /\ \A d \in Coros : (AtDevice(d))' <=> AtDevice(d)
  BY <1>2 DEF OnStack, OnTop, InInbox, Unsent, Queued, AtDevice
<1>5. ~InInbox(c) /\ ~Unsent(c) /\ ~Queued(c) /\ ~AtDevice(c)
  BY <1>2 DEF MParked
<1>6. MParked'
  BY <1>2, <1>4, <1>5 DEF MParked
<1>7. Stacks'
  <2>1. \A d \in Coros : resumer[d] # None => resumer[d] \in Coros \ {c}
    BY <1>2 DEF OneFrame, MTypes, ReactorTypeOK
  <2>2. \A j \in Cores : suspending[j] /\ running[j] # None => running[j] \in Coros \ {c}
    BY <1>2 DEF OneFrame, MTypes, ReactorTypeOK
  <2>3. \A d \in Coros :
          pc'[d] \notin {"loop", "lock", "rlock", "scan", "iowait", "done"} => OnTop(d)
    BY <1>2 DEF Stacks
  <2>4. \A d \in Coros : resumer[d] # None => pc'[resumer[d]] = "loop"
    BY <1>2, <2>1 DEF Stacks
  <2>5. \A j \in Cores : suspending[j] /\ running[j] # None => pc'[running[j]] = "loop"
    BY <1>2, <2>2 DEF Stacks
  <2> QED BY <1>2, <1>4, <2>3, <2>4, <2>5 DEF Stacks
<1>8. ScansHere'
  <2> SUFFICES ASSUME NEW d \in Coros, NEW j \in Cores, pc'[d] = "scan",
                      running[j] = d \/ d \in Range(inbox[j])
               PROVE  current_core'[d] = j
    BY <1>2 DEF ScansHere
  <2>1. CASE d = c
    <3>1. j = k
      BY <1>2, <1>5, <2>1 DEF OneFrame, InInbox
    <3> QED BY <1>1, <1>2, <2>1, <3>1 DEF ScansHere
  <2>2. CASE d # c
    BY <1>2, <2>2 DEF ScansHere
  <2> QED BY <2>1, <2>2
<1> QED BY <1>3, <1>6, <1>7, <1>8

\* A coroutine that suspends or returns leaves its stack for one other place.
LEMMA LeavesPlacement ==
  ASSUME MTypes, Placement, NEW k \in Cores, NEW c \in Coros, MLeaves(k, c)
  PROVE  Placement'
<1> USE DEF Placement
<1>0. ReactorTypeOK
  BY DEF MTypes
<1>1. /\ running[k] = c /\ ~suspending[k] /\ OnStack(c)
      /\ \A j \in Cores \ {k} : suspending'[j] = suspending[j]
      /\ UNCHANGED <<submitted, current_core>>
  BY DEF MLeaves, Executes, OnStack
<1>2. ~InInbox(c) /\ ~Unsent(c) /\ ~Queued(c) /\ ~AtDevice(c)
  BY <1>1 DEF MParked
<1>3. OneFrame' /\ \A d \in Coros : (OnStack(d))' => OnStack(d) /\ d # c
  BY <1>0, <1>1, ReturnStack DEF MLeaves
<1>4. /\ \A j \in Cores : running'[j] = IF j = k THEN resumer[c] ELSE running[j]
      /\ \A d \in Coros : resumer'[d] = IF d = c THEN None ELSE resumer[d]
      /\ None \notin Coros
      /\ \A j \in Cores \ {k} : running[j] # c
      /\ \A d \in Coros : resumer[d] # c
  BY <1>1, ReactorAssumption DEF MLeaves, Return, MTypes, ReactorTypeOK, OneFrame
<1>5. /\ \A d \in Coros \ {c} : pc'[d] = pc[d]
      /\ pc'[c] \in {"scan", "done", "lock", "rlock", "iowait"}
  BY DEF MLeaves, MTypes
<1>6. Stacks'
  <2>1. ASSUME NEW d \in Coros,
               pc'[d] \notin {"loop", "lock", "rlock", "scan", "iowait", "done"}
        PROVE  (OnTop(d))'
    <3>1. d # c /\ OnTop(d)
      BY <1>5, <2>1 DEF Stacks
    <3> QED BY <1>1, <1>4, <3>1 DEF OnTop
  <2>2. ASSUME NEW d \in Coros, resumer[d] # None
        PROVE  pc'[resumer[d]] = "loop"
    <3>1. resumer[d] \in Coros \ {c}
      BY <1>0, <1>4, <2>2 DEF ReactorTypeOK
    <3>2. pc[resumer[d]] = "loop"
      BY <2>2 DEF Stacks
    <3> QED BY <1>5, <3>1, <3>2
  <2>3. \A d \in Coros : resumer'[d] # None => pc'[resumer'[d]] = "loop"
    BY <1>4, <2>2
  <2>4. ASSUME NEW j \in Cores, suspending'[j], running'[j] # None
        PROVE  pc'[running'[j]] = "loop"
    <3>1. CASE j = k
      BY <1>4, <2>2, <2>4, <3>1
    <3>2. CASE j # k
      <4>1. running'[j] = running[j]
        BY <1>4, <3>2
      <4>2. running[j] \in Coros \ {c}
        BY <1>0, <1>4, <2>4, <3>2, <4>1 DEF ReactorTypeOK
      <4>3. suspending[j]
        BY <1>1, <2>4, <3>2, Zenon
      <4>4. pc[running[j]] = "loop"
        BY <2>4, <4>1, <4>3 DEF Stacks
      <4> QED BY <1>5, <4>1, <4>2, <4>4
    <3> QED BY <3>1, <3>2
  <2> QED BY <2>1, <2>3, <2>4 DEF Stacks
<1>7. \A d \in Coros : (Unsent(d))' <=> Unsent(d)
  BY <1>1 DEF Unsent
<1>8. ASSUME NEW d \in Coros \ {c}, NEW j \in Cores, pc'[d] = "scan",
             running'[j] = d \/ d \in Range(inbox[j])
      PROVE  current_core'[d] = j
  <2>1. CASE d \in Range(inbox[j])
    BY <1>1, <1>5, <1>8, <2>1 DEF ScansHere
  <2>2. CASE running'[j] = d /\ j # k
    BY <1>1, <1>4, <1>5, <1>8, <2>2 DEF ScansHere
  <2>3. CASE running'[j] = d /\ j = k
    BY <1>4, <1>5, <1>8, <2>3 DEF Stacks
  <2> QED BY <1>8, <2>1, <2>2, <2>3
<1>9. ASSUME UNCHANGED inbox, pc'[c] # "scan"
      PROVE  /\ InboxOnce' /\ ScansHere'
             /\ \A d \in Coros : (InInbox(d))' <=> InInbox(d)
  <2>1. InboxOnce' /\ \A d \in Coros : (InInbox(d))' <=> InInbox(d)
    BY <1>9 DEF InboxOnce, InInbox
  <2>2. ScansHere'
    BY <1>8, <1>9 DEF ScansHere
  <2> QED BY <2>1, <2>2
<1>10. ASSUME UNCHANGED ios
       PROVE  \A d \in Coros : (AtDevice(d))' <=> AtDevice(d)
  BY <1>10 DEF AtDevice
<1>11. ASSUME UNCHANGED queue
       PROVE  \A d \in Coros : (Queued(d))' <=> Queued(d)
  BY <1>11 DEF Queued
<1>12. CASE pc[c] = "scan" /\ UNCHANGED <<pc, queue, ios>> /\ SendMsg(k, c)
  <2>1. /\ InboxOnce'
        /\ \A d \in Coros : (InInbox(d))' => InInbox(d) \/ d = c
        /\ \A j \in Cores : \A d \in Coros :
             d \in Range(inbox'[j]) => d \in Range(inbox[j]) \/ (j = k /\ d = c)
    BY <1>0, <1>2, <1>12, SendOnce
  <2>2. ScansHere'
    <3> SUFFICES ASSUME NEW d \in Coros, NEW j \in Cores, pc'[d] = "scan",
                        running'[j] = d \/ d \in Range(inbox'[j])
                 PROVE  current_core'[d] = j
      BY DEF ScansHere
    <3>1. CASE d = c
      <4>1. j = k
        <5>1. running'[j] # c
          BY <1>3, <3>1 DEF OnStack
        <5>2. c \notin Range(inbox[j])
          BY <1>2 DEF InInbox
        <5> QED BY <2>1, <3>1, <5>1, <5>2
      <4> QED BY <1>1, <1>12, <3>1, <4>1 DEF ScansHere
    <3>2. CASE d # c
      BY <1>8, <2>1, <3>2
    <3> QED BY <3>1, <3>2
  <2>3. WaitsOnce'
    BY <1>12 DEF WaitsOnce
  <2>4. MParked'
    BY <1>2, <1>3, <1>7, <1>10, <1>11, <1>12, <2>1 DEF MParked
  <2> QED BY <1>3, <1>6, <2>1, <2>2, <2>3, <2>4
<1>13. CASE pc' = [pc EXCEPT ![c] = "done"] /\ UNCHANGED <<inbox, queue, ios>>
  <2>1. pc'[c] = "done"
    BY <1>13 DEF MTypes
  <2>2. WaitsOnce'
    BY <1>13 DEF WaitsOnce
  <2>3. MParked'
    BY <1>2, <1>3, <1>5, <1>7, <1>9, <1>10, <1>11, <1>13, <2>1 DEF MParked
  <2> QED BY <1>3, <1>6, <1>9, <1>13, <2>1, <2>2, <2>3
<1>14. CASE /\ pc[c] \in {"lock", "rlock"} /\ UNCHANGED <<pc, inbox, ios>>
            /\ queue' = Append(queue, c)
  <2>1. IsInjective(queue') /\ Range(queue') = Range(queue) \cup {c}
    BY <1>2, <1>14, InjectiveAppend DEF WaitsOnce, Queued, MTypes
  <2>2. WaitsOnce'
    BY <1>14, <2>1 DEF WaitsOnce
  <2>3. \A d \in Coros : (Queued(d))' <=> Queued(d) \/ d = c
    BY <2>1 DEF Queued
  <2>4. MParked'
    BY <1>2, <1>3, <1>7, <1>9, <1>10, <1>14, <2>3 DEF MParked
  <2> QED BY <1>3, <1>6, <1>9, <1>14, <2>2, <2>4
<1>15. CASE /\ pc' = [pc EXCEPT ![c] = "iowait"] /\ UNCHANGED <<inbox, queue>>
            /\ ios' = ios \cup {<<k, c>>}
  <2>1. pc'[c] = "iowait"
    BY <1>15 DEF MTypes
  <2>2. WaitsOnce'
    BY <1>2, <1>15 DEF WaitsOnce, AtDevice
  <2>3. \A d \in Coros : (AtDevice(d))' => AtDevice(d) \/ d = c
    BY <1>15 DEF AtDevice
  <2>4. MParked'
    BY <1>2, <1>3, <1>5, <1>7, <1>9, <1>11, <1>15, <2>1, <2>3 DEF MParked
  <2> QED BY <1>3, <1>6, <1>9, <1>15, <2>1, <2>2, <2>4
<1> QED BY <1>12, <1>13, <1>14, <1>15 DEF MLeaves

\* Resuming a coroutine that is on no stack, on top of one that is at the end
\* of its round if it is not on an idle core.
LEMMA ResumesStacks ==
  ASSUME MTypes, Placement, NEW k \in Cores, NEW e \in Coros, ~OnStack(e),
         Resume(k, e), ~suspending[k], UNCHANGED suspending,
         running[k] # None => pc'[running[k]] = "loop",
         \A d \in Coros \ {e} : d # running[k] => pc'[d] = pc[d]
  PROVE  /\ OneFrame' /\ Stacks'
         /\ \A d \in Coros : (OnStack(d))' => OnStack(d) \/ d = e
         /\ \A j \in Cores : running'[j] = IF j = k THEN e ELSE running[j]
<1> USE DEF Placement
<1>0. ReactorTypeOK
  BY DEF MTypes
<1>1. OneFrame' /\ \A d \in Coros : (OnStack(d))' => OnStack(d) \/ d = e
  BY <1>0, ResumeStack
<1>2. /\ \A j \in Cores : running'[j] = IF j = k THEN e ELSE running[j]
      /\ \A d \in Coros : resumer'[d] = IF d = e THEN running[k] ELSE resumer[d]
      /\ \A j \in Cores : running[j] # e
      /\ \A d \in Coros : resumer[d] # e
  BY <1>0 DEF Resume, ReactorTypeOK, OnStack
<1>3. ASSUME NEW d \in Coros,
             pc'[d] \notin {"loop", "lock", "rlock", "scan", "iowait", "done"}
      PROVE  (OnTop(d))'
  <2>1. CASE d = e
    BY <1>2, <2>1 DEF OnTop
  <2>2. CASE d # e
    <3>1. d # running[k]
      BY <1>3, ReactorAssumption
    <3>2. OnTop(d)
      BY <1>3, <2>2, <3>1 DEF Stacks
    <3> QED BY <1>2, <3>1, <3>2 DEF OnTop
  <2> QED BY <2>1, <2>2
<1>4. ASSUME NEW d \in Coros, pc[d] = "loop", d # e
      PROVE  pc'[d] = "loop"
  <2>1. CASE d = running[k]
    BY <2>1, ReactorAssumption
  <2>2. CASE d # running[k]
    BY <1>4, <2>2
  <2> QED BY <2>1, <2>2
<1>5. ASSUME NEW d \in Coros, resumer'[d] # None
      PROVE  pc'[resumer'[d]] = "loop"
  <2>1. CASE d = e
    BY <1>2, <1>5, <2>1
  <2>2. CASE d # e
    <3>1. resumer'[d] = resumer[d]
      BY <1>2, <2>2
    <3>2. resumer[d] \in Coros \ {e}
      BY <1>0, <1>2, <1>5, <3>1 DEF ReactorTypeOK
    <3>3. pc[resumer[d]] = "loop"
      BY <1>5, <3>1 DEF Stacks
    <3> QED BY <1>4, <3>1, <3>2, <3>3
  <2> QED BY <2>1, <2>2
<1>6. ASSUME NEW j \in Cores, suspending'[j], running'[j] # None
      PROVE  pc'[running'[j]] = "loop"
  <2>1. j # k /\ suspending[j]
    BY <1>6, Zenon
  <2>2. running'[j] = running[j]
    BY <1>2, <2>1
  <2>3. running[j] \in Coros \ {e}
    BY <1>0, <1>2, <1>6, <2>2 DEF ReactorTypeOK
  <2>4. pc[running[j]] = "loop"
    BY <1>6, <2>1, <2>2 DEF Stacks
  <2> QED BY <1>4, <2>2, <2>3, <2>4
<1> QED BY <1>1, <1>2, <1>3, <1>5, <1>6 DEF Stacks

\* The reactor takes a message.
LEMMA DispatchPlacement ==
  ASSUME MTypes, Placement, NEW k \in Cores, Dispatch(k),
         UNCHANGED <<pc, current_core, queue, ios>>
  PROVE  Placement'
<1> USE DEF Placement
<1> DEFINE e == Head(inbox[k])
<1>0. ReactorTypeOK
  BY DEF MTypes
<1>1. /\ running[k] = None /\ ~suspending[k] /\ Resume(k, e) /\ inbox[k] # <<>>
      /\ inbox' = [inbox EXCEPT ![k] = Tail(@)] /\ UNCHANGED <<submitted, suspending>>
  BY DEF Dispatch, Idle
<1>2. /\ InboxOnce' /\ e \in Coros /\ InInbox(e)
      /\ e \in Range(inbox[k])
      /\ \A j \in Cores : Range(inbox'[j]) \subseteq Range(inbox[j])
      /\ \A d \in Coros : (InInbox(d))' => InInbox(d) /\ d # e
  BY <1>0, <1>1, TakeOnce
<1> HIDE DEF e
<1>3. ~OnStack(e) /\ ~Unsent(e) /\ ~Queued(e) /\ ~AtDevice(e) /\ pc[e] \in {"loop", "scan"}
  BY <1>2 DEF MParked
<1>4. /\ OneFrame' /\ Stacks'
      /\ \A d \in Coros : (OnStack(d))' => OnStack(d) \/ d = e
      /\ \A j \in Cores : running'[j] = IF j = k THEN e ELSE running[j]
  BY <1>1, <1>2, <1>3, ResumesStacks
<1>5. WaitsOnce'
  BY DEF WaitsOnce
<1>6. \A d \in Coros : /\ (Unsent(d))' <=> Unsent(d)
                       /\ (Queued(d))' <=> Queued(d)
                       /\ (AtDevice(d))' <=> AtDevice(d)
  BY <1>1 DEF Unsent, Queued, AtDevice
<1>7. MParked'
  BY <1>2, <1>3, <1>4, <1>6 DEF MParked
<1>8. ScansHere'
  BY <1>2, <1>4 DEF ScansHere
<1> QED BY <1>2, <1>4, <1>5, <1>7, <1>8

\* The completion callback of an I/O.
LEMMA CompletePlacement ==
  ASSUME MTypes, Placement, NEW k \in Cores, NEW e \in Coros, CompleteIo(k, e)
  PROVE  Placement'
<1> USE DEF Placement
<1>1. /\ running[k] = None /\ ~suspending[k] /\ Resume(k, e)
      /\ <<k, e>> \in ios /\ ios' = ios \ {<<k, e>>}
      /\ \A d \in Coros : pc'[d] = IF d = e THEN "loop" ELSE pc[d]
      /\ UNCHANGED <<submitted, inbox, suspending, current_core, queue>>
  BY DEF CompleteIo, Idle, MTypes
<1>2. AtDevice(e) /\ pc[e] = "iowait"
  BY <1>1 DEF AtDevice, MParked
<1>3. ~OnStack(e) /\ ~InInbox(e) /\ ~Unsent(e) /\ ~Queued(e)
  BY <1>2 DEF MParked
<1>4. /\ OneFrame' /\ Stacks'
      /\ \A d \in Coros : (OnStack(d))' => OnStack(d) \/ d = e
      /\ \A j \in Cores : running'[j] = IF j = k THEN e ELSE running[j]
  BY <1>1, <1>3, ResumesStacks
<1>5. WaitsOnce' /\ InboxOnce'
  BY <1>1 DEF WaitsOnce, InboxOnce
<1>6. \A d \in Coros : /\ (Unsent(d))' <=> Unsent(d)
                       /\ (Queued(d))' <=> Queued(d)
                       /\ (InInbox(d))' <=> InInbox(d)
                       /\ (AtDevice(d))' => AtDevice(d) /\ d # e
  <2>1. \A j \in Cores : <<j, e>> \in ios => j = k
    BY <1>1 DEF WaitsOnce
  <2> QED BY <1>1, <2>1 DEF Unsent, Queued, InInbox, AtDevice
<1>7. MParked'
  BY <1>1, <1>3, <1>4, <1>6 DEF MParked
<1>8. ScansHere'
  BY <1>1, <1>4 DEF ScansHere
<1> QED BY <1>4, <1>5, <1>7, <1>8

\* unlock() resumes the longest waiting coroutine on top of the caller.
LEMMA UnlockPlacement ==
  ASSUME MTypes, Placement, NEW k \in Cores, NEW c \in Coros, unlock(k, c)
  PROVE  /\ Placement'
         /\ Head(queue) \in Coros
         /\ pc[Head(queue)] \in {"lock", "rlock"}
         /\ running'[k] = Head(queue)
         /\ \A j \in Cores \ {k} : running'[j] = running[j]
         /\ \A d \in Coros : pc'[d] = IF d = Head(queue) THEN AfterLock(d)
                                      ELSE IF d = c THEN "loop" ELSE pc[d]
<1> USE DEF Placement
<1> DEFINE e == Head(queue)
<1>1. /\ running[k] = c /\ ~suspending[k] /\ Resume(k, e)
      /\ queue # <<>> /\ queue' = Tail(queue) /\ pc[c] = "unlock"
      /\ pc' = [pc EXCEPT ![c] = "loop", ![e] = AfterLock(e)]
      /\ UNCHANGED <<submitted, inbox, suspending, current_core, ios>>
  BY DEF unlock, Executes
<1>2. e \in Coros
  BY <1>1, QueueHead
<1>3. /\ IsInjective(Tail(queue)) /\ Range(Tail(queue)) = Range(queue) \ {e}
      /\ e \in Range(queue)
  BY <1>1, InjectiveTail DEF WaitsOnce, MTypes
<1>4. \A d \in Coros :
        pc'[d] = IF d = e THEN AfterLock(d) ELSE IF d = c THEN "loop" ELSE pc[d]
  BY <1>1, <1>2 DEF MTypes
<1> HIDE DEF e
<1>5. Queued(e) /\ pc[e] \in {"lock", "rlock"}
  BY <1>2, <1>3 DEF Queued, MParked
<1>6. ~OnStack(e) /\ ~InInbox(e) /\ ~Unsent(e) /\ ~AtDevice(e) /\ e # c
  BY <1>1, <1>2, <1>5 DEF MParked
<1>7. /\ OneFrame' /\ Stacks'
      /\ \A d \in Coros : (OnStack(d))' => OnStack(d) \/ d = e
      /\ \A j \in Cores : running'[j] = IF j = k THEN e ELSE running[j]
  <2>1. /\ running[k] # None => pc'[running[k]] = "loop"
        /\ \A d \in Coros \ {e} : d # running[k] => pc'[d] = pc[d]
    BY <1>1, <1>4, <1>6
  <2> QED BY <1>1, <1>2, <1>6, <2>1, ResumesStacks
<1>8. WaitsOnce' /\ InboxOnce'
  BY <1>1, <1>3 DEF WaitsOnce, InboxOnce
<1>9. \A d \in Coros : /\ (Unsent(d))' <=> Unsent(d)
                       /\ (Queued(d))' => Queued(d) /\ d # e
                       /\ (InInbox(d))' <=> InInbox(d)
                       /\ (AtDevice(d))' <=> AtDevice(d)
  BY <1>1, <1>3 DEF Unsent, Queued, InInbox, AtDevice
<1>10. OnStack(c) /\ ~InInbox(c) /\ ~Unsent(c) /\ ~Queued(c) /\ ~AtDevice(c)
  BY <1>1 DEF OnStack, MParked
<1>11. AfterLock(e) \in {"swap", "unlock"}
  BY DEF AfterLock
<1>12. MParked'
  BY <1>4, <1>6, <1>7, <1>9, <1>10, <1>11 DEF MParked
<1>13. ScansHere'
  BY <1>1, <1>4, <1>7, <1>11 DEF ScansHere
<1> QED BY <1>2, <1>4, <1>5, <1>7, <1>8, <1>12, <1>13 DEF e

\* Every step keeps the coroutines in one place each.
LEMMA PlacementNext ==
  ASSUME MTypes, Placement, [MNext]_mvars
  PROVE  Placement'
<1>1. CASE SubmitTask /\ UNCHANGED mutexVars
  <2> USE DEF Placement
  <2>0. ReactorTypeOK /\ Submit
    BY <1>1 DEF SubmitTask, MTypes
  <2>1. /\ submitted \in Coros /\ Home(submitted) \in Cores /\ submitted \in Nat
        /\ SendMsg(Home(submitted), submitted)
        /\ submitted' = submitted + 1
        /\ UNCHANGED <<running, resumer, suspending, pc, current_core, queue, ios>>
    <3>1. submitted \in Coros /\ submitted \in Nat
      BY <2>0, ReactorAssumption DEF Submit, ReactorTypeOK, Coros
    <3>2. Home(submitted) \in Cores
      BY <3>1, HomeType
    <3> QED
      BY <1>1, <2>0, <3>1, <3>2 DEF SubmitTask, Submit, stackVars, localVars, mutexVars
  <2>2. /\ Unsent(submitted)
        /\ \A d \in Coros : (Unsent(d))' <=> Unsent(d) /\ d # submitted
    BY <2>1 DEF Unsent, Coros
  <2>3. \A d \in Coros : /\ (OnStack(d))' <=> OnStack(d)
                         /\ (OnTop(d))' <=> OnTop(d)
                         /\ (Queued(d))' <=> Queued(d)
                         /\ (AtDevice(d))' <=> AtDevice(d)
    BY <2>1 DEF OnStack, OnTop, Queued, AtDevice
  <2>4. /\ ~InInbox(submitted) /\ ~OnStack(submitted)
        /\ pc[submitted] = "loop"
    BY <2>1, <2>2 DEF MParked
  <2>5. /\ InboxOnce'
        /\ \A d \in Coros : (InInbox(d))' => InInbox(d) \/ d = submitted
        /\ \A j \in Cores : \A d \in Coros :
             d \in Range(inbox'[j]) =>
               d \in Range(inbox[j]) \/ (j = Home(submitted) /\ d = submitted)
    BY <2>0, <2>1, <2>4, SendOnce
  <2>6. OneFrame' /\ WaitsOnce'
    BY <2>1 DEF OneFrame, WaitsOnce
  <2>7. Stacks'
    BY <2>1, <2>3 DEF Stacks
  <2>8. MParked'
    BY <2>1, <2>2, <2>3, <2>4, <2>5 DEF MParked
  <2>9. ScansHere'
    BY <2>1, <2>4, <2>5 DEF ScansHere
  <2> QED BY <2>5, <2>6, <2>7, <2>8, <2>9
<1>2. ASSUME UNCHANGED <<submitted, inbox, running, resumer, pc, current_core, queue, ios>>,
             \A k \in Cores : suspending'[k] => suspending[k]
      PROVE  Placement'
  BY <1>2
  DEF Placement, OneFrame, InboxOnce, MParked, WaitsOnce, Stacks, ScansHere, OnTop,
      OnStack, InInbox, Unsent, Queued, AtDevice
<1>3. ASSUME NEW k \in Cores, MReactors(k)
      PROVE  Placement'
  <2>1. CASE Dispatch(k)
    BY <1>3, <2>1, DispatchPlacement DEF MReactors, localVars, mutexVars
  <2>2. CASE SuspendTail(k)
    <3>1. \A j \in Cores : suspending'[j] => suspending[j]
      BY <2>2 DEF SuspendTail, MTypes, ReactorTypeOK
    <3> QED
      BY <1>2, <1>3, <2>2, <3>1 DEF SuspendTail, MReactors, stackVars, localVars, mutexVars
  <2> QED BY <1>3, <2>1, <2>2 DEF MReactors
<1>4. ASSUME NEW k \in Cores, NEW c \in Coros, MCoroStep(k, c)
      PROVE  Placement'
  BY <1>4, MCoroKinds, StaysPlacement, LeavesPlacement, UnlockPlacement
<1>5. ASSUME NEW k \in Cores, NEW c \in IoReaders, CompleteIo(k, c)
      PROVE  Placement'
  BY <1>5, CompletePlacement, RcuMutexAssumption
<1>6. CASE (Stopped /\ UNCHANGED mutexVars) \/ UNCHANGED mvars
  BY <1>2, <1>6 DEF Stopped, mvars, vars, reactorVars, localVars, mutexVars
<1> QED
  BY <1>1, <1>3, <1>4, <1>5, <1>6 DEF MNext, MCoreStep

-----------------------------------------------------------------------------
(***************************************************************************)
(* The owner of the mutex and the heap.                                    *)
(***************************************************************************)

\* Steps outside the coroutines.
MOutside ==
  \/ SubmitTask /\ UNCHANGED mutexVars
  \/ \E k \in Cores : MReactors(k)
  \/ Stopped /\ UNCHANGED mutexVars
  \/ UNCHANGED mvars

\* They change neither heap nor locals.
LEMMA MOutsideFrame ==
  ASSUME MOutside
  PROVE  UNCHANGED <<sequencer, heapVars, localVars, pc>>
BY DEF MOutside, SubmitTask, MReactors, Stopped, mvars, vars

\* The steps of the system.
LEMMA MNextKinds ==
  ASSUME [MNext]_mvars
  PROVE  \/ MOutside
         \/ \E k \in Cores, c \in Coros : MCoroStep(k, c)
         \/ \E k \in Cores, c \in Coros : c \in IoReaders /\ CompleteIo(k, c)
BY RcuMutexAssumption DEF MNext, MCoreStep, MOutside

\* What an owner goes on with.
LEMMA AfterLockRole ==
  ASSUME MRoles, NEW c \in Coros, pc[c] \in {"lock", "rlock"}
  PROVE  \/ pc[c] = "lock" /\ c \in Writers /\ AfterLock(c) = "swap"
         \/ pc[c] = "rlock" /\ c \in Lockers \ Writers /\ AfterLock(c) = "unlock"
BY RcuMutexAssumption DEF MRoles, AfterLock

\* Readers stay readers and writers stay writers.
LEMMA MRolesNext ==
  ASSUME MTypes, Placement, MRoles, [MNext]_mvars
  PROVE  MRoles'
<1>0. Writers \subseteq Coros /\ Syncers \subseteq Coros \ Writers
  BY RcuAssumption
<1>1. CASE MOutside
  BY <1>1, MOutsideFrame DEF MRoles
<1>2. ASSUME NEW c \in Coros, \A d \in Coros \ {c} : pc'[d] = pc[d],
             /\ pc'[c] \in {"rload", "rstore", "deref", "use"} => c \notin Writers
             /\ pc'[c] \in {"lock", "swap", "assign", "delete"} => c \in Writers
             /\ pc'[c] = "rlock" => c \in Lockers
             /\ pc'[c] = "io" => c \in IoReaders
             /\ pc'[c] = "unlock" => c \in Writers \cup Lockers
      PROVE  MRoles'
  BY <1>2 DEF MRoles
<1>3. ASSUME NEW k \in Cores, NEW c \in Coros, MCoroStep(k, c)
      PROVE  MRoles'
  <2> USE DEF Step, MTypes
  <2>1. CASE \/ ReadLock(k, c) \/ LoadSequencer(k, c) \/ PublishVersion(k, c)
             \/ Dereference(k, c) \/ ReadUnlock(k, c)
    BY <1>2, <2>1
    DEF ReadLock, LoadSequencer, PublishVersion, Dereference, ReadUnlock, MRoles
  <2>2. CASE New(k, c) \/ LoadOld(k, c) \/ AssignPointer(k, c)
    BY <1>2, <2>2 DEF New, LoadOld, AssignPointer, MRoles
  <2>3. CASE \/ FetchAdd(k, c) \/ ScanPass(k, c) \/ ScanWait(k, c)
             \/ ScanEnd(k, c)
    BY <1>2, <2>3 DEF FetchAdd, ScanPass, ScanWait, ScanEnd, MRoles
  <2>4. CASE Delete(k, c) \/ TaskReturn(k, c)
    BY <1>2, <2>4 DEF Delete, TaskReturn, MRoles
  <2>5. CASE TaskStep(k, c)
    BY <2>1, <2>2, <2>3, <2>4, <2>5 DEF TaskStep
  <2>6. CASE SectionEnd(k, c)
    BY <1>2, <2>6 DEF SectionEnd, MRoles
  <2>7. CASE coLock(k, c)
    BY <1>2, <2>7, AfterLockRole DEF coLock
  <2>8. CASE coLockQueue(k, c)
    BY <2>8 DEF coLockQueue, MRoles
  <2>9. CASE unlockFree(k, c)
    BY <1>2, <2>9 DEF unlockFree, SpinUnlock
  <2>10. CASE AwaitIo(k, c)
    BY <1>2, <2>10 DEF AwaitIo
  <2>11. CASE unlock(k, c)
    <3>1. /\ Head(queue) \in Coros /\ pc[Head(queue)] \in {"lock", "rlock"}
          /\ \A d \in Coros : pc'[d] = IF d = Head(queue) THEN AfterLock(d)
                                       ELSE IF d = c THEN "loop" ELSE pc[d]
      BY <2>11, UnlockPlacement
    <3>2. \/ Head(queue) \in Writers /\ AfterLock(Head(queue)) = "swap"
          \/ Head(queue) \in Lockers /\ AfterLock(Head(queue)) = "unlock"
      BY <3>1, AfterLockRole
    <3> QED BY <3>1, <3>2 DEF MRoles
  <2> QED
    BY <1>3, <2>5, <2>6, <2>7, <2>8, <2>9, <2>10, <2>11 DEF MCoroStep
<1>4. ASSUME NEW k \in Cores, NEW c \in Coros, CompleteIo(k, c)
      PROVE  MRoles'
  BY <1>2, <1>4 DEF CompleteIo, MTypes
<1> QED BY <1>1, <1>3, <1>4, MNextKinds

\* The mutex has one owner.
LEMMA OwnerExclusionNext ==
  ASSUME MTypes, Placement, MRoles, OwnerExclusion, [MNext]_mvars
  PROVE  OwnerExclusion'
<1> USE DEF heapVars, localVars
<1>1. CASE MOutside
  <2>1. UNCHANGED <<pc, locked, q, gp>>
    BY <1>1, MOutsideFrame
  <2> QED BY <2>1 DEF OwnerExclusion, Owns
\* A step of a coroutine that neither takes nor releases the mutex.
<1>2. ASSUME NEW c \in Coros, \A d \in Coros \ {c} : pc'[d] = pc[d] /\ q'[d] = q[d],
             (Owns(c))' => Owns(c), UNCHANGED <<gp, locked>>,
             pc'[c] = "assign" => q'[c] = gp
      PROVE  OwnerExclusion'
  <2>1. \A d \in Coros : (Owns(d))' => Owns(d)
    BY <1>2 DEF Owns
  <2> QED BY <1>2, <2>1 DEF OwnerExclusion
<1>3. ASSUME NEW k \in Cores, NEW c \in Coros, MCoroStep(k, c)
      PROVE  OwnerExclusion'
  <2> USE DEF Step, MTypes
  <2>1. CASE \/ ReadLock(k, c) \/ LoadSequencer(k, c) \/ PublishVersion(k, c)
             \/ Dereference(k, c) \/ ReadUnlock(k, c)
    <3>1. c \notin Writers /\ UNCHANGED <<locked, q, gp>>
      BY <2>1
      DEF ReadLock, LoadSequencer, PublishVersion, Dereference, ReadUnlock, MRoles
    <3>2. /\ \A d \in Coros \ {c} : pc'[d] = pc[d]
          /\ pc'[c] \notin {"assign", "unlock"}
      BY <2>1
      DEF ReadLock, LoadSequencer, PublishVersion, Dereference, ReadUnlock
    <3> QED BY <1>2, <3>1, <3>2 DEF Owns
  <2>2. CASE New(k, c) \/ TaskReturn(k, c)
    BY <1>2, <2>2 DEF New, TaskReturn, Owns
  <2>3. CASE LoadOld(k, c)
    BY <1>2, <2>3 DEF LoadOld, Owns, MRoles
  <2>4. CASE AssignPointer(k, c)
    <3>1. Owns(c)
      BY <2>4 DEF AssignPointer, Owns, MRoles
    <3>2. \A d \in Coros : pc'[d] # "assign"
      BY <2>4, <3>1 DEF AssignPointer, OwnerExclusion, Owns, MRoles
    <3>3. \A d \in Coros : (Owns(d))' => Owns(d)
      BY <2>4, <3>1 DEF AssignPointer, Owns
    <3> QED BY <2>4, <3>2, <3>3 DEF AssignPointer, OwnerExclusion
  <2>5. CASE FetchAdd(k, c) \/ ScanPass(k, c) \/ ScanWait(k, c)
    BY <1>2, <2>5 DEF FetchAdd, ScanPass, ScanWait, Owns
  <2>6. CASE ScanEnd(k, c)
    BY <1>2, <2>6 DEF ScanEnd, Owns
  <2>7. CASE Delete(k, c)
    BY <1>2, <2>7 DEF Delete, Owns, MRoles
  <2>8. CASE TaskStep(k, c)
    BY <2>1, <2>2, <2>3, <2>4, <2>5, <2>6, <2>7, <2>8 DEF TaskStep
  <2>9. CASE SectionEnd(k, c) \/ AwaitIo(k, c)
    BY <1>2, <2>9 DEF SectionEnd, AwaitIo, Owns
  <2>10. CASE coLock(k, c)
    <3>1. \A d \in Coros : ~Owns(d)
      BY <2>10 DEF coLock, OwnerExclusion
    <3>2. /\ \A d \in Coros \ {c} : pc'[d] = pc[d]
          /\ pc'[c] \in {"swap", "unlock"} /\ locked' /\ UNCHANGED <<q, gp>>
      BY <2>10 DEF coLock, AfterLock
    <3>3. \A d \in Coros : (Owns(d))' => d = c
      BY <3>1, <3>2 DEF Owns
    <3> QED BY <3>2, <3>3 DEF OwnerExclusion
  <2>11. CASE coLockQueue(k, c)
    BY <1>2, <2>11 DEF coLockQueue, Owns, OwnerExclusion
  <2>12. CASE unlockFree(k, c)
    <3>1. Owns(c)
      BY <2>12 DEF unlockFree, SpinUnlock, Owns
    <3>2. \A d \in Coros : ~(Owns(d))'
      BY <2>12, <3>1 DEF unlockFree, SpinUnlock, OwnerExclusion, Owns
    <3>3. \A d \in Coros : pc'[d] # "assign"
      BY <2>12, <3>1 DEF unlockFree, SpinUnlock, OwnerExclusion, Owns, MRoles
    <3> QED BY <3>2, <3>3 DEF OwnerExclusion
  <2>13. CASE unlock(k, c)
    <3>1. /\ Head(queue) \in Coros
          /\ \A d \in Coros : pc'[d] = IF d = Head(queue) THEN AfterLock(d)
                                       ELSE IF d = c THEN "loop" ELSE pc[d]
      BY <2>13, UnlockPlacement
    <3>2. Owns(c) /\ pc[c] = "unlock" /\ UNCHANGED <<locked, q, gp>>
      BY <2>13 DEF unlock, Owns
    <3>3. AfterLock(Head(queue)) \in {"swap", "unlock"}
      BY DEF AfterLock
    <3>4. \A d \in Coros : (Owns(d))' => d = Head(queue)
      BY <3>1, <3>2, <3>3 DEF Owns, OwnerExclusion
    <3>5. \A d \in Coros : pc'[d] = "assign" => pc[d] = "assign"
      BY <3>1, <3>3
    <3> QED BY <3>2, <3>4, <3>5 DEF OwnerExclusion
  <2> QED
    BY <1>3, <2>8, <2>9, <2>10, <2>11, <2>12, <2>13 DEF MCoroStep
<1>4. ASSUME NEW k \in Cores, NEW c \in Coros, CompleteIo(k, c)
      PROVE  OwnerExclusion'
  BY <1>2, <1>4 DEF CompleteIo, MTypes, Owns
<1> QED BY <1>1, <1>3, <1>4, MNextKinds

\* What is allocated stays accounted for.
LEMMA MHeapNext ==
  ASSUME MTypes, Placement, MRoles, OwnerExclusion, HeapAccounted, [MNext]_mvars
  PROVE  HeapAccounted'
<1> USE DEF heapVars, localVars
<1>0. Writers \subseteq Coros
  BY RcuAssumption
<1>1. ASSUME UNCHANGED <<gp, allocated>>, Fresh' = Fresh, Retired' = Retired,
             \A c \in Fresh : p'[c] = p[c], \A c \in Retired : q'[c] = q[c]
      PROVE  HeapAccounted'
  <2>1. /\ {p'[c] : c \in Fresh'} = {p[c] : c \in Fresh}
        /\ {q'[c] : c \in Retired'} = {q[c] : c \in Retired}
    BY <1>1
  <2> QED BY <1>1, <2>1 DEF HeapAccounted
<1>2. CASE MOutside
  <2>1. UNCHANGED <<gp, allocated, p, q, pc>>
    BY <1>2, MOutsideFrame
  <2> QED BY <1>1, <2>1 DEF Fresh, Retired
\* A step of a coroutine that has nothing to do with the heap.
<1>3. ASSUME NEW c \in Coros, \A d \in Coros \ {c} : pc'[d] = pc[d] /\ p'[d] = p[d],
             pc[c] \in {"lock", "swap", "assign"} <=> pc'[c] \in {"lock", "swap", "assign"},
             c \in Writers => (pc[c] \in {"sync", "scan", "delete"}
                               <=> pc'[c] \in {"sync", "scan", "delete"}),
             c \in Fresh => p'[c] = p[c], UNCHANGED <<gp, allocated>>,
             \A d \in Retired : q'[d] = q[d]
      PROVE  HeapAccounted'
  <2>1. Fresh' = Fresh /\ Retired' = Retired
    BY <1>0, <1>3 DEF Fresh, Retired
  <2> QED BY <1>1, <1>3, <2>1 DEF Fresh
<1>4. ASSUME NEW k \in Cores, NEW c \in Coros, MCoroStep(k, c)
      PROVE  HeapAccounted'
  <2> USE DEF Step, MTypes
  <2>1. CASE \/ ReadLock(k, c) \/ LoadSequencer(k, c) \/ PublishVersion(k, c)
             \/ Dereference(k, c) \/ ReadUnlock(k, c)
    <3>1. c \notin Writers /\ UNCHANGED <<gp, allocated, q>>
      BY <2>1
      DEF ReadLock, LoadSequencer, PublishVersion, Dereference, ReadUnlock, MRoles
    <3>2. /\ \A d \in Coros \ {c} : pc'[d] = pc[d] /\ p'[d] = p[d]
          /\ pc[c] \notin {"lock", "swap", "assign"}
          /\ pc'[c] \notin {"lock", "swap", "assign"}
      BY <2>1
      DEF ReadLock, LoadSequencer, PublishVersion, Dereference, ReadUnlock
    <3> QED BY <1>3, <3>1, <3>2 DEF Fresh
  <2>2. CASE New(k, c)
    <3>1. PICK o \in Objects \ allocated :
            allocated' = allocated \cup {o} /\ p' = [p EXCEPT ![c] = o]
      BY <2>2 DEF New
    <3>2. Fresh' = Fresh \cup {c} /\ c \notin Fresh /\ Retired' = Retired
      BY <1>0, <2>2 DEF New, Fresh, Retired
    <3>3. /\ \A d \in Fresh : p'[d] = p[d] /\ p[d] # o
          /\ \A d \in Retired : q'[d] = q[d] /\ q[d] # o
          /\ p'[c] = o /\ gp # o /\ gp' = gp
      BY <2>2, <3>1, <3>2 DEF New, Fresh, HeapAccounted
    <3>4. allocated' =
            {gp'} \cup {p'[d] : d \in Fresh'} \cup {q'[d] : d \in Retired'}
      <4>1. {p'[d] : d \in Fresh'} = {p[d] : d \in Fresh} \cup {o}
        BY <3>2, <3>3
      <4>2. {q'[d] : d \in Retired'} = {q[d] : d \in Retired}
        BY <3>2, <3>3
      <4> QED BY <3>1, <3>3, <4>1, <4>2 DEF HeapAccounted
    <3> HIDE DEF MTypes, Step, heapVars, localVars
    <3>5. \A d \in Fresh' : p'[d] # gp' /\ \A e \in Fresh' \ {d} : p'[d] # p'[e]
      BY <3>2, <3>3 DEF HeapAccounted
    <3>6. \A d \in Retired' : q'[d] # gp' /\ \A e \in Retired' \ {d} : q'[d] # q'[e]
      BY <3>2, <3>3 DEF HeapAccounted
    <3>7. \A d \in Fresh', e \in Retired' : p'[d] # q'[e]
      BY <3>2, <3>3 DEF HeapAccounted
    <3> QED BY <3>4, <3>5, <3>6, <3>7 DEF HeapAccounted
  <2>3. CASE TaskReturn(k, c)
    BY <1>3, <2>3 DEF TaskReturn
  <2>4. CASE LoadOld(k, c)
    <3>1. \A d \in Retired : d # c
      BY <2>4 DEF LoadOld, Retired
    <3>2. \A d \in Retired : q'[d] = q[d]
      BY <1>0, <2>4, <3>1 DEF LoadOld, Retired
    <3> QED BY <1>3, <2>4, <3>2 DEF LoadOld
  <2>5. CASE AssignPointer(k, c)
    <3>1. /\ c \in Fresh /\ Fresh' = Fresh \ {c}
          /\ c \notin Retired /\ Retired' = Retired \cup {c}
          /\ q[c] = gp /\ gp' = p[c]
          /\ UNCHANGED <<p, q, allocated>>
      BY <1>0, <2>5
      DEF AssignPointer, Fresh, Retired, MRoles, OwnerExclusion
    <3>2. {p[d] : d \in Fresh} = {p[d] : d \in Fresh \ {c}} \cup {p[c]}
      BY <3>1
    <3>3. {q[d] : d \in Retired \cup {c}} = {q[d] : d \in Retired} \cup {q[c]}
      BY <3>1
    <3>4. allocated =
            {gp'} \cup {p[d] : d \in Fresh'} \cup {q[d] : d \in Retired'}
      BY <3>1, <3>2, <3>3 DEF HeapAccounted
    <3> QED BY <3>1, <3>4 DEF HeapAccounted
  <2>6. CASE FetchAdd(k, c) \/ ScanPass(k, c) \/ ScanWait(k, c) \/ ScanEnd(k, c)
    BY <1>3, <2>6 DEF FetchAdd, ScanPass, ScanWait, ScanEnd
  <2>7. CASE Delete(k, c)
    <3>1. /\ c \in Retired /\ Retired' = Retired \ {c} /\ Fresh' = Fresh
          /\ allocated' = allocated \ {q[c]}
          /\ UNCHANGED <<p, q, gp>>
      BY <1>0, <2>7 DEF Delete, Fresh, Retired, MRoles
    <3>2. {q[d] : d \in Retired \ {c}} = {q[d] : d \in Retired} \ {q[c]}
      BY <3>1 DEF HeapAccounted
    <3>3. q[c] # gp /\ q[c] \notin {p[d] : d \in Fresh}
      BY <3>1 DEF HeapAccounted
    <3>4. allocated' =
            {gp} \cup {p[d] : d \in Fresh} \cup {q[d] : d \in Retired \ {c}}
      BY <3>1, <3>2, <3>3 DEF HeapAccounted
    <3> QED BY <3>1, <3>4 DEF HeapAccounted
  <2>8. CASE TaskStep(k, c)
    BY <2>1, <2>2, <2>3, <2>4, <2>5, <2>6, <2>7, <2>8 DEF TaskStep
  <2>9. CASE SectionEnd(k, c) \/ AwaitIo(k, c)
    BY <1>3, <2>9 DEF SectionEnd, AwaitIo
  <2>10. CASE coLock(k, c)
    BY <1>3, <2>10, AfterLockRole DEF coLock
  <2>11. CASE coLockQueue(k, c)
    BY <1>3, <2>11 DEF coLockQueue
  <2>12. CASE unlockFree(k, c)
    BY <1>3, <2>12 DEF unlockFree, SpinUnlock
  <2>13. CASE unlock(k, c)
    <3>1. /\ Head(queue) \in Coros /\ pc[Head(queue)] \in {"lock", "rlock"}
          /\ \A d \in Coros : pc'[d] = IF d = Head(queue) THEN AfterLock(d)
                                       ELSE IF d = c THEN "loop" ELSE pc[d]
      BY <2>13, UnlockPlacement
    <3>2. pc[c] = "unlock" /\ UNCHANGED <<gp, allocated, p, q>>
      BY <2>13 DEF unlock
    <3>3. \/ pc[Head(queue)] = "lock" /\ AfterLock(Head(queue)) = "swap"
          \/ pc[Head(queue)] = "rlock" /\ AfterLock(Head(queue)) = "unlock"
      BY <3>1, AfterLockRole
    <3>4. Fresh' = Fresh /\ Retired' = Retired
      BY <1>0, <3>1, <3>2, <3>3 DEF Fresh, Retired
    <3> QED BY <1>1, <3>2, <3>4
  <2> QED
    BY <1>4, <2>8, <2>9, <2>10, <2>11, <2>12, <2>13 DEF MCoroStep
<1>5. ASSUME NEW k \in Cores, NEW c \in Coros, CompleteIo(k, c)
      PROVE  HeapAccounted'
  <2>1. pc[c] = "iowait"
    BY <1>5 DEF CompleteIo, Placement, MParked, AtDevice
  <2> QED BY <1>3, <1>5, <2>1 DEF CompleteIo, MTypes
<1> QED BY <1>2, <1>4, <1>5, MNextKinds

\* What a section works on is gp's object or one that is still protected.
LEMMA MProtectedNext ==
  ASSUME MTypes, Placement, MRoles, OwnerExclusion, HeapAccounted, Protected,
         MGracePeriod, [MNext]_mvars
  PROVE  Protected'
<1> USE DEF heapVars, localVars
<1>0. Writers \subseteq Coros
  BY RcuAssumption
<1>1. ASSUME gp' = gp,
             \A r \in Coros : pc'[r] = "use" => pc[r] = "use" /\ p'[r] = p[r],
             \A w \in Writers : pc[w] \in {"sync", "scan"} =>
                pc'[w] \in {"sync", "scan"} /\ q'[w] = q[w]
      PROVE  Protected'
  <2> SUFFICES ASSUME NEW r \in Coros, pc'[r] = "use", p'[r] # gp'
               PROVE  \E w \in Retired' : q'[w] = p'[r] /\ pc'[w] # "delete"
    BY DEF Protected
  <2>1. PICK w \in Retired : q[w] = p[r] /\ pc[w] # "delete"
    BY <1>1 DEF Protected
  <2>2. /\ w \in Writers /\ pc'[w] \in {"sync", "scan"} /\ q'[w] = q[w]
        /\ p'[r] = p[r]
    BY <1>1, <2>1 DEF Retired
  <2>3. w \in Retired'
    BY <2>2 DEF Retired
  <2> QED BY <2>1, <2>2, <2>3
<1>2. CASE MOutside
  <2>1. UNCHANGED <<gp, p, q, pc>>
    BY <1>2, MOutsideFrame
  <2> QED BY <1>1, <2>1
<1>3. ASSUME NEW k \in Cores, NEW c \in Coros, MCoroStep(k, c)
      PROVE  Protected'
  <2> USE DEF Step, MTypes
  <2>1. CASE ReadLock(k, c) \/ LoadSequencer(k, c) \/ PublishVersion(k, c)
    BY <1>0, <1>1, <2>1 DEF ReadLock, LoadSequencer, PublishVersion
  <2>2. CASE Dereference(k, c)
    <3>1. /\ p'[c] = gp /\ gp' = gp /\ q' = q
          /\ pc[c] = "deref" /\ pc'[c] = "use"
          /\ \A d \in Coros : d # c => pc'[d] = pc[d] /\ p'[d] = p[d]
      BY <2>2 DEF Dereference
    <3>2. Retired' = Retired /\ \A w \in Retired : pc'[w] = pc[w]
      BY <1>0, <3>1 DEF Retired
    <3> SUFFICES ASSUME NEW r \in Coros, pc'[r] = "use", p'[r] # gp'
                 PROVE  \E w \in Retired' : q'[w] = p'[r] /\ pc'[w] # "delete"
      BY DEF Protected
    <3>3. r # c /\ pc[r] = "use" /\ p'[r] = p[r] /\ p[r] # gp
      BY <3>1
    <3>4. \E w \in Retired : q[w] = p[r] /\ pc[w] # "delete"
      BY <3>3 DEF Protected
    <3> QED BY <3>1, <3>2, <3>3, <3>4
  <2>3. CASE ReadUnlock(k, c)
    <3>1. c \notin Writers
      BY <2>3 DEF ReadUnlock, MRoles
    <3> QED BY <1>0, <1>1, <2>3, <3>1 DEF ReadUnlock
  <2>4. CASE New(k, c)
    BY <1>0, <1>1, <2>4 DEF New
  <2>5. CASE LoadOld(k, c)
    BY <1>0, <1>1, <2>5 DEF LoadOld
  <2>6. CASE AssignPointer(k, c)
    <3>1. /\ c \in Writers /\ q[c] = gp /\ p' = p /\ q' = q
          /\ pc[c] = "assign" /\ pc'[c] = "sync"
          /\ \A d \in Coros : d # c => pc'[d] = pc[d]
      BY <2>6 DEF AssignPointer, MRoles, OwnerExclusion
    <3> SUFFICES ASSUME NEW r \in Coros, pc'[r] = "use"
                 PROVE  \E w \in Retired' : q[w] = p[r] /\ pc'[w] # "delete"
      BY <3>1 DEF Protected
    <3>2. pc[r] = "use"
      BY <3>1
    <3>3. CASE p[r] = gp
      <4>1. c \in Retired' /\ q[c] = p[r] /\ pc'[c] # "delete"
        BY <3>1, <3>3 DEF Retired
      <4> QED BY <4>1
    <3>4. CASE p[r] # gp
      <4>1. PICK w \in Retired : q[w] = p[r] /\ pc[w] # "delete"
        BY <3>2, <3>4 DEF Protected
      <4>2. w \in Writers /\ w # c /\ pc'[w] = pc[w]
        BY <1>0, <3>1, <4>1 DEF Retired
      <4>3. w \in Retired'
        BY <4>1, <4>2 DEF Retired
      <4> QED BY <4>1, <4>2, <4>3
    <3> QED BY <3>3, <3>4
  <2>7. CASE FetchAdd(k, c) \/ ScanPass(k, c) \/ ScanWait(k, c)
    BY <1>0, <1>1, <2>7 DEF FetchAdd, ScanPass, ScanWait
  <2>8. CASE ScanEnd(k, c)
    <3>1. /\ pc[c] = "scan" /\ i[c] = num_threads
          /\ gp' = gp /\ p' = p /\ q' = q
          /\ c \notin Writers => pc'[c] = "loop"
          /\ c \in Writers => pc'[c] = "delete"
          /\ \A d \in Coros : d # c => pc'[d] = pc[d]
      BY <2>8 DEF ScanEnd
    <3>2. ASSUME c \in Writers, NEW r \in Coros, pc[r] = "use"
          PROVE  p[r] # q[c]
      <4>1. PICK j \in Cores : running[j] = r
        BY <3>2 DEF Placement, Stacks, OnTop
      <4>2. j \in Nat /\ j < num_threads /\ num_threads \in Nat
        <5> HIDE DEF MTypes
        <5> QED BY ReactorAssumption DEF Cores
      <4>3. p[r] = q[c] => i[c] <= j
        BY <3>1, <3>2, <4>1 DEF MGracePeriod
      <4> HIDE DEF MTypes
      <4> QED BY <3>1, <4>2, <4>3
    <3> SUFFICES ASSUME NEW r \in Coros, pc'[r] = "use", p[r] # gp
                 PROVE  \E w \in Retired' : q[w] = p[r] /\ pc'[w] # "delete"
      BY <3>1 DEF Protected
    <3>3. pc[r] = "use"
      BY <3>1
    <3>4. PICK w \in Retired : q[w] = p[r] /\ pc[w] # "delete"
      BY <3>3 DEF Protected
    <3>5. w \in Writers /\ w # c
      BY <3>2, <3>3, <3>4 DEF Retired
    <3>6. pc'[w] = pc[w] /\ w \in Retired'
      BY <1>0, <3>1, <3>4, <3>5 DEF Retired
    <3> QED BY <3>4, <3>6
  <2>9. CASE Delete(k, c) \/ TaskReturn(k, c)
    BY <1>0, <1>1, <2>9 DEF Delete, TaskReturn
  <2>10. CASE TaskStep(k, c)
    BY <2>1, <2>2, <2>3, <2>4, <2>5, <2>6, <2>7, <2>8, <2>9, <2>10 DEF TaskStep
  <2>11. CASE SectionEnd(k, c) \/ AwaitIo(k, c) \/ unlockFree(k, c)
    BY <1>0, <1>1, <2>11 DEF SectionEnd, AwaitIo, unlockFree, SpinUnlock
  <2>12. CASE coLock(k, c)
    BY <1>0, <1>1, <2>12 DEF coLock, AfterLock
  <2>13. CASE coLockQueue(k, c)
    BY <1>1, <2>13 DEF coLockQueue
  <2>14. CASE unlock(k, c)
    <3>1. /\ Head(queue) \in Coros /\ pc[Head(queue)] \in {"lock", "rlock"}
          /\ \A d \in Coros : pc'[d] = IF d = Head(queue) THEN AfterLock(d)
                                       ELSE IF d = c THEN "loop" ELSE pc[d]
      BY <2>14, UnlockPlacement
    <3>2. pc[c] = "unlock" /\ UNCHANGED <<gp, p, q>>
      BY <2>14 DEF unlock
    <3>3. AfterLock(Head(queue)) \in {"swap", "unlock"}
      BY DEF AfterLock
    <3> QED BY <1>0, <1>1, <3>1, <3>2, <3>3
  <2> QED
    BY <1>3, <2>10, <2>11, <2>12, <2>13, <2>14 DEF MCoroStep
<1>4. ASSUME NEW k \in Cores, NEW c \in Coros, CompleteIo(k, c)
      PROVE  Protected'
  <2>1. pc[c] = "iowait"
    BY <1>4 DEF CompleteIo, Placement, MParked, AtDevice
  <2> QED BY <1>0, <1>1, <1>4, <2>1 DEF CompleteIo, MTypes
<1> QED BY <1>2, <1>3, <1>4, MNextKinds

-----------------------------------------------------------------------------
(***************************************************************************)
(* Readers: what the core they run on has published.                       *)
(***************************************************************************)

\* A coroutine's step concerns its own core: the other cores run what they ran,
\* and if the core goes on with another coroutine that one is not in a section.
LEMMA OwnCore ==
  ASSUME MTypes, Placement, MRoles, NEW k \in Cores, NEW c \in Coros, MCoroStep(k, c)
  PROVE  /\ running[k] = c
         /\ \A j \in Cores \ {k} :
              /\ running'[j] = running[j] /\ running[j] # c
              /\ running[j] # None => pc'[running[j]] = pc[running[j]]
         /\ \/ running'[k] = c
            \/ running'[k] # None =>
                 /\ running'[k] \in Coros
                 /\ pc'[running'[k]] \notin {"rload", "rstore", "deref", "use"}
         /\ \A d \in Coros \ {c} :
              pc'[d] \in {"rload", "rstore", "deref", "use"} => pc'[d] = pc[d]
<1>0. ReactorTypeOK /\ OneFrame
  BY DEF MTypes, Placement
<1>1. CASE MStays(k, c)
  <2>1. /\ running[k] = c /\ running' = running
        /\ \A d \in Coros \ {c} : pc'[d] = pc[d]
    BY <1>1 DEF MStays, Executes, MTypes
  <2>2. \A j \in Cores \ {k} : running[j] # c /\ (running[j] # None => running[j] \in Coros)
    BY <1>0, <2>1 DEF OneFrame, ReactorTypeOK
  <2> QED BY <2>1, <2>2
<1>2. CASE MLeaves(k, c)
  <2>1. /\ running[k] = c /\ running' = [running EXCEPT ![k] = resumer[c]]
        /\ \A d \in Coros \ {c} : pc'[d] = pc[d]
    BY <1>2 DEF MLeaves, Executes, Return, MTypes
  <2>2. \A j \in Cores \ {k} : running[j] # c /\ (running[j] # None => running[j] \in Coros)
    BY <1>0, <2>1 DEF OneFrame, ReactorTypeOK
  <2>3. running'[k] = resumer[c] /\ \A j \in Cores \ {k} : running'[j] = running[j]
    BY <1>0, <2>1 DEF ReactorTypeOK
  <2>4. resumer[c] # None => resumer[c] \in Coros \ {c} /\ pc[resumer[c]] = "loop"
    BY <1>0, <2>1 DEF OneFrame, ReactorTypeOK, Placement, Stacks
  <2> QED BY <2>1, <2>2, <2>3, <2>4
<1>3. CASE unlock(k, c)
  <2>1. /\ Head(queue) \in Coros /\ pc[Head(queue)] \in {"lock", "rlock"}
        /\ running'[k] = Head(queue)
        /\ \A j \in Cores \ {k} : running'[j] = running[j]
        /\ \A d \in Coros : pc'[d] = IF d = Head(queue) THEN AfterLock(d)
                                     ELSE IF d = c THEN "loop" ELSE pc[d]
    BY <1>3, UnlockPlacement
  <2>2. running[k] = c
    BY <1>3 DEF unlock, Executes
  <2>3. AfterLock(Head(queue)) \in {"swap", "unlock"}
    BY DEF AfterLock
  <2>4. \A j \in Cores \ {k} : running[j] # c /\ (running[j] # None => running[j] \in Coros)
    BY <1>0, <2>2 DEF OneFrame, ReactorTypeOK
  <2>5. \A j \in Cores \ {k} : running[j] # Head(queue)
    <3>1. OneFrame'
      BY <1>3, UnlockPlacement DEF Placement
    <3> QED BY <2>1, <3>1 DEF OneFrame
  <2> QED BY <2>1, <2>2, <2>3, <2>4, <2>5
<1> QED BY <1>1, <1>2, <1>3, MCoroKinds

\* Versions stay published.
LEMMA MPublishedNext ==
  ASSUME MTypes, Placement, MRoles, MPublished, [MNext]_mvars
  PROVE  MPublished'
<1>0. Refresh \in Nat \ {0} /\ None \notin Coros
  BY ReactorAssumption
\* It is enough to look at one core.
<1>1. ASSUME NEW k \in Cores,
             sequencer' \in Nat /\ sequencer <= sequencer',
             \A j \in Cores \ {k} :
               /\ versions'[j] = versions[j] /\ rcu_count'[j] = rcu_count[j]
               /\ running'[j] = running[j]
               /\ running[j] # None => pc'[running[j]] = pc[running[j]],
             \A d \in Coros : pc'[d] = "rstore" => global_version'[d] <= sequencer',
             running'[k] # None /\ pc'[running'[k]] \in {"deref", "use"} =>
               versions'[k] <= sequencer',
             rcu_count'[k] # Refresh - 1 =>
               \/ versions'[k] <= sequencer'
               \/ running'[k] # None /\ pc'[running'[k]] \in {"rload", "rstore"}
      PROVE  MPublished'
  <2>0. \A j \in Cores : versions[j] \in Nat /\ sequencer \in Nat
    BY DEF MTypes, ReactorTypeOK
  <2>1. \A j \in Cores : versions[j] <= sequencer => versions[j] <= sequencer'
    BY <1>1, <2>0
  <2>2. ASSUME NEW d \in Coros, NEW j \in Cores, running'[j] = d,
               pc'[d] \in {"deref", "use"}
        PROVE  versions'[j] <= sequencer'
    <3>1. CASE j = k
      BY <1>0, <1>1, <2>2, <3>1
    <3>2. CASE j # k
      <4>1. running[j] = d /\ pc'[d] = pc[d] /\ versions'[j] = versions[j]
        BY <1>0, <1>1, <2>2, <3>2
      <4> QED BY <2>1, <2>2, <4>1 DEF MPublished
    <3> QED BY <3>1, <3>2
  <2>3. ASSUME NEW j \in Cores, rcu_count'[j] # Refresh - 1
        PROVE  \/ versions'[j] <= sequencer'
               \/ running'[j] # None /\ pc'[running'[j]] \in {"rload", "rstore"}
    <3>1. CASE j = k
      BY <1>1, <2>3, <3>1
    <3>2. CASE j # k
      BY <1>1, <2>1, <2>3, <3>2 DEF MPublished
    <3> QED BY <3>1, <3>2
  <2> QED BY <1>1, <2>2, <2>3 DEF MPublished
\* No version changes, and the core is not in the middle of rcu_read_lock().
<1>2. ASSUME NEW k \in Cores, UNCHANGED <<versions, rcu_count, sequencer, global_version>>,
             \A j \in Cores \ {k} :
               /\ running'[j] = running[j]
               /\ running[j] # None => pc'[running[j]] = pc[running[j]],
             \A d \in Coros : pc'[d] = "rstore" => pc[d] = "rstore",
             running[k] # None => pc[running[k]] \notin {"rload", "rstore"},
             running'[k] # None /\ pc'[running'[k]] \in {"deref", "use"} =>
               /\ running'[k] = running[k]
               /\ pc[running[k]] \in {"deref", "use"}
      PROVE  MPublished'
  <2>1. sequencer' \in Nat /\ sequencer <= sequencer'
    BY <1>2 DEF MTypes
  <2>2. running'[k] # None /\ pc'[running'[k]] \in {"deref", "use"} =>
          versions'[k] <= sequencer'
    BY <1>2 DEF MPublished, MTypes, ReactorTypeOK
  <2>3. rcu_count'[k] # Refresh - 1 => versions'[k] <= sequencer'
    BY <1>2 DEF MPublished
  <2>4. \A d \in Coros : pc'[d] = "rstore" => global_version'[d] <= sequencer'
    BY <1>2 DEF MPublished
  <2> QED BY <1>1, <1>2, <2>1, <2>2, <2>3, <2>4
<1>3. ASSUME UNCHANGED <<running, pc, versions, rcu_count, sequencer, global_version>>
      PROVE  MPublished'
  BY <1>3 DEF MPublished
<1>4. CASE MOutside
  <2>1. UNCHANGED <<pc, global_version, sequencer>>
    BY <1>4, MOutsideFrame DEF localVars
  <2>2. CASE SubmitTask \/ Stopped \/ UNCHANGED mvars
    <3>1. UNCHANGED <<running, versions, rcu_count>>
      BY <2>2
      DEF SubmitTask, Submit, Stopped, mvars, vars, reactorVars, rcuVars, stackVars
    <3> QED BY <1>3, <2>1, <3>1
  <2>3. ASSUME NEW k \in Cores, Dispatch(k)
        PROVE  MPublished'
    <3>1. /\ running[k] = None /\ UNCHANGED <<versions, rcu_count>>
          /\ running' = [running EXCEPT ![k] = Head(inbox[k])]
          /\ inbox[k] # <<>> /\ inbox' = [inbox EXCEPT ![k] = Tail(@)]
      BY <2>3 DEF Dispatch, Idle, Resume, rcuVars
    <3>2. Head(inbox[k]) \in Coros /\ InInbox(Head(inbox[k]))
      BY <3>1, TakeOnce DEF MTypes, Placement
    <3>3. pc[Head(inbox[k])] \in {"loop", "scan"}
      BY <3>2 DEF Placement, MParked
    <3>4. /\ running'[k] = Head(inbox[k])
          /\ \A j \in Cores \ {k} : running'[j] = running[j]
      BY <3>1 DEF MTypes, ReactorTypeOK
    <3> QED BY <1>2, <2>1, <3>1, <3>3, <3>4
  <2>4. ASSUME NEW k \in Cores, SuspendTail(k)
        PROVE  MPublished'
    <3>1. /\ suspending[k] /\ UNCHANGED running
          /\ rcu_count'[k] = Refresh - 1
          /\ \A j \in Cores \ {k} : versions'[j] = versions[j] /\ rcu_count'[j] = rcu_count[j]
      BY <2>4 DEF SuspendTail, rcu_offline, stackVars, MTypes, ReactorTypeOK
    <3>2. running[k] # None => pc[running[k]] = "loop"
      BY <3>1 DEF Placement, Stacks
    <3>3. sequencer' \in Nat /\ sequencer <= sequencer'
      BY <2>1 DEF MTypes
    <3>4. \A d \in Coros : pc'[d] = "rstore" => global_version'[d] <= sequencer'
      BY <2>1 DEF MPublished
    <3> QED BY <1>1, <2>1, <3>1, <3>2, <3>3, <3>4
  <2> QED BY <1>4, <2>2, <2>3, <2>4 DEF MOutside, MReactors
<1>5. ASSUME NEW k \in Cores, NEW c \in Coros, MCoroStep(k, c)
      PROVE  MPublished'
  <2> USE DEF Step, reactorVars, stackVars, rcuVars, localVars
  <2>0. /\ running[k] = c
        /\ \A j \in Cores \ {k} :
             /\ running'[j] = running[j] /\ running[j] # c
             /\ running[j] # None => pc'[running[j]] = pc[running[j]]
        /\ \/ running'[k] = c
           \/ running'[k] # None =>
                /\ running'[k] \in Coros
                /\ pc'[running'[k]] \notin {"rload", "rstore", "deref", "use"}
        /\ \A d \in Coros \ {c} :
             pc'[d] \in {"rload", "rstore", "deref", "use"} => pc'[d] = pc[d]
    BY <1>5, OwnCore
  <2>1. \A d \in Coros \ {c} : pc'[d] = "rstore" => pc[d] = "rstore"
    BY <2>0
  \* The step changes neither versions nor the counter.
  <2>2. ASSUME UNCHANGED <<versions, rcu_count, sequencer, global_version>>,
               pc[c] \notin {"rload", "rstore"}, pc'[c] # "rstore",
               pc'[c] \in {"deref", "use"} => pc[c] \in {"deref", "use"}
        PROVE  MPublished'
    <3>1. \A d \in Coros : pc'[d] = "rstore" => pc[d] = "rstore"
      BY <2>1, <2>2
    <3>2. running'[k] # None /\ pc'[running'[k]] \in {"deref", "use"} =>
            running'[k] = running[k] /\ pc[running[k]] \in {"deref", "use"}
      BY <2>0, <2>2
    <3> QED BY <1>2, <2>0, <2>2, <3>1, <3>2
  <2>3. CASE ReadLock(k, c)
    <3>1. /\ pc[c] = "loop"
          /\ UNCHANGED <<running, versions, sequencer, global_version>>
          /\ \A j \in Cores \ {k} : rcu_count'[j] = rcu_count[j]
      BY <2>3 DEF ReadLock, MTypes, ReactorTypeOK
    <3>2. \/ pc'[c] = "rload"
          \/ pc'[c] = "deref" /\ rcu_count[k] + 1 # Refresh
      BY <2>3 DEF ReadLock, MTypes
    <3>3. pc'[c] = "deref" => versions[k] <= sequencer
      <4>1. rcu_count[k] \in Nat /\ (rcu_count[k] + 1 # Refresh => rcu_count[k] # Refresh - 1)
        BY <1>0 DEF MTypes, ReactorTypeOK
      <4> QED BY <2>0, <3>1, <3>2, <4>1 DEF MPublished
    <3>4. sequencer' \in Nat /\ sequencer <= sequencer'
      BY <3>1 DEF MTypes
    <3>5. \A d \in Coros : pc'[d] = "rstore" => global_version'[d] <= sequencer'
      BY <2>1, <3>1, <3>2 DEF MPublished
    <3> QED BY <1>0, <1>1, <2>0, <3>1, <3>2, <3>3, <3>4, <3>5
  <2>4. CASE LoadSequencer(k, c)
    <3>1. /\ UNCHANGED <<running, versions, sequencer, rcu_count>>
          /\ pc'[c] = "rstore" /\ global_version'[c] = sequencer
          /\ \A d \in Coros \ {c} : global_version'[d] = global_version[d]
      BY <2>4 DEF LoadSequencer, MTypes
    <3>2. sequencer' \in Nat /\ sequencer <= sequencer'
      BY <3>1 DEF MTypes
    <3>3. \A d \in Coros : pc'[d] = "rstore" => global_version'[d] <= sequencer'
      <4> TAKE d \in Coros
      <4>1. CASE d = c
        BY <3>1, <3>2, <4>1
      <4>2. CASE d # c
        BY <2>1, <3>1, <4>2 DEF MPublished
      <4> QED BY <4>1, <4>2
    <3> QED BY <1>0, <1>1, <2>0, <3>1, <3>2, <3>3
  <2>5. CASE PublishVersion(k, c)
    <3>1. /\ UNCHANGED <<running, sequencer, rcu_count, global_version>>
          /\ pc[c] = "rstore" /\ pc'[c] = "deref"
          /\ versions'[k] = global_version[c]
          /\ \A j \in Cores \ {k} : versions'[j] = versions[j]
      BY <2>5 DEF PublishVersion, MTypes, ReactorTypeOK
    <3>2. versions'[k] <= sequencer'
      BY <3>1 DEF MPublished
    <3>3. sequencer' \in Nat /\ sequencer <= sequencer'
      BY <3>1 DEF MTypes
    <3>4. \A d \in Coros : pc'[d] = "rstore" => global_version'[d] <= sequencer'
      BY <2>1, <3>1 DEF MPublished
    <3> QED BY <1>1, <2>0, <3>1, <3>2, <3>3, <3>4
  <2>6. CASE FetchAdd(k, c)
    <3>1. /\ UNCHANGED <<running, versions, rcu_count, global_version>>
          /\ pc[c] = "sync" /\ pc'[c] = "scan"
          /\ sequencer' = sequencer + 1
      BY <2>6 DEF FetchAdd, MTypes
    <3>2. sequencer \in Nat /\ sequencer' \in Nat /\ sequencer <= sequencer'
      BY <3>1 DEF MTypes
    <3>3. \A n \in Nat : n <= sequencer => n <= sequencer'
      BY <3>2
    <3>4. rcu_count'[k] # Refresh - 1 => versions'[k] <= sequencer'
      <4>1. versions[k] \in Nat
        BY DEF MTypes, ReactorTypeOK
      <4> QED BY <2>0, <3>1, <3>3, <4>1 DEF MPublished
    <3>5. \A d \in Coros : pc'[d] = "rstore" => global_version'[d] <= sequencer'
      <4>1. \A d \in Coros : global_version[d] \in Nat
        BY DEF MTypes
      <4> QED BY <2>1, <3>1, <3>3, <4>1 DEF MPublished
    <3> QED BY <1>1, <2>0, <3>1, <3>2, <3>4, <3>5
  <2>7. CASE ScanWait(k, c) \/ TaskReturn(k, c)
    <3>1. /\ UNCHANGED <<sequencer, global_version>>
          /\ pc'[c] \notin {"rload", "rstore", "deref", "use"}
          /\ rcu_count'[k] = Refresh - 1
          /\ \A j \in Cores \ {k} : versions'[j] = versions[j] /\ rcu_count'[j] = rcu_count[j]
      BY <2>7
      DEF ScanWait, TaskReturn, Yield, Finish, rcu_offline, MTypes, ReactorTypeOK
    <3>2. sequencer' \in Nat /\ sequencer <= sequencer'
      BY <3>1 DEF MTypes
    <3>3. \A d \in Coros : pc'[d] = "rstore" => global_version'[d] <= sequencer'
      BY <2>1, <3>1 DEF MPublished
    <3> QED BY <1>1, <2>0, <3>1, <3>2, <3>3
  <2>8. CASE Dereference(k, c) \/ ReadUnlock(k, c) \/ New(k, c)
    BY <2>2, <2>8 DEF Dereference, ReadUnlock, New, MTypes
  <2>9. CASE LoadOld(k, c) \/ AssignPointer(k, c) \/ ScanPass(k, c)
    BY <2>2, <2>9 DEF LoadOld, AssignPointer, ScanPass, MTypes
  <2>10. CASE ScanEnd(k, c) \/ Delete(k, c)
    BY <2>2, <2>10 DEF ScanEnd, Delete, MTypes
  <2>11. CASE TaskStep(k, c)
    BY <2>3, <2>4, <2>5, <2>6, <2>7, <2>8, <2>9, <2>10, <2>11 DEF TaskStep
  <2>12. CASE SectionEnd(k, c) \/ AwaitIo(k, c) \/ unlockFree(k, c)
    BY <2>2, <2>12 DEF SectionEnd, AwaitIo, unlockFree, SpinUnlock, MTypes
  <2>13. CASE coLock(k, c)
    BY <2>2, <2>13 DEF coLock, AfterLock, MTypes
  <2>14. CASE coLockQueue(k, c)
    BY <2>2, <2>14 DEF coLockQueue
  <2>15. CASE unlock(k, c)
    <3>1. pc[c] = "unlock" /\ UNCHANGED <<versions, rcu_count, sequencer, global_version>>
      BY <2>15 DEF unlock
    <3>2. pc'[c] \notin {"rload", "rstore", "deref", "use"}
      <4>1. \A d \in Coros : pc'[d] = IF d = Head(queue) THEN AfterLock(d)
                                      ELSE IF d = c THEN "loop" ELSE pc[d]
        BY <2>15, UnlockPlacement
      <4> QED BY <4>1 DEF AfterLock
    <3> QED BY <2>2, <3>1, <3>2
  <2> QED
    BY <1>5, <2>11, <2>12, <2>13, <2>14, <2>15 DEF MCoroStep
<1>6. ASSUME NEW k \in Cores, NEW c \in Coros, CompleteIo(k, c)
      PROVE  MPublished'
  <2>1. /\ running[k] = None /\ running' = [running EXCEPT ![k] = c]
        /\ UNCHANGED <<versions, rcu_count, sequencer, global_version>>
        /\ \A d \in Coros : pc'[d] = IF d = c THEN "loop" ELSE pc[d]
    BY <1>6 DEF CompleteIo, Idle, Resume, rcuVars, MTypes
  <2>2. ~OnStack(c)
    BY <1>6 DEF CompleteIo, Placement, MParked, AtDevice
  <2>3. /\ running'[k] = c
        /\ \A j \in Cores \ {k} : running'[j] = running[j] /\ running[j] # c
        /\ \A j \in Cores : running[j] # None => running[j] \in Coros
    BY <2>1, <2>2 DEF MTypes, ReactorTypeOK, OnStack
  <2> QED BY <1>2, <2>1, <2>3
<1> QED BY <1>4, <1>5, <1>6, MNextKinds

-----------------------------------------------------------------------------
(***************************************************************************)
(* The grace period.                                                       *)
(***************************************************************************)

\* A section that works on an object began before the object's grace period,
\* wherever the writer runs.
LEMMA MGraceNext ==
  ASSUME MTypes, Placement, MRoles, MPublished, HeapAccounted, MGracePeriod, [MNext]_mvars
  PROVE  MGracePeriod'
<1>0. Writers \subseteq Coros /\ Cores \subseteq Nat /\ num_threads \in Nat
  BY RcuAssumption, ReactorAssumption DEF Cores
<1>1. ASSUME \A r \in Coros, j \in Cores : running'[j] = r /\ pc'[r] = "use" =>
               /\ running[j] = r /\ pc[r] = "use"
               /\ p'[r] = p[r] /\ versions'[j] = versions[j],
             \A w \in Writers : pc'[w] = "scan" =>
               /\ pc[w] = "scan" /\ q'[w] = q[w] /\ i'[w] = i[w]
               /\ current_core'[w] = current_core[w]
               /\ writer_version'[w] = writer_version[w]
      PROVE  MGracePeriod'
  <2> SUFFICES ASSUME NEW r \in Coros, NEW w \in Writers, NEW j \in Cores,
                      running'[j] = r, pc'[r] = "use", pc'[w] = "scan", q'[w] = p'[r]
               PROVE  /\ j # current_core'[w]
                      /\ versions'[j] < writer_version'[w]
                      /\ i'[w] <= j
    BY DEF MGracePeriod
  <2>1. running[j] = r /\ pc[r] = "use" /\ pc[w] = "scan" /\ q[w] = p[r]
    BY <1>1
  <2>2. /\ j # current_core[w]
        /\ versions[j] < writer_version[w]
        /\ i[w] <= j
    BY <2>1 DEF MGracePeriod
  <2> QED BY <1>1, <2>2
<1>2. CASE MOutside
  <2>1. UNCHANGED <<p, q, pc, i, current_core, writer_version>>
    BY <1>2, MOutsideFrame DEF localVars
  <2>2. CASE SubmitTask \/ Stopped \/ UNCHANGED mvars
    <3>1. UNCHANGED <<running, versions>>
      BY <2>2
      DEF SubmitTask, Submit, Stopped, mvars, vars, reactorVars, rcuVars, stackVars
    <3> QED BY <1>1, <2>1, <3>1
  <2>3. ASSUME NEW k \in Cores, Dispatch(k)
        PROVE  MGracePeriod'
    <3>1. /\ UNCHANGED versions
          /\ running' = [running EXCEPT ![k] = Head(inbox[k])]
          /\ inbox[k] # <<>> /\ inbox' = [inbox EXCEPT ![k] = Tail(@)]
      BY <2>3 DEF Dispatch, Resume, rcuVars
    <3>2. Head(inbox[k]) \in Coros /\ InInbox(Head(inbox[k]))
      BY <3>1, TakeOnce DEF MTypes, Placement
    <3>3. pc[Head(inbox[k])] \in {"loop", "scan"}
      BY <3>2 DEF Placement, MParked
    <3>4. \A j \in Cores : running'[j] = IF j = k THEN Head(inbox[k]) ELSE running[j]
      BY <3>1 DEF MTypes, ReactorTypeOK
    <3> QED BY <1>1, <2>1, <3>1, <3>3, <3>4
  <2>4. ASSUME NEW k \in Cores, SuspendTail(k)
        PROVE  MGracePeriod'
    <3>1. /\ suspending[k] /\ UNCHANGED running
          /\ \A j \in Cores \ {k} : versions'[j] = versions[j]
      BY <2>4 DEF SuspendTail, rcu_offline, stackVars, MTypes, ReactorTypeOK
    <3>2. running[k] # None => pc[running[k]] = "loop"
      BY <3>1 DEF Placement, Stacks
    <3> QED BY <1>1, <2>1, <3>1, <3>2, ReactorAssumption
  <2> QED BY <1>2, <2>2, <2>3, <2>4 DEF MOutside, MReactors
<1>3. ASSUME NEW k \in Cores, NEW c \in Coros, MCoroStep(k, c)
      PROVE  MGracePeriod'
  <2> USE DEF Step, reactorVars, stackVars, rcuVars, heapVars, localVars
  <2>0. /\ running[k] = c
        /\ \A j \in Cores \ {k} :
             /\ running'[j] = running[j] /\ running[j] # c
             /\ running[j] # None => pc'[running[j]] = pc[running[j]]
        /\ \/ running'[k] = c
           \/ running'[k] # None =>
                pc'[running'[k]] \notin {"rload", "rstore", "deref", "use"}
    BY <1>3, OwnCore
  \* The sections of the other coroutines are on the other cores.
  <2>1. ASSUME NEW r \in Coros \ {c}, NEW j \in Cores, running'[j] = r, pc'[r] = "use"
        PROVE  j # k /\ running[j] = r /\ pc[r] = "use"
    <3>1. j # k
      BY <2>0, <2>1, ReactorAssumption
    <3> QED BY <2>0, <2>1, <3>1, ReactorAssumption
  <2>2. ASSUME \A j \in Cores \ {k} : versions'[j] = versions[j],
               pc'[c] # "use", \A d \in Coros \ {c} : p'[d] = p[d],
               \A w \in Writers : pc'[w] = "scan" =>
                 /\ pc[w] = "scan" /\ q'[w] = q[w] /\ i'[w] = i[w]
                 /\ current_core'[w] = current_core[w]
                 /\ writer_version'[w] = writer_version[w]
        PROVE  MGracePeriod'
    <3>1. ASSUME NEW r \in Coros, NEW j \in Cores, running'[j] = r, pc'[r] = "use"
          PROVE  /\ running[j] = r /\ pc[r] = "use"
                 /\ p'[r] = p[r] /\ versions'[j] = versions[j]
      BY <2>1, <2>2, <3>1
    <3> QED BY <1>1, <2>2, <3>1
  <2>3. CASE ReadLock(k, c) \/ LoadSequencer(k, c) \/ PublishVersion(k, c)
    BY <1>0, <2>2, <2>3
    DEF ReadLock, LoadSequencer, PublishVersion, MTypes, ReactorTypeOK
  <2>4. CASE Dereference(k, c)
    <3>1. /\ p'[c] = gp /\ pc[c] = "deref" /\ pc'[c] = "use"
          /\ UNCHANGED <<q, i, current_core, writer_version, versions>>
          /\ \A d \in Coros \ {c} : pc'[d] = pc[d] /\ p'[d] = p[d]
      BY <2>4 DEF Dereference, MTypes
    <3> SUFFICES ASSUME NEW r \in Coros, NEW w \in Writers, NEW j \in Cores,
                        running'[j] = r, pc'[r] = "use", pc'[w] = "scan", q[w] = p'[r]
                 PROVE  /\ j # current_core[w]
                        /\ versions[j] < writer_version[w]
                        /\ i[w] <= j
      BY <3>1 DEF MGracePeriod
    <3>2. pc[w] = "scan" /\ q[w] # gp
      <4>1. w # c
        BY <3>1
      <4> QED BY <1>0, <3>1, <4>1 DEF HeapAccounted, Retired
    <3>3. r # c
      BY <3>1, <3>2
    <3>4. running[j] = r /\ pc[r] = "use" /\ p'[r] = p[r]
      BY <2>1, <3>1, <3>3
    <3> QED BY <3>2, <3>4 DEF MGracePeriod
  <2>5. CASE ReadUnlock(k, c)
    BY <1>0, <2>2, <2>5 DEF ReadUnlock, MTypes
  <2>6. CASE New(k, c) \/ LoadOld(k, c) \/ AssignPointer(k, c)
    BY <1>0, <2>2, <2>6 DEF New, LoadOld, AssignPointer, MTypes
  <2>7. CASE ScanWait(k, c) \/ TaskReturn(k, c)
    <3>1. /\ UNCHANGED <<p, q, i, current_core, writer_version>>
          /\ pc'[c] # "use"
          /\ pc'[c] = "scan" => pc[c] = "scan"
          /\ \A j \in Cores \ {k} : versions'[j] = versions[j]
          /\ \A d \in Coros \ {c} : pc'[d] = pc[d]
      BY <2>7
      DEF ScanWait, TaskReturn, Yield, Finish, rcu_offline, MTypes, ReactorTypeOK
    <3> QED BY <1>0, <2>2, <3>1
  <2>8. CASE FetchAdd(k, c)
    <3>1. /\ UNCHANGED <<p, q, versions>>
          /\ pc[c] = "sync" /\ pc'[c] = "scan"
          /\ writer_version'[c] = sequencer + 1
          /\ current_core'[c] = k /\ i'[c] = 0
          /\ \A d \in Coros \ {c} :
               /\ pc'[d] = pc[d] /\ i'[d] = i[d]
               /\ writer_version'[d] = writer_version[d]
               /\ current_core'[d] = current_core[d]
      BY <2>8 DEF FetchAdd, MTypes
    <3> SUFFICES ASSUME NEW r \in Coros, NEW w \in Writers, NEW j \in Cores,
                        running'[j] = r, pc'[r] = "use", pc'[w] = "scan", q[w] = p[r]
                 PROVE  /\ j # current_core'[w]
                        /\ versions[j] < writer_version'[w]
                        /\ i'[w] <= j
      BY <3>1 DEF MGracePeriod
    <3>2. r # c
      BY <3>1
    <3>3. j # k /\ running[j] = r /\ pc[r] = "use"
      BY <2>1, <3>2
    <3>4. CASE w = c
      <4>1. versions[j] <= sequencer
        BY <3>3 DEF MPublished
      <4>2. versions[j] \in Nat /\ sequencer \in Nat /\ j \in Nat
        BY <1>0 DEF MTypes, ReactorTypeOK
      <4>3. versions[j] < sequencer + 1 /\ 0 <= j
        BY <4>1, <4>2
      <4> QED BY <3>1, <3>3, <3>4, <4>3, Zenon
    <3>5. CASE w # c
      BY <1>0, <3>1, <3>3, <3>5 DEF MGracePeriod
    <3> QED BY <3>4, <3>5
  <2>9. CASE ScanPass(k, c)
    <3>1. /\ UNCHANGED <<running, p, q, versions, current_core, writer_version>>
          /\ pc[c] = "scan" /\ pc' = pc /\ i'[c] = i[c] + 1
          /\ i[c] = current_core[c] \/ writer_version[c] <= versions[i[c]]
          /\ \A d \in Coros \ {c} : i'[d] = i[d]
      BY <2>9 DEF ScanPass, MTypes
    <3> SUFFICES ASSUME NEW r \in Coros, NEW w \in Writers, NEW j \in Cores,
                        running[j] = r, pc[r] = "use", pc[w] = "scan", q[w] = p[r]
                 PROVE  i'[w] <= j
      BY <3>1 DEF MGracePeriod
    <3>2. /\ j # current_core[w]
          /\ versions[j] < writer_version[w]
          /\ i[w] <= j
      BY DEF MGracePeriod
    <3>3. CASE w = c
      <4>1. /\ versions[j] \in Nat /\ writer_version[c] \in Nat
            /\ j \in Nat /\ i[c] \in 0 .. num_threads
        BY <1>0 DEF MTypes, ReactorTypeOK
      <4>2. ~(writer_version[c] <= versions[j])
        BY <3>2, <3>3, <4>1
      <4>3. i[c] # j
        BY <3>1, <3>2, <3>3, <4>2
      <4>4. i[c] + 1 <= j
        BY <1>0, <3>2, <3>3, <4>1, <4>3
      <4> QED BY <3>1, <3>3, <4>4
    <3>4. CASE w # c
      BY <1>0, <3>1, <3>2, <3>4
    <3> QED BY <3>3, <3>4
  <2>10. CASE ScanEnd(k, c) \/ Delete(k, c)
    BY <1>0, <2>2, <2>10 DEF ScanEnd, Delete, MTypes
  <2>11. CASE TaskStep(k, c)
    BY <2>3, <2>4, <2>5, <2>6, <2>7, <2>8, <2>9, <2>10, <2>11 DEF TaskStep
  <2>12. CASE SectionEnd(k, c) \/ AwaitIo(k, c) \/ unlockFree(k, c)
    BY <1>0, <2>2, <2>12 DEF SectionEnd, AwaitIo, unlockFree, SpinUnlock, MTypes
  <2>13. CASE coLock(k, c)
    BY <1>0, <2>2, <2>13 DEF coLock, AfterLock, MTypes
  <2>14. CASE coLockQueue(k, c)
    BY <2>2, <2>14 DEF coLockQueue
  <2>15. CASE unlock(k, c)
    <3>1. /\ \A d \in Coros : pc'[d] = IF d = Head(queue) THEN AfterLock(d)
                                      ELSE IF d = c THEN "loop" ELSE pc[d]
          /\ \A d \in Coros : AfterLock(d) \in {"swap", "unlock"}
      BY <2>15, UnlockPlacement DEF AfterLock
    <3>2. UNCHANGED <<versions, p, q, i, current_core, writer_version>>
      BY <2>15 DEF unlock
    <3> QED BY <1>0, <2>2, <3>1, <3>2
  <2> QED
    BY <1>3, <2>11, <2>12, <2>13, <2>14, <2>15 DEF MCoroStep
<1>4. ASSUME NEW k \in Cores, NEW c \in Coros, CompleteIo(k, c)
      PROVE  MGracePeriod'
  <2>1. /\ running' = [running EXCEPT ![k] = c]
        /\ UNCHANGED <<versions, p, q, i, current_core, writer_version>>
        /\ \A d \in Coros : pc'[d] = IF d = c THEN "loop" ELSE pc[d]
    BY <1>4 DEF CompleteIo, Resume, rcuVars, MTypes
  <2>2. \A j \in Cores : running'[j] = IF j = k THEN c ELSE running[j]
    BY <2>1 DEF MTypes, ReactorTypeOK
  <2> QED BY <1>0, <1>1, <2>1, <2>2
<1> QED BY <1>2, <1>3, <1>4, MNextKinds

-----------------------------------------------------------------------------
(***************************************************************************)
(* The theorems.                                                           *)
(***************************************************************************)

\* Nothing runs, waits or is locked at first.
LEMMA RcuMutexInvInit == MInit => RcuMutexInv
<1> SUFFICES ASSUME MInit PROVE RcuMutexInv
  OBVIOUS
<1> USE DEF MInit, Init, ReactorInit
<1>1. \A c \in Coros : pc[c] = "loop"
  OBVIOUS
<1>2. \A c \in Coros : ~OnStack(c)
  BY ReactorAssumption DEF OnStack
<1>3. Range(<<>>) = {} /\ IsInjective(<<>>)
  BY DEF Range, IsInjective
<1>4. \A c \in Coros : ~InInbox(c) /\ ~Queued(c) /\ ~AtDevice(c)
  BY <1>3 DEF InInbox, Queued, AtDevice
<1>5. OneFrame /\ InboxOnce /\ WaitsOnce
  BY <1>2, <1>3 DEF OneFrame, InboxOnce, WaitsOnce, OnStack
<1>6. MParked
  BY <1>1, <1>2, <1>4 DEF MParked
<1>7. Stacks /\ ScansHere
  BY <1>1 DEF Stacks, ScansHere
<1>8. MRoles /\ OwnerExclusion /\ MPublished
  BY <1>1 DEF MRoles, OwnerExclusion, Owns, MPublished
<1>9. HeapAccounted
  <2>1. Fresh = {} /\ Retired = {}
    BY <1>1, RcuAssumption DEF Fresh, Retired
  <2> QED BY <2>1 DEF HeapAccounted
<1>10. Protected /\ MGracePeriod
  BY <1>1 DEF Protected, MGracePeriod
<1> QED
  BY <1>5, <1>6, <1>7, <1>8, <1>9, <1>10, MTypesInit DEF RcuMutexInv, Placement

\* The invariant is inductive.
LEMMA RcuMutexInvariance == MSpec => []RcuMutexInv
<1>1. RcuMutexInv /\ [MNext]_mvars => RcuMutexInv'
  BY MTypesNext, PlacementNext, MRolesNext, OwnerExclusionNext, MHeapNext,
     MPublishedNext, MProtectedNext, MGraceNext DEF RcuMutexInv
<1> QED
  BY <1>1, RcuMutexInvInit, PTL DEF MSpec

\* synchronize_rcu() also waits long enough when it is called with a Mutex held,
\* when unlock() moves writers and readers between cores and when readers await
\* I/Os without going offline.
THEOREM RcuMutexSafe == MSpec => []NoUseAfterFree
<1>1. RcuMutexInv => NoUseAfterFree
  <2> SUFFICES ASSUME RcuMutexInv PROVE NoUseAfterFree
    OBVIOUS
  <2>1. gp \in allocated /\ \A w \in Retired : q[w] \in allocated
    BY DEF RcuMutexInv, HeapAccounted
  <2> QED BY <2>1 DEF RcuMutexInv, Protected, NoUseAfterFree
<1> QED
  BY <1>1, RcuMutexInvariance, PTL

\* Under the Mutex, writers neither leak an object nor free one twice.
THEOREM RcuMutexHeapSafe == MSpec => []HeapAccounted
<1>1. RcuMutexInv => HeapAccounted
  BY DEF RcuMutexInv
<1> QED
  BY <1>1, RcuMutexInvariance, PTL

\* The core that synchronize_rcu() skips is the one it runs on, before and
\* after each yield, and below it on the stack there is no read section.
THEOREM SkipsOwnCore == MSpec => []SkippedCoreQuiet
<1>1. RcuMutexInv => SkippedCoreQuiet
  <2> SUFFICES ASSUME RcuMutexInv PROVE SkippedCoreQuiet
    OBVIOUS
  <2>1. \A n \in 1 .. Len(queue) : pc[queue[n]] \in {"lock", "rlock"}
    <3> SUFFICES ASSUME NEW n \in 1 .. Len(queue)
                 PROVE  pc[queue[n]] \in {"lock", "rlock"}
      OBVIOUS
    <3>1. queue \in Seq(Coros) /\ DOMAIN queue = 1 .. Len(queue) /\ queue[n] \in Coros
      BY LenProperties, ElementOfSeq DEF RcuMutexInv, MTypes
    <3>2. Queued(queue[n])
      BY <3>1 DEF Queued, Range
    <3> QED BY <3>1, <3>2 DEF RcuMutexInv, Placement, MParked
  <2>2. MTypeOK
    BY <2>1 DEF MTypeOK, RcuMutexInv, MTypes
  <2>3. \A k \in Cores, c \in Coros :
          running[k] = c /\ pc[c] = "scan" => current_core[c] = k
    BY DEF RcuMutexInv, Placement, ScansHere
  <2>4. \A d \in Coros : resumer[d] # None => pc[resumer[d]] = "loop"
    BY DEF RcuMutexInv, Placement, Stacks
  <2> QED BY <2>2, <2>3, <2>4 DEF SkippedCoreQuiet
<1> QED
  BY <1>1, RcuMutexInvariance, PTL
=============================================================================
