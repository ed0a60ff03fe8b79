--------------------------- MODULE NotifierProofs ---------------------------
(***************************************************************************)
(* Proofs about module Notifier, for any number of cores, tasks, producers *)
(* and rounds: no waiter is lost or resumed twice, an idle core is outside *)
(* RCU, and the notifier implements module Event.                          *)
(***************************************************************************)
EXTENDS Notifier, ReactorProofs

\* Only a coroutine inside resumeWaiters() has awaiters in its hands.
PendingPlaced == \A c \in Coros : pc[c] # "resume" => pending[c] = <<>>

\* The inductive invariant.
EventInv == WaitersAccounted /\ PendingPlaced

-----------------------------------------------------------------------------
(***************************************************************************)
(* Types                                                                   *)
(***************************************************************************)

\* The initial values have their types.
LEMMA TypeInit == Init => TypeOK
<1> SUFFICES ASSUME Init PROVE TypeOK
  OBVIOUS
<1>1. <<>> \in Seq(Coros)
  OBVIOUS
<1>2. Refresh - 1 \in 0 .. (Refresh - 1) /\ DONE \in Nat /\ 0 \in 0 .. NumTasks
  BY ReactorAssumption
<1>3. ReactorTypeOK
  BY <1>1, <1>2 DEF Init, ReactorInit, ReactorTypeOK
<1>4. 0 \in 0 .. (n_round - 1)
  BY NotifierAssumption
<1> QED BY <1>1, <1>3, <1>4 DEF Init, TypeOK, PcValues

\* The word is `this', nullptr or an awaiter.
LEMMA WordType ==
  ASSUME TypeOK
  PROVE  /\ Word \in Coros \cup {Self, Null}
         /\ Word = Self <=> signalled = TRUE
<1>1. waiting # <<>> => Head(waiting) \in Coros
  BY HeadTailProperties DEF TypeOK
<1> QED BY <1>1, NotifierAssumption DEF Word, TypeOK

\* Every step keeps the types.
LEMMA TypeNext ==
  ASSUME TypeOK, [Next]_vars
  PROVE  TypeOK'
<1> USE DEF TypeOK
<1>1. CASE SubmitTask
  BY <1>1, SubmitType DEF SubmitTask, eventVars
<1>2. ASSUME NEW k \in Cores, Reactors(k)
      PROVE  TypeOK'
  <2>1. CASE Dispatch(k)
    BY <1>2, <2>1, DispatchType DEF Reactors, eventVars
  <2>2. CASE SuspendTail(k)
    <3>1. ReactorTypeOK'
      BY <2>2, OfflineType DEF SuspendTail, ReactorTypeOK, stackVars
    <3> QED BY <1>2, <3>1 DEF Reactors, eventVars
  <2> QED BY <1>2, <2>1, <2>2 DEF Reactors
<1>3. ASSUME NEW k \in Cores, NEW c \in Coros, CoroStep(k, c)
      PROVE  TypeOK'
  <2> USE DEF PcValues
  <2>1. CASE ReadSection(k, c)
    <3>1. /\ versions' \in [Cores -> Nat]
          /\ rcu_count' \in [Cores -> 0 .. (Refresh - 1)]
      BY <2>1, ReadLockType DEF ReadSection
    <3> QED
      BY <2>1, <3>1
      DEF ReadSection, Step, ReactorTypeOK, stackVars, eventVars
  <2>2. CASE NoReadSection(k, c)
    BY <2>2 DEF NoReadSection, Step, ReactorTypeOK, reactorVars, eventVars
  <2>3. CASE await_ready(k, c)
    BY <2>3 DEF await_ready, Step, ReactorTypeOK, reactorVars, eventVars
  <2>4. CASE LoadWord(k, c)
    BY <2>4, WordType DEF LoadWord, Step, ReactorTypeOK, reactorVars, eventVars
  <2>5. CASE CasPass(k, c)
    BY <2>5 DEF CasPass, Step, ReactorTypeOK, reactorVars, eventVars
  <2>6. CASE CasEnqueue(k, c)
    <3>1. waiting' \in Seq(Coros)
      BY <2>6, InjectiveCons DEF CasEnqueue
    <3> QED
      BY <2>6, <3>1, ResumeType DEF CasEnqueue, Step, ReactorTypeOK, rcuVars
  <2>7. CASE CasRetry(k, c)
    BY <2>7, WordType DEF CasRetry, Step, ReactorTypeOK, reactorVars, eventVars
  <2>8. CASE notify(k, c)
    BY <2>8 DEF notify, Step, ReactorTypeOK, reactorVars
  <2>9. CASE ResumeWaiter(k, c)
    <3>1. pending[c] \in Seq(Coros) /\ pending[c] # <<>>
      BY <2>9 DEF ResumeWaiter
    <3>2. Head(pending[c]) \in Coros /\ Tail(pending[c]) \in Seq(Coros)
      BY <3>1, HeadTailProperties
    <3> QED
      BY <2>9, <3>2, ResumeType DEF ResumeWaiter, ReactorTypeOK, rcuVars
  <2>10. CASE NotifyEnd(k, c)
    BY <2>10 DEF NotifyEnd, Step, ReactorTypeOK, reactorVars, eventVars
  <2>11. CASE reset(k, c)
    BY <2>11 DEF reset, Step, ReactorTypeOK, reactorVars
  <2>12. CASE NextRound(k, c)
    <3>1. ReactorTypeOK'
      BY <2>12, YieldType DEF NextRound, ReactorTypeOK, reactorVars
    <3>2. round' \in [Coros -> 0 .. (n_round - 1)]
      BY <2>12, NotifierAssumption DEF NextRound
    <3> QED BY <2>12, <3>1, <3>2 DEF NextRound, Step, eventVars
  <2>13. CASE TaskReturn(k, c)
    <3>1. ReactorTypeOK'
      BY <2>13, OfflineType, ResumeType DEF TaskReturn, Finish, ReactorTypeOK
    <3> QED BY <2>13, <3>1 DEF TaskReturn, Step, eventVars
  <2> QED
    BY <1>3, <2>1, <2>2, <2>3, <2>4, <2>5, <2>6, <2>7, <2>8, <2>9, <2>10,
       <2>11, <2>12, <2>13 DEF CoroStep
<1>4. CASE UNCHANGED vars
  BY <1>4 DEF vars, reactorVars, eventVars, ReactorTypeOK
<1> QED
  BY <1>1, <1>2, <1>3, <1>4 DEF Next, CoreStep, Stopped

-----------------------------------------------------------------------------
(***************************************************************************)
(* The waiters.  Four kinds of step matter to the event; each has its      *)
(* lemma.                                                                  *)
(***************************************************************************)

\* Nobody waits at first.
LEMMA EventInvInit == Init => EventInv
<1> SUFFICES ASSUME Init PROVE EventInv
  OBVIOUS
<1>1. Range(<<>>) = {} /\ IsInjective(<<>>)
  <2>1. <<>> \in Seq(Coros)
    OBVIOUS
  <2> QED BY <2>1, RangeEmpty
<1>2. Pending = {}
  BY <1>1 DEF Init, Pending
<1> QED
  BY <1>1, <1>2, TypeInit DEF Init, EventInv, WaitersAccounted, PendingPlaced

\* A coroutine moves on without touching the lists.
LEMMA EventInvLocal ==
  ASSUME EventInv, TypeOK', NEW c \in Coros, NEW b \in PcValues \ {"queued"},
         pc[c] # "queued", pc[c] = "resume" => pending[c] = <<>>,
         pc' = [pc EXCEPT ![c] = b], UNCHANGED <<waiting, pending>>
  PROVE  EventInv'
<1> USE DEF EventInv, WaitersAccounted, TypeOK
<1>1. {d \in Coros : pc'[d] = "queued"} = {d \in Coros : pc[d] = "queued"}
  OBVIOUS
<1>2. Pending' = Pending
  BY DEF Pending
<1>3. PendingPlaced'
  BY DEF PendingPlaced
<1> QED BY <1>1, <1>2, <1>3

\* An awaiter becomes the head of the list.
LEMMA EventInvEnqueue ==
  ASSUME EventInv, TypeOK', NEW c \in Coros, pc[c] = "cas",
         pc' = [pc EXCEPT ![c] = "queued"],
         waiting' = <<c>> \o waiting, UNCHANGED pending
  PROVE  /\ EventInv'
         /\ c \notin Range(waiting) \cup Pending
         /\ Range(waiting') = Range(waiting) \cup {c}
         /\ Pending' = Pending
<1> USE DEF EventInv, WaitersAccounted, TypeOK
<1>1. c \notin Range(waiting) \cup Pending
  OBVIOUS
<1>2. Range(waiting') = Range(waiting) \cup {c} /\ IsInjective(waiting')
  BY <1>1, InjectiveCons
<1>3. Pending' = Pending
  BY DEF Pending
<1>4. {d \in Coros : pc'[d] = "queued"} = {d \in Coros : pc[d] = "queued"} \cup {c}
  OBVIOUS
<1>5. PendingPlaced'
  BY DEF PendingPlaced
<1> QED BY <1>1, <1>2, <1>3, <1>4, <1>5

\* The exchange hands the whole list to the notifier.
LEMMA EventInvNotify ==
  ASSUME EventInv, TypeOK', NEW c \in Coros, pc[c] = "start",
         pc' = [pc EXCEPT ![c] = "resume"],
         pending' = [pending EXCEPT ![c] = waiting], waiting' = <<>>
  PROVE  /\ EventInv'
         /\ Range(waiting') = {}
         /\ Pending' = Pending \cup Range(waiting)
<1> USE DEF EventInv, WaitersAccounted, TypeOK
<1>1. Range(waiting') = {} /\ IsInjective(waiting')
  BY RangeEmpty
<1>2. pending[c] = <<>> /\ Range(pending[c]) = {}
  BY RangeEmpty DEF PendingPlaced
<1>3. \A d \in Coros : pending'[d] = IF d = c THEN waiting ELSE pending[d]
  OBVIOUS
<1>4. Pending' = Pending \cup Range(waiting)
  <2>1. \A x : x \in Pending <=> \E d \in Coros : x \in Range(pending[d])
    BY DEF Pending
  <2>2. \A x : x \in Pending' <=> \E d \in Coros : x \in Range(pending'[d])
    BY DEF Pending
  <2>3. Pending' \subseteq Pending \cup Range(waiting)
    BY <1>3, <2>1, <2>2
  <2>4. Pending \cup Range(waiting) \subseteq Pending'
    <3> HIDE DEF EventInv, WaitersAccounted, TypeOK
    <3>1. \A d \in Coros \ {c} : Range(pending'[d]) = Range(pending[d])
      BY <1>3
    <3>2. Range(pending'[c]) = Range(waiting)
      BY <1>3
    <3> QED BY <1>2, <2>1, <2>2, <3>1, <3>2
  <2> QED BY <2>3, <2>4
<1>5. {d \in Coros : pc'[d] = "queued"} = {d \in Coros : pc[d] = "queued"}
  OBVIOUS
<1>6. PendingPlaced'
  BY <1>3 DEF PendingPlaced
<1>7. \A d \in Coros : Range(pending[d]) \subseteq Pending
  BY DEF Pending
<1>8. \A d, e \in Coros : d # e => Range(pending'[d]) \cap Range(pending'[e]) = {}
  BY <1>3, <1>7
<1> QED BY <1>1, <1>3, <1>4, <1>5, <1>6, <1>8

\* resumeWaiters() resumes an awaiter, which is then in no list.
LEMMA EventInvResume ==
  ASSUME EventInv, TypeOK', NEW c \in Coros, pc[c] = "resume",
         pending[c] # <<>>,
         pc' = [pc EXCEPT ![Head(pending[c])] = "after"],
         pending' = [pending EXCEPT ![c] = Tail(@)], UNCHANGED waiting
  PROVE  /\ EventInv'
         /\ Head(pending[c]) \in Pending
         /\ Pending' = Pending \ {Head(pending[c])}
<1> USE DEF EventInv, WaitersAccounted, TypeOK
<1> DEFINE h == Head(pending[c])
<1>1. pending[c] \in Seq(Coros) /\ h \in Coros
  BY HeadTailProperties
<1>2. /\ IsInjective(Tail(pending[c]))
      /\ Range(Tail(pending[c])) = Range(pending[c]) \ {h}
      /\ h \in Range(pending[c])
  BY <1>1, InjectiveTail
<1> HIDE DEF h
<1>3. \A d \in Coros : pending'[d] = IF d = c THEN Tail(pending[c]) ELSE pending[d]
  OBVIOUS
<1>4. h \in Pending /\ pc[h] = "queued"
  <2>1. h \in Pending
    <3> HIDE DEF EventInv
    <3> QED BY <1>2 DEF Pending
  <2>2. \A d \in Pending : pc[d] = "queued"
    OBVIOUS
  <2> QED BY <2>1, <2>2
<1>5. \A d \in Coros : d # c => h \notin Range(pending[d])
  BY <1>2
<1>6. \A d \in Coros : Range(pending'[d]) = Range(pending[d]) \ {h}
  <2> HIDE DEF EventInv
  <2> QED BY <1>2, <1>3, <1>5
<1>7. Pending' = Pending \ {h}
  <2> HIDE DEF EventInv, WaitersAccounted, TypeOK
  <2>1. \A x : x \in Pending <=> \E d \in Coros : x \in Range(pending[d])
    BY DEF Pending
  <2>2. \A x : x \in Pending' <=> \E d \in Coros : x \in Range(pending'[d])
    BY DEF Pending
  <2>3. Pending' \subseteq Pending \ {h}
    BY <1>6, <2>1, <2>2
  <2>4. ASSUME NEW x \in Pending, x # h PROVE x \in Pending'
    <3> PICK d \in Coros : x \in Range(pending[d])
      BY <2>1
    <3>1. x \in Range(pending'[d])
      BY <1>6, <2>4
    <3> QED BY <2>2, <3>1
  <2> QED BY <2>3, <2>4
<1>8. \A d \in Coros : pc'[d] = IF d = h THEN "after" ELSE pc[d]
  BY <1>1 DEF h
<1>9. {d \in Coros : pc'[d] = "queued"} = {d \in Coros : pc[d] = "queued"} \ {h}
  BY <1>8
<1>10. PendingPlaced'
  BY <1>3, <1>4, <1>8 DEF PendingPlaced
<1>11. \A d \in Coros : IsInjective(pending'[d])
  BY <1>2, <1>3
<1>12. \A d, e \in Coros : d # e => Range(pending'[d]) \cap Range(pending'[e]) = {}
  BY <1>6
<1>13. h \notin Range(waiting)
  BY <1>4
<1>14. Range(waiting') = Range(waiting) /\ IsInjective(waiting')
  OBVIOUS
<1>15. /\ Range(waiting') \cup Pending' = {d \in Coros : pc'[d] = "queued"}
       /\ Range(waiting') \cap Pending' = {}
  <2> HIDE DEF EventInv, WaitersAccounted, TypeOK
  <2>1. /\ Range(waiting) \cup Pending = {d \in Coros : pc[d] = "queued"}
        /\ Range(waiting) \cap Pending = {}
    BY DEF EventInv, WaitersAccounted
  <2> QED BY <2>1, <1>7, <1>9, <1>13, <1>14
<1>16. WaitersAccounted'
  BY <1>11, <1>12, <1>14, <1>15
<1> QED BY <1>4, <1>7, <1>10, <1>16 DEF h

\* No step loses a waiter, or has one twice.
LEMMA EventInvNext ==
  ASSUME EventInv, [Next]_vars
  PROVE  EventInv'
<1>1. TypeOK /\ TypeOK'
  BY TypeNext DEF EventInv, WaitersAccounted
<1>2. CASE UNCHANGED <<waiting, pending, pc>>
  <2>1. Pending' = Pending
    BY <1>2 DEF Pending
  <2> QED BY <1>1, <1>2, <2>1 DEF EventInv, WaitersAccounted, PendingPlaced
<1>3. ASSUME NEW k \in Cores, NEW c \in Coros, CoroStep(k, c)
      PROVE  EventInv'
  <2>1. CASE \/ ReadSection(k, c) \/ NoReadSection(k, c) \/ await_ready(k, c)
             \/ LoadWord(k, c) \/ CasPass(k, c) \/ CasRetry(k, c)
             \/ NotifyEnd(k, c) \/ reset(k, c)
             \/ NextRound(k, c) \/ TaskReturn(k, c)
    <3>1. PICK b \in PcValues \ {"queued"} : pc' = [pc EXCEPT ![c] = b]
      BY <2>1
      DEF ReadSection, NoReadSection, await_ready, LoadWord, CasPass, CasRetry,
          NotifyEnd, reset, NextRound, TaskReturn, Step, PcValues
    <3>2. /\ UNCHANGED <<waiting, pending>>
          /\ pc[c] # "queued"
          /\ pc[c] = "resume" => pending[c] = <<>>
      BY <2>1
      DEF ReadSection, NoReadSection, await_ready, LoadWord, CasPass, CasRetry,
          NotifyEnd, reset, NextRound, TaskReturn, Step, eventVars
    <3> QED BY <1>1, <3>1, <3>2, EventInvLocal
  <2>2. CASE CasEnqueue(k, c)
    BY <1>1, <2>2, EventInvEnqueue DEF CasEnqueue, Step
  <2>3. CASE notify(k, c)
    BY <1>1, <2>3, EventInvNotify DEF notify, Step
  <2>4. CASE ResumeWaiter(k, c)
    BY <1>1, <2>4, EventInvResume DEF ResumeWaiter
  <2> QED BY <1>3, <2>1, <2>2, <2>3, <2>4 DEF CoroStep
<1> QED
  BY <1>2, <1>3
  DEF Next, CoreStep, SubmitTask, Reactors, Stopped, vars, eventVars

\* The invariant holds in every reachable state.
LEMMA EventInvariance == Spec => []EventInv
<1>1. EventInv /\ [Next]_vars => EventInv'
  BY EventInvNext
<1> QED BY <1>1, EventInvInit, PTL DEF Spec

\* Every suspended consumer is in exactly one list, once, although several
\* notifiers may take the list and resume at the same time.
THEOREM NoWaiterLost == Spec => []WaitersAccounted
<1>1. EventInv => WaitersAccounted
  BY DEF EventInv
<1> QED BY <1>1, EventInvariance, PTL

-----------------------------------------------------------------------------
(***************************************************************************)
(* Idle cores                                                              *)
(***************************************************************************)

\* A step keeps idle cores outside RCU: what empties a stack goes offline, or
\* is still inside await_suspend() and will.
LEMMA IdleOfflineNext ==
  ASSUME TypeOK, IdleCoreOffline, [Next]_vars
  PROVE  IdleCoreOffline'
<1> USE DEF TypeOK, ReactorTypeOK
<1>1. CASE UNCHANGED <<running, suspending, versions>>
  BY <1>1 DEF IdleCoreOffline, Idle
<1>2. ASSUME NEW k \in Cores,
             \A j \in Cores \ {k} : /\ running'[j] = running[j]
                                    /\ suspending'[j] = suspending[j]
                                    /\ versions'[j] = versions[j],
             running'[k] = None /\ ~suspending'[k] => versions'[k] = DONE
      PROVE  IdleCoreOffline'
  BY <1>2 DEF IdleCoreOffline, Idle
<1>3. ASSUME NEW k \in Cores, Reactors(k)
      PROVE  IdleCoreOffline'
  <2>1. CASE Dispatch(k)
    <3>1. inbox[k] \in Seq(Coros) /\ inbox[k] # <<>>
      BY <2>1 DEF Dispatch
    <3>2. Head(inbox[k]) \in Coros
      BY <3>1, HeadTailProperties
    <3> QED
      BY <1>2, <2>1, <3>2, ReactorAssumption DEF Dispatch, Resume, rcuVars
  <2>2. CASE SuspendTail(k)
    BY <1>2, <2>2 DEF SuspendTail, rcu_offline, stackVars
  <2> QED BY <1>3, <2>1, <2>2 DEF Reactors
<1>4. ASSUME NEW k \in Cores, NEW c \in Coros, CoroStep(k, c)
      PROVE  IdleCoreOffline'
  <2>1. CASE Yield(k, c) \/ TaskReturn(k, c)
    BY <1>2, <2>1 DEF TaskReturn, Yield, Finish, Return, rcu_offline
  <2>2. CASE CasEnqueue(k, c)
    BY <1>2, <2>2 DEF CasEnqueue, Return, rcuVars
  <2>3. CASE ReadSection(k, c)
    <3>1. running'[k] = c /\ c # None
      BY <2>3, ReactorAssumption DEF ReadSection, Step, Executes, stackVars
    <3>2. \A j \in Cores \ {k} : versions'[j] = versions[j]
      BY <2>3 DEF ReadSection, rcu_read_lock
    <3> QED BY <1>2, <2>3, <3>1, <3>2 DEF ReadSection, stackVars
  <2>4. CASE ResumeWaiter(k, c)
    <3>1. pending[c] \in Seq(Coros) /\ pending[c] # <<>>
      BY <2>4 DEF ResumeWaiter
    <3>2. Head(pending[c]) \in Coros
      BY <3>1, HeadTailProperties
    <3> QED
      BY <1>2, <2>4, <3>2, ReactorAssumption DEF ResumeWaiter, Resume, rcuVars
  <2>5. CASE UNCHANGED reactorVars
    BY <1>1, <2>5 DEF reactorVars
  <2> QED
    BY <1>4, <2>1, <2>2, <2>3, <2>4, <2>5
    DEF CoroStep, NoReadSection, await_ready, LoadWord, CasPass, CasRetry,
        notify, NotifyEnd, reset, NextRound
<1> QED
  BY <1>1, <1>3, <1>4
  DEF Next, CoreStep, SubmitTask, Submit, Stopped, vars, reactorVars,
      stackVars, rcuVars

\* A reactor with nothing to run has called rcu_offline(), although
\* await_suspend() publishes the coroutine before it does.
THEOREM IdleCoresOffline == Spec => []IdleCoreOffline
<1>1. Init => IdleCoreOffline
  BY DEF Init, ReactorInit, IdleCoreOffline
<1>2. EventInv => TypeOK
  BY DEF EventInv, WaitersAccounted
<1>3. TypeOK /\ IdleCoreOffline /\ [Next]_vars => IdleCoreOffline'
  BY IdleOfflineNext
<1> QED
  BY <1>1, <1>2, <1>3, EventInvariance, PTL DEF Spec

-----------------------------------------------------------------------------
(***************************************************************************)
(* The refinement                                                          *)
(***************************************************************************)

\* Every step is a step of the abstract event, or leaves it alone.
LEMMA EventStep ==
  ASSUME EventInv, [Next]_vars
  PROVE  [Ev!Next]_(Ev!vars)
<1> USE DEF Ev!vars, Ev!Next
<1>1. TypeOK /\ TypeOK'
  BY TypeNext DEF EventInv, WaitersAccounted
<1>2. CASE UNCHANGED eventVars
  <2>1. Pending' = Pending
    BY <1>2 DEF Pending, eventVars
  <2> QED BY <1>2, <2>1 DEF eventVars
<1>3. ASSUME NEW k \in Cores, NEW c \in Coros, CoroStep(k, c)
      PROVE  [Ev!Next]_(Ev!vars)
  <2>1. CASE CasEnqueue(k, c)
    <3>1. ~signalled
      BY <1>1, <2>1, WordType DEF CasEnqueue
    <3>2. /\ c \notin Range(waiting) \cup Pending
          /\ Range(waiting') = Range(waiting) \cup {c}
          /\ Pending' = Pending
      BY <1>1, <2>1, EventInvEnqueue DEF CasEnqueue, Step
    <3> QED BY <2>1, <3>1, <3>2 DEF CasEnqueue, Ev!Block
  <2>2. CASE notify(k, c)
    <3>1. Range(waiting') = {} /\ Pending' = Pending \cup Range(waiting)
      BY <1>1, <2>2, EventInvNotify DEF notify, Step
    <3> QED BY <2>2, <3>1 DEF notify, Ev!Signal
  <2>3. CASE ResumeWaiter(k, c)
    <3> DEFINE h == Head(pending[c])
    <3>1. h \in Pending /\ Pending' = Pending \ {h}
      BY <1>1, <2>3, EventInvResume DEF ResumeWaiter
    <3>2. h \in Coros
      BY <3>1 DEF EventInv, WaitersAccounted
    <3>3. Ev!GoOn(h)
      BY <2>3, <3>1 DEF ResumeWaiter, Ev!GoOn
    <3> QED BY <3>2, <3>3
  <2>4. CASE reset(k, c)
    <3>1. Pending' = Pending
      BY <2>4 DEF reset, Pending
    <3> QED BY <2>4, <3>1 DEF reset, Ev!Reset
  <2> QED
    BY <1>2, <1>3, <2>1, <2>2, <2>3, <2>4
    DEF CoroStep, ReadSection, NoReadSection, await_ready, LoadWord, CasPass,
        CasRetry, NotifyEnd, NextRound, TaskReturn
<1> QED
  BY <1>2, <1>3
  DEF Next, CoreStep, SubmitTask, Reactors, Stopped, vars

\* The notifier implements the abstract event for any number of cores and
\* coroutines: a wait blocks only on an unsignalled event, notify() releases
\* everybody who waits, each goes on once, and reset() drops nobody.
THEOREM NotifierIsEvent == Spec => ImplementsEvent
<1>1. Init => Ev!Init
  <2> SUFFICES ASSUME Init PROVE Ev!Init
    OBVIOUS
  <2>1. EventInv /\ {c \in Coros : pc[c] = "queued"} = {}
    BY EventInvInit DEF Init
  <2>2. Range(waiting) = {} /\ Pending = {}
    BY <2>1 DEF EventInv, WaitersAccounted
  <2> QED BY <2>2 DEF Init, Ev!Init
<1>2. EventInv /\ [Next]_vars => [Ev!Next]_(Ev!vars)
  BY EventStep
<1> QED
  BY <1>1, <1>2, EventInvariance, PTL DEF Spec, ImplementsEvent, Ev!Spec

=============================================================================
