---------------------------- MODULE MutexProofs ----------------------------
(***************************************************************************)
(* Proofs about module Mutex, for any number of cores and tasks.           *)
(***************************************************************************)
EXTENDS Mutex, ReactorProofs

-----------------------------------------------------------------------------
(***************************************************************************)
(* The reversal in unlock().                                               *)
(***************************************************************************)

\* Reversing a sequence keeps its length and its elements' set.
LEMMA ReverseProperties ==
  ASSUME NEW S, NEW s \in Seq(S)
  PROVE  /\ Reverse(s) \in Seq(S)
         /\ Len(Reverse(s)) = Len(s)
         /\ \A i \in 1 .. Len(s) : Reverse(s)[i] = s[Len(s) - i + 1]
         /\ Reverse(s) = <<>> <=> s = <<>>
<1>1. \A i \in 1 .. Len(s) : s[(Len(s) - i) + 1] \in S
  BY ElementOfSeq, LenProperties
<1>2. Reverse(s) \in [1 .. Len(s) -> S]
  BY <1>1 DEF Reverse
<1>3. Reverse(s) \in Seq(S)
  BY <1>2, LenProperties, SeqDef
<1>4. Len(Reverse(s)) = Len(s)
  BY <1>2, <1>3, LenProperties
<1>5. Reverse(s) = <<>> <=> s = <<>>
  BY <1>3, <1>4, EmptySeq
<1> QED
  BY <1>3, <1>4, <1>5, LenProperties DEF Reverse

\* What lockAsyncImpl puts at the front of the LIFO list ends up at the back
\* of the reversed one.
LEMMA ReverseCons ==
  ASSUME NEW S, NEW s \in Seq(S), NEW e \in S
  PROVE  Reverse(<<e>> \o s) = Append(Reverse(s), e)
<1> DEFINE t == <<e>> \o s
           r == Append(Reverse(s), e)
<1>1. /\ t \in Seq(S)
      /\ Len(t) = Len(s) + 1
      /\ t[1] = e
      /\ \A i \in 2 .. Len(t) : t[i] = s[i - 1]
  <2>1. <<e>> \in Seq(S) /\ Len(<<e>>) = 1 /\ <<e>>[1] = e
    OBVIOUS
  <2> QED
    BY <2>1, ConcatProperties, LenProperties
<1>2. /\ Reverse(t) \in Seq(S)
      /\ Len(Reverse(t)) = Len(s) + 1
      /\ \A i \in 1 .. Len(s) + 1 : Reverse(t)[i] = t[Len(s) + 1 - i + 1]
  <2> HIDE DEF t
  <2> QED BY <1>1, ReverseProperties
<1>3. /\ r \in Seq(S)
      /\ Len(r) = Len(s) + 1
      /\ \A i \in 1 .. Len(s) : r[i] = s[Len(s) - i + 1]
      /\ r[Len(s) + 1] = e
  BY ReverseProperties, AppendProperties
<1>4. \A i \in 1 .. Len(s) + 1 : Reverse(t)[i] = r[i]
  <2> HIDE DEF t, r
  <2> SUFFICES ASSUME NEW i \in 1 .. Len(s) + 1 PROVE Reverse(t)[i] = r[i]
    OBVIOUS
  <2>1. Len(s) \in Nat
    BY LenProperties
  <2>2. CASE i = Len(s) + 1
    BY <1>1, <1>2, <1>3, <2>1, <2>2
  <2>3. CASE i \in 1 .. Len(s)
    <3>1. Reverse(t)[i] = t[Len(s) + 1 - i + 1]
      BY <1>2
    <3>2. PICK j \in 2 .. Len(s) + 1 : j = Len(s) + 1 - i + 1
      BY <2>1, <2>3
    <3>3. t[j] = s[j - 1]
      BY <1>1
    <3>4. j - 1 = Len(s) - i + 1
      BY <2>1, <2>3, <3>2
    <3> QED BY <1>3, <2>3, <3>1, <3>2, <3>3, <3>4
  <2> QED BY <2>1, <2>2, <2>3
<1> HIDE DEF t, r
<1> QED BY <1>2, <1>3, <1>4, SeqEqual DEF t, r

-----------------------------------------------------------------------------
(***************************************************************************)
(* Type correctness.                                                       *)
(***************************************************************************)

\* The types hold at the start.
LEMMA TypeInit == Init => TypeOK
<1> SUFFICES ASSUME Init PROVE TypeOK
  OBVIOUS
<1>1. ReactorTypeOK
  <2>1. submitted \in 0 .. NumTasks
    BY ReactorAssumption DEF Init, ReactorInit
  <2>2. inbox \in [Cores -> Seq(Coros)]
    BY EmptySeq DEF Init, ReactorInit
  <2>3. rcu_count \in [Cores -> 0 .. (Refresh - 1)]
    BY ReactorAssumption DEF Init, ReactorInit
  <2>4. versions \in [Cores -> Nat]
    BY ReactorAssumption DEF Init, ReactorInit
  <2> QED
    BY <2>1, <2>2, <2>3, <2>4 DEF Init, ReactorInit, ReactorTypeOK
<1> QED
  BY <1>1, EmptySeq DEF Init, TypeOK, PcValues

\* Types alone are not inductive: unlock() takes the head of the list it got
\* from the exchange, which must not be empty.
LEMMA TypeNext ==
  ASSUME TypeOK, UnlockAssertions, [Next]_vars
  PROVE  TypeOK'
<1> USE DEF TypeOK
<1>1. CASE SubmitTask
  BY <1>1, SubmitType DEF SubmitTask, mutexVars
<1>2. ASSUME NEW k \in Cores, Reactors(k)
      PROVE  TypeOK'
  <2>1. CASE Dispatch(k)
    BY <1>2, <2>1, DispatchType DEF Reactors, mutexVars
  <2>2. CASE SuspendTail(k)
    <3>1. ReactorTypeOK'
      BY <2>2, OfflineType DEF SuspendTail, ReactorTypeOK, stackVars
    <3> QED BY <1>2, <3>1 DEF Reactors, mutexVars
  <2> QED BY <1>2, <2>1, <2>2 DEF Reactors
<1>3. ASSUME NEW k \in Cores, NEW c \in Coros, CoroStep(k, c)
      PROVE  TypeOK'
  <2> USE DEF PcValues
  <2>1. CASE ReadSection(k, c)
    <3>1. /\ versions' \in [Cores -> Nat]
          /\ rcu_count' \in [Cores -> 0 .. (Refresh - 1)]
      BY <2>1, ReadLockType DEF ReadSection
    <3> QED
      BY <2>1, <3>1
      DEF ReadSection, Step, ReactorTypeOK, stackVars, mutexVars
  <2>2. CASE NoReadSection(k, c)
    BY <2>2 DEF NoReadSection, Step, ReactorTypeOK, reactorVars, mutexVars
  <2>3. CASE tryLock(k, c)
    BY <2>3 DEF tryLock, Step, ReactorTypeOK, reactorVars
  <2>4. StateWord \in Coros \cup {Unlocked, Null}
    BY HeadTailProperties DEF StateWord
  <2>5. CASE LoadState(k, c)
    BY <2>4, <2>5 DEF LoadState, Step, ReactorTypeOK, reactorVars, mutexVars
  <2>6. CASE CasAcquire(k, c)
    BY <2>6 DEF CasAcquire, Step, ReactorTypeOK, reactorVars
  <2>7. CASE CasEnqueue(k, c)
    <3>1. newly' \in Seq(Coros)
      BY <2>7, ConcatProperties DEF CasEnqueue
    <3> QED
      BY <2>7, <3>1, ResumeType DEF CasEnqueue, Step, ReactorTypeOK, rcuVars
  <2>8. CASE CasRetry(k, c)
    BY <2>4, <2>8 DEF CasRetry, Step, ReactorTypeOK, reactorVars, mutexVars
  <2>9. CASE YieldInside(k, c)
    BY <2>9, YieldType DEF YieldInside, Step, mutexVars
  <2>10. CASE NoYieldInside(k, c)
    BY <2>10 DEF NoYieldInside, Step, ReactorTypeOK, reactorVars, mutexVars
  <2>11. ASSUME NEW q \in Seq(Coros), q # <<>>, ResumeNext(k, c, q)
         PROVE  /\ ReactorTypeOK'
                /\ waiters' \in Seq(Coros)
                /\ oldValue' \in [Coros -> Coros \cup {Unlocked, Null}]
                /\ pc' \in [Coros -> PcValues]
    <3>1. Head(q) \in Coros /\ Tail(q) \in Seq(Coros)
      BY <2>11, HeadTailProperties
    <3> QED
      BY <2>11, <3>1, ResumeType DEF ResumeNext, ReactorTypeOK, rcuVars
  <2>12. CASE UnlockToWaiter(k, c)
    BY <2>11, <2>12 DEF UnlockToWaiter
  <2>13. CASE UnlockLoad(k, c)
    BY <2>13 DEF UnlockLoad, Step, ReactorTypeOK, reactorVars, mutexVars
  <2>14. CASE UnlockCas(k, c)
    BY <2>14 DEF UnlockCas, Step, ReactorTypeOK, reactorVars
  <2>15. CASE UnlockExchange(k, c)
    <3>1. newly # <<>>
      BY <2>15 DEF UnlockExchange, UnlockAssertions, StateWord
    <3>2. Reverse(newly) \in Seq(Coros) /\ Reverse(newly) # <<>>
      BY <3>1, ReverseProperties
    <3>3. /\ ResumeNext(k, c, Reverse(newly))
          /\ newly' = <<>>
          /\ UNCHANGED locked
      BY <2>15 DEF UnlockExchange
    <3> QED BY <2>11, <3>2, <3>3, EmptySeq
  <2>16. CASE NextRound(k, c)
    BY <2>16 DEF NextRound, Step, ReactorTypeOK, reactorVars, mutexVars
  <2>17. CASE TaskReturn(k, c)
    <3>1. ReactorTypeOK'
      BY <2>17, OfflineType, ResumeType DEF TaskReturn, Finish, ReactorTypeOK
    <3> QED BY <2>17, <3>1 DEF TaskReturn, Step, mutexVars
  <2> QED
    BY <1>3, <2>1, <2>2, <2>3, <2>5, <2>6, <2>7, <2>8, <2>9, <2>10, <2>12,
       <2>13, <2>14, <2>15, <2>16, <2>17 DEF CoroStep
<1>4. CASE UNCHANGED vars
  BY <1>4 DEF vars, reactorVars, mutexVars, ReactorTypeOK
<1> QED
  BY <1>1, <1>2, <1>3, <1>4 DEF Next, CoreStep, Stopped

-----------------------------------------------------------------------------
(***************************************************************************)
(* The queue: waiters, then the newly queued ones in reverse.              *)
(***************************************************************************)

\* The service order is a sequence of coroutines, empty only if both lists
\* are.
LEMMA QueueProperties ==
  ASSUME TypeOK
  PROVE  /\ Queue \in Seq(Coros)
         /\ Reverse(newly) \in Seq(Coros)
         /\ Queue = <<>> <=> waiters = <<>> /\ newly = <<>>
<1>1. Reverse(newly) \in Seq(Coros) /\ (Reverse(newly) = <<>> <=> newly = <<>>)
  BY ReverseProperties DEF TypeOK
<1>2. waiters \in Seq(Coros)
  BY DEF TypeOK
<1> QED
  BY <1>1, <1>2, ConcatProperties, ConcatEqualIffEmpty DEF Queue

\* An empty list appended to a list changes nothing, and the head and tail of
\* a concatenation are those of its first part if that is not empty.
LEMMA HeadTailConcat ==
  ASSUME NEW S, NEW s \in Seq(S), NEW t \in Seq(S), s # <<>>
  PROVE  /\ Head(s \o t) = Head(s)
         /\ Tail(s \o t) = Tail(s) \o t
<1>1. /\ s \o t \in Seq(S)
      /\ Len(s \o t) = Len(s) + Len(t)
      /\ \A i \in 1 .. Len(s) + Len(t) :
           (s \o t)[i] = IF i <= Len(s) THEN s[i] ELSE t[i - Len(s)]
  BY ConcatProperties
<1>2. Len(s) \in Nat \ {0} /\ Len(t) \in Nat
  BY EmptySeq, LenProperties
<1>3. s \o t # <<>>
  BY ConcatEqualIffEmpty
<1>4. Head(s \o t) = Head(s)
  BY <1>1, <1>2, <1>3
<1>5. /\ Tail(s \o t) \in Seq(S)
      /\ Len(Tail(s \o t)) = Len(s) + Len(t) - 1
      /\ \A i \in 1 .. Len(s) + Len(t) - 1 : Tail(s \o t)[i] = (s \o t)[i + 1]
  BY <1>1, <1>3, HeadTailProperties
<1>6. /\ Tail(s) \in Seq(S)
      /\ Len(Tail(s)) = Len(s) - 1
      /\ \A i \in 1 .. Len(s) - 1 : Tail(s)[i] = s[i + 1]
  BY HeadTailProperties
<1>7. /\ Tail(s) \o t \in Seq(S)
      /\ Len(Tail(s) \o t) = Len(s) - 1 + Len(t)
      /\ \A i \in 1 .. Len(s) - 1 + Len(t) :
           (Tail(s) \o t)[i] =
              IF i <= Len(s) - 1 THEN Tail(s)[i] ELSE t[i - (Len(s) - 1)]
  BY <1>6, ConcatProperties
<1>8. ASSUME NEW i \in 1 .. Len(s) + Len(t) - 1
      PROVE  Tail(s \o t)[i] = (Tail(s) \o t)[i]
  <2>1. Tail(s \o t)[i] = IF i + 1 <= Len(s) THEN s[i + 1] ELSE t[i + 1 - Len(s)]
    <3>1. i + 1 \in 1 .. Len(s) + Len(t)
      BY <1>2
    <3> QED BY <1>1, <1>5, <3>1
  <2>2. CASE i <= Len(s) - 1
    BY <1>2, <1>6, <1>7, <2>1, <2>2
  <2>3. CASE i > Len(s) - 1
    <3>1. i + 1 - Len(s) = i - (Len(s) - 1)
      BY <1>2
    <3> QED BY <1>2, <1>7, <2>1, <2>3, <3>1
  <2> QED BY <1>2, <2>2, <2>3
<1>9. Len(s) + Len(t) - 1 = Len(s) - 1 + Len(t)
  BY <1>2
<1> QED
  BY <1>4, <1>5, <1>7, <1>8, <1>9, SeqEqual

-----------------------------------------------------------------------------
(***************************************************************************)
(* The inductive invariant.  Five kinds of step matter to the lock; each   *)
(* has its lemma.                                                          *)
(***************************************************************************)

\* The lists are empty while the word is unlocked.
LEMMA UnlockedEmpty ==
  ASSUME TypeOK, LockInv, ~locked
  PROVE  Queue = <<>> /\ waiters = <<>> /\ newly = <<>> /\ \A c \in Coros : ~Holds(c)
BY QueueProperties DEF LockInv, MutualExclusion, WaitersAccounted

\* A coroutine moves on without touching the lock.
LEMMA LockInvLocal ==
  ASSUME TypeOK, LockInv, NEW c \in Coros, NEW b \in PcValues,
         pc' = [pc EXCEPT ![c] = b], UNCHANGED mutexVars,
         pc[c] # "queued", b \notin {"queued", "ucas", "uxchg"},
         Holds(c) <=> b \in {"cs", "unlock"}
  PROVE  LockInv'
<1> USE DEF TypeOK, mutexVars
<1>1. \A d \in Coros : (Holds(d))' <=> Holds(d)
  BY DEF Holds
<1>2. MutualExclusion'
  BY <1>1 DEF LockInv, MutualExclusion
<1>3. {d \in Coros : pc'[d] = "queued"} = {d \in Coros : pc[d] = "queued"}
  OBVIOUS
<1>4. Queue' = Queue
  BY DEF Queue
<1>5. WaitersAccounted'
  BY <1>1, <1>3, <1>4 DEF LockInv, WaitersAccounted
<1>6. locked' => \E d \in Coros : (Holds(d))'
  BY <1>1 DEF LockInv
<1>7. \A d \in Coros : /\ pc'[d] \in {"ucas", "uxchg"} => waiters' = <<>>
                       /\ pc'[d] = "uxchg" => newly' # <<>>
  BY DEF LockInv
<1> QED BY <1>2, <1>5, <1>6, <1>7 DEF LockInv

\* A coroutine takes the free lock.
LEMMA LockInvTake ==
  ASSUME TypeOK, LockInv, NEW c \in Coros, ~locked, pc[c] # "queued",
         pc' = [pc EXCEPT ![c] = "cs"], locked' = TRUE,
         UNCHANGED <<newly, waiters>>
  PROVE  LockInv'
<1> USE DEF TypeOK
<1>1. Queue = <<>> /\ waiters = <<>> /\ newly = <<>> /\ \A d \in Coros : ~Holds(d)
  BY UnlockedEmpty
<1>2. \A d \in Coros : (Holds(d))' <=> d = c
  BY <1>1 DEF Holds
<1>3. MutualExclusion' /\ \E d \in Coros : (Holds(d))'
  BY <1>2 DEF MutualExclusion
<1>4. {d \in Coros : pc'[d] = "queued"} = {d \in Coros : pc[d] = "queued"}
  OBVIOUS
<1>5. Queue' = Queue
  BY DEF Queue
<1>6. WaitersAccounted'
  BY <1>3, <1>4, <1>5 DEF LockInv, WaitersAccounted
<1>7. \A d \in Coros : pc'[d] \notin {"ucas", "uxchg"}
  BY <1>1 DEF Holds
<1> QED BY <1>3, <1>6, <1>7 DEF LockInv

\* A coroutine queues itself behind the holder.
LEMMA LockInvEnqueue ==
  ASSUME TypeOK, LockInv, NEW c \in Coros, locked, pc[c] = "cas",
         pc' = [pc EXCEPT ![c] = "queued"], newly' = <<c>> \o newly,
         UNCHANGED <<locked, waiters>>
  PROVE  LockInv' /\ Queue' = Append(Queue, c)
<1> USE DEF TypeOK
<1>1. Queue' = Append(Queue, c)
  <2>1. Reverse(newly') = Append(Reverse(newly), c)
    BY ReverseCons
  <2>2. /\ Reverse(newly) \in Seq(Coros)
        /\ waiters \o Reverse(newly) \in Seq(Coros)
        /\ <<c>> \in Seq(Coros)
    BY QueueProperties DEF Queue
  <2>3. Append(Reverse(newly), c) = Reverse(newly) \o <<c>>
    BY <2>2, AppendIsConcat
  <2>4. Append(Queue, c) = (waiters \o Reverse(newly)) \o <<c>>
    BY <2>2, AppendIsConcat DEF Queue
  <2>5. waiters \o (Reverse(newly) \o <<c>>) = (waiters \o Reverse(newly)) \o <<c>>
    BY <2>2, ConcatAssociative
  <2> QED BY <2>1, <2>3, <2>4, <2>5 DEF Queue
<1>2. \A d \in Coros : (Holds(d))' <=> Holds(d)
  BY DEF Holds
<1>3. MutualExclusion' /\ \E d \in Coros : (Holds(d))'
  BY <1>2 DEF LockInv, MutualExclusion
<1>4. {d \in Coros : pc'[d] = "queued"} = {d \in Coros : pc[d] = "queued"} \cup {c}
  OBVIOUS
<1>5. IsInjective(Queue') /\ Range(Queue') = Range(Queue) \cup {c}
  <2>1. c \notin Range(Queue)
    BY DEF LockInv, WaitersAccounted
  <2>2. Queue \in Seq(Coros) /\ IsInjective(Queue)
    BY QueueProperties DEF LockInv, WaitersAccounted
  <2> QED BY <1>1, <2>1, <2>2, InjectiveAppend
<1>6. WaitersAccounted'
  BY <1>3, <1>4, <1>5 DEF LockInv, WaitersAccounted
<1>7. newly' # <<>>
  <2>1. <<c>> \in Seq(Coros) /\ <<c>> # <<>>
    OBVIOUS
  <2> QED BY <2>1, ConcatEqualIffEmpty
<1>8. \A d \in Coros : pc'[d] \in {"ucas", "uxchg"} => waiters' = <<>>
  BY DEF LockInv
<1> QED BY <1>1, <1>3, <1>6, <1>7, <1>8 DEF LockInv

\* The holder looks at the word; without waiters it may let the lock go.
LEMMA LockInvRelease ==
  ASSUME TypeOK, LockInv, NEW c \in Coros, Holds(c), waiters = <<>>,
         NEW b \in {"ucas", "uxchg", "after"}, pc' = [pc EXCEPT ![c] = b],
         b = "uxchg" => newly # <<>>, b = "after" => newly = <<>>,
         locked' = (b # "after"), UNCHANGED <<newly, waiters>>
  PROVE  LockInv'
<1> USE DEF TypeOK
<1>1. \A d \in Coros : (Holds(d))' <=> d = c /\ b # "after"
  BY DEF Holds, LockInv, MutualExclusion
<1>2. MutualExclusion' /\ (locked' => \E d \in Coros : (Holds(d))')
  BY <1>1 DEF MutualExclusion
<1>3. {d \in Coros : pc'[d] = "queued"} = {d \in Coros : pc[d] = "queued"}
  BY DEF Holds
<1>4. Queue' = Queue
  BY DEF Queue
<1>5. b = "after" => Queue = <<>>
  BY QueueProperties
<1>6. WaitersAccounted'
  BY <1>1, <1>3, <1>4, <1>5 DEF LockInv, WaitersAccounted
<1>7. \A d \in Coros : pc'[d] = "uxchg" => newly' # <<>>
  BY DEF LockInv
<1> QED BY <1>2, <1>6, <1>7 DEF LockInv

\* The holder hands the lock to the first waiter of the service order.
LEMMA LockInvHandOff ==
  ASSUME TypeOK, LockInv, NEW c \in Coros, Holds(c), Queue # <<>>,
         pc' = [pc EXCEPT ![c] = "after", ![Head(Queue)] = "cs"],
         Queue' = Tail(Queue), UNCHANGED locked
  PROVE  /\ LockInv'
         /\ Head(Queue) \in Coros
         /\ \A d \in Coros : (Holds(d))' <=> d = Head(Queue)
<1> USE DEF TypeOK
<1>1. /\ Head(Queue) \in Range(Queue)
      /\ IsInjective(Tail(Queue))
      /\ Range(Tail(Queue)) = Range(Queue) \ {Head(Queue)}
  BY QueueProperties, InjectiveTail DEF LockInv, WaitersAccounted
<1>2. Head(Queue) \in Coros /\ pc[Head(Queue)] = "queued"
  BY <1>1 DEF LockInv, WaitersAccounted
<1>3. \A d \in Coros : (Holds(d))' <=> d = Head(Queue)
  BY <1>2 DEF Holds, LockInv, MutualExclusion
<1>4. MutualExclusion' /\ \E d \in Coros : (Holds(d))'
  BY <1>2, <1>3 DEF LockInv, MutualExclusion
<1>5. {d \in Coros : pc'[d] = "queued"}
        = {d \in Coros : pc[d] = "queued"} \ {Head(Queue)}
  BY <1>2 DEF Holds
<1>6. WaitersAccounted'
  BY <1>1, <1>4, <1>5 DEF LockInv, WaitersAccounted
<1>7. \A d \in Coros : pc'[d] \notin {"ucas", "uxchg"}
  BY <1>2 DEF Holds, LockInv, MutualExclusion
<1> QED BY <1>2, <1>3, <1>4, <1>6, <1>7 DEF LockInv

\* The word a compare-exchange sees tells the three cases apart.
LEMMA StateWordCases ==
  ASSUME TypeOK
  PROVE  /\ StateWord = Unlocked <=> ~locked
         /\ StateWord = Null <=> locked /\ newly = <<>>
<1>1. newly # <<>> => Head(newly) \in Coros
  BY HeadTailProperties DEF TypeOK
<1> QED
  BY <1>1, MutexAssumption DEF StateWord, TypeOK

\* The two hand-offs of unlock() resume the head of the service order.
LEMMA HandOffQueue ==
  ASSUME TypeOK, LockInv, NEW k \in Cores, NEW c \in Coros,
         UnlockToWaiter(k, c) \/ UnlockExchange(k, c)
  PROVE  /\ Holds(c)
         /\ Queue # <<>>
         /\ pc' = [pc EXCEPT ![c] = "after", ![Head(Queue)] = "cs"]
         /\ Queue' = Tail(Queue)
         /\ UNCHANGED locked
<1>1. CASE UnlockToWaiter(k, c)
  <2>1. Head(Queue) = Head(waiters) /\ Tail(Queue) = Tail(waiters) \o Reverse(newly)
    BY <1>1, QueueProperties, HeadTailConcat DEF UnlockToWaiter, Queue, TypeOK
  <2>2. Queue' = Tail(waiters) \o Reverse(newly)
    BY <1>1 DEF UnlockToWaiter, ResumeNext, Queue
  <2> QED
    BY <1>1, <2>1, <2>2, QueueProperties
    DEF UnlockToWaiter, ResumeNext, Holds
<1>2. CASE UnlockExchange(k, c)
  <2>1. waiters = <<>> /\ newly # <<>>
    BY <1>2 DEF UnlockExchange, LockInv
  <2>2. Queue = Reverse(newly) /\ Queue # <<>>
    BY <2>1, QueueProperties, ConcatEmptySeq DEF Queue
  <2>3. Reverse(newly') = <<>>
    BY <1>2, ReverseProperties, EmptySeq DEF UnlockExchange
  <2>4. Queue' = Tail(Queue) \o <<>>
    BY <1>2, <2>2, <2>3 DEF UnlockExchange, ResumeNext, Queue
  <2>5. Tail(Queue) \in Seq(Coros)
    BY <2>2, QueueProperties, HeadTailProperties
  <2>6. Queue' = Tail(Queue)
    BY <2>4, <2>5, ConcatEmptySeq
  <2> QED
    BY <1>2, <2>2, <2>6 DEF UnlockExchange, ResumeNext, Holds
<1> QED BY <1>1, <1>2

\* The lock is free and both lists are empty when the mutex is constructed.
LEMMA LockInvInit == Init => LockInv
<1> SUFFICES ASSUME Init PROVE LockInv
  OBVIOUS
<1>1. TypeOK
  BY TypeInit
<1>2. Queue = <<>>
  BY <1>1, QueueProperties DEF Init
<1>3. \A c \in Coros : pc[c] = "start"
  BY DEF Init
<1>4. Range(<<>>) = {} /\ IsInjective(<<>>)
  BY DEF Range, IsInjective
<1>5. WaitersAccounted
  BY <1>2, <1>3, <1>4 DEF WaitersAccounted
<1> QED
  BY <1>3, <1>5 DEF Init, LockInv, MutualExclusion, Holds

\* Every step of the system keeps the invariant.
LEMMA LockInvNext ==
  ASSUME TypeOK, LockInv, [Next]_vars
  PROVE  LockInv'
<1>1. ASSUME UNCHANGED <<mutexVars, pc>>
      PROVE  LockInv'
  <2>1. /\ locked' = locked /\ newly' = newly
        /\ waiters' = waiters /\ pc' = pc
    BY <1>1 DEF mutexVars
  <2> QED
    BY <2>1 DEF LockInv, MutualExclusion, WaitersAccounted, Holds, Queue
<1>2. ASSUME NEW k \in Cores, NEW c \in Coros, CoroStep(k, c)
      PROVE  LockInv'
  <2> USE DEF PcValues
  <2>1. CASE ReadSection(k, c)
    BY <2>1, LockInvLocal DEF ReadSection, Step, Holds
  <2>2. CASE NoReadSection(k, c)
    BY <2>2, LockInvLocal DEF NoReadSection, Step, Holds
  <2>3. CASE tryLock(k, c) /\ ~locked
    BY <2>3, LockInvTake DEF tryLock, Step
  <2>4. CASE tryLock(k, c) /\ locked
    <3>1. UNCHANGED mutexVars
      BY <2>4 DEF tryLock, mutexVars, TypeOK
    <3> QED BY <2>4, <3>1, LockInvLocal DEF tryLock, Step, Holds
  <2>5. CASE LoadState(k, c)
    BY <2>5, LockInvLocal DEF LoadState, Step, Holds
  <2>6. CASE CasAcquire(k, c)
    <3>1. ~locked
      BY <2>6, StateWordCases DEF CasAcquire
    <3> QED BY <2>6, <3>1, LockInvTake DEF CasAcquire, Step
  <2>7. CASE CasEnqueue(k, c)
    <3>1. locked
      BY <2>7, StateWordCases DEF CasEnqueue, TypeOK
    <3> QED BY <2>7, <3>1, LockInvEnqueue DEF CasEnqueue, Step
  <2>8. CASE CasRetry(k, c)
    BY <2>8, LockInvLocal DEF CasRetry, Step, Holds
  <2>9. CASE YieldInside(k, c)
    BY <2>9, LockInvLocal DEF YieldInside, Step, Holds
  <2>10. CASE NoYieldInside(k, c)
    BY <2>10, LockInvLocal DEF NoYieldInside, Step, Holds
  <2>11. CASE UnlockToWaiter(k, c) \/ UnlockExchange(k, c)
    BY <2>11, HandOffQueue, LockInvHandOff
  <2>12. CASE UnlockLoad(k, c)
    <3> DEFINE b == IF StateWord = Null THEN "ucas" ELSE "uxchg"
    <3>1. Holds(c) /\ locked
      BY <2>12 DEF UnlockLoad, Step, Holds, LockInv, MutualExclusion
    <3>2. b = "uxchg" => newly # <<>>
      BY <3>1, StateWordCases
    <3>3. b \in {"ucas", "uxchg", "after"} /\ b # "after"
      OBVIOUS
    <3>4. /\ pc' = [pc EXCEPT ![c] = b]
          /\ waiters = <<>>
          /\ locked' = (b # "after")
          /\ UNCHANGED <<newly, waiters>>
      BY <2>12, <3>1, <3>3 DEF UnlockLoad, Step, mutexVars
    <3> HIDE DEF b
    <3> QED BY <3>1, <3>2, <3>3, <3>4, LockInvRelease
  <2>13. CASE UnlockCas(k, c)
    <3> DEFINE b == IF StateWord = Null THEN "after" ELSE "uxchg"
    <3>1. Holds(c) /\ locked /\ waiters = <<>>
      BY <2>13 DEF UnlockCas, Step, Holds, LockInv, MutualExclusion
    <3>2. (b = "uxchg" => newly # <<>>) /\ (b = "after" => newly = <<>>)
      BY <3>1, StateWordCases
    <3>3. b \in {"ucas", "uxchg", "after"}
      OBVIOUS
    <3>4. /\ pc' = [pc EXCEPT ![c] = b]
          /\ locked' = (b # "after")
          /\ UNCHANGED <<newly, waiters>>
      BY <2>13 DEF UnlockCas, Step
    <3> HIDE DEF b
    <3> QED BY <3>1, <3>2, <3>3, <3>4, LockInvRelease
  <2>14. CASE NextRound(k, c)
    BY <2>14, LockInvLocal DEF NextRound, Step, Holds
  <2>15. CASE TaskReturn(k, c)
    BY <2>15, LockInvLocal DEF TaskReturn, Step, Holds
  <2> QED
    BY <1>2, <2>1, <2>2, <2>3, <2>4, <2>5, <2>6, <2>7, <2>8, <2>9, <2>10,
       <2>11, <2>12, <2>13, <2>14, <2>15 DEF CoroStep
<1>3. CASE SubmitTask \/ (\E k \in Cores : Reactors(k)) \/ Stopped \/ UNCHANGED vars
  BY <1>1, <1>3 DEF SubmitTask, Reactors, Stopped, vars
<1> QED
  BY <1>2, <1>3 DEF Next, CoreStep

\* The assertions follow from the invariant.
LEMMA AssertionsHold ==
  ASSUME TypeOK, LockInv
  PROVE  UnlockAssertions
BY StateWordCases DEF LockInv, MutualExclusion, Holds, UnlockAssertions

-----------------------------------------------------------------------------
(***************************************************************************)
(* The theorems.                                                           *)
(***************************************************************************)

\* Types and the invariant hold together in every reachable state.
LEMMA Invariance == Spec => [](TypeOK /\ LockInv)
<1>1. Init => TypeOK /\ LockInv
  BY TypeInit, LockInvInit
<1>2. TypeOK /\ LockInv /\ [Next]_vars => (TypeOK /\ LockInv)'
  BY TypeNext, LockInvNext, AssertionsHold
<1> QED
  BY <1>1, <1>2, PTL DEF Spec

\* Type correctness: versions and counters of rcu.cpp, the inboxes, the call
\* stacks, _state and _waiters keep their types in every reachable state.
THEOREM TypeCorrect == Spec => []TypeOK
BY Invariance, PTL

\* Mutual exclusion of Mutex for any number of cores and coroutines.
THEOREM MutexSafe == Spec => []MutualExclusion
<1>1. LockInv => MutualExclusion
  BY DEF LockInv
<1> QED
  BY <1>1, Invariance, PTL

\* No waiter of Mutex is ever lost or queued twice.
THEOREM NoWaiterLost == Spec => []WaitersAccounted
<1>1. LockInv => WaitersAccounted
  BY DEF LockInv
<1> QED
  BY <1>1, Invariance, PTL

\* The assertions in Mutex::unlock never fire.
THEOREM AssertionsNeverFire == Spec => []UnlockAssertions
BY Invariance, AssertionsHold, PTL

\* A step keeps idle cores outside RCU: what empties a stack goes offline
\* first, and only a core that runs a coroutine enters a section.
LEMMA IdleOfflineNext ==
  ASSUME TypeOK, IdleCoreOffline, UnlockAssertions, [Next]_vars
  PROVE  IdleCoreOffline'
<1> USE DEF TypeOK, ReactorTypeOK
<1>1. CASE SubmitTask \/ Stopped \/ UNCHANGED vars
  <2>1. UNCHANGED <<running, suspending, versions>>
    BY <1>1
    DEF SubmitTask, Submit, Stopped, vars, reactorVars, stackVars, rcuVars
  <2> QED BY <2>1 DEF IdleCoreOffline, Idle
<1>2. ASSUME NEW k \in Cores,
             \A j \in Cores \ {k} : /\ running'[j] = running[j]
                                    /\ suspending'[j] = suspending[j]
                                    /\ versions'[j] = versions[j],
             running'[k] = None /\ ~suspending'[k] => versions'[k] = DONE
      PROVE  IdleCoreOffline'
  BY <1>2 DEF IdleCoreOffline, Idle
<1>3. ASSUME NEW k \in Cores, Reactors(k)
      PROVE  IdleCoreOffline'
  <2>1. CASE Dispatch(k)
    <3>1. inbox[k] \in Seq(Coros) /\ inbox[k] # <<>>
      BY <2>1 DEF Dispatch
    <3>2. Head(inbox[k]) \in Coros
      BY <3>1, HeadTailProperties
    <3> QED
      BY <1>2, <2>1, <3>2, ReactorAssumption DEF Dispatch, Resume, rcuVars
  <2>2. CASE SuspendTail(k)
    BY <1>2, <2>2 DEF SuspendTail, rcu_offline, stackVars
  <2> QED BY <1>3, <2>1, <2>2 DEF Reactors
<1>4. ASSUME NEW k \in Cores, NEW c \in Coros, CoroStep(k, c)
      PROVE  IdleCoreOffline'
  <2>1. CASE YieldInside(k, c) \/ TaskReturn(k, c)
    BY <1>2, <2>1
    DEF YieldInside, TaskReturn, Yield, Finish, Return, rcu_offline
  <2>2. CASE CasEnqueue(k, c)
    BY <1>2, <2>2 DEF CasEnqueue, Return, rcuVars
  <2>3. CASE ReadSection(k, c)
    <3>1. running'[k] = c /\ c # None
      BY <2>3, ReactorAssumption DEF ReadSection, Step, Executes, stackVars
    <3>2. \A j \in Cores \ {k} : versions'[j] = versions[j]
      BY <2>3 DEF ReadSection, rcu_read_lock
    <3> QED BY <1>2, <2>3, <3>1, <3>2 DEF ReadSection, stackVars
  <2>4. CASE UnlockToWaiter(k, c) \/ UnlockExchange(k, c)
    <3>1. PICK q \in Seq(Coros) : q # <<>> /\ ResumeNext(k, c, q)
      <4>1. CASE UnlockToWaiter(k, c)
        BY <4>1 DEF UnlockToWaiter
      <4>2. CASE UnlockExchange(k, c)
        <5>1. newly # <<>>
          BY <4>2, StateWordCases DEF UnlockExchange, UnlockAssertions
        <5>2. Reverse(newly) \in Seq(Coros) /\ Reverse(newly) # <<>>
          BY <5>1, ReverseProperties
        <5> QED BY <4>2, <5>2 DEF UnlockExchange
      <4> QED BY <2>4, <4>1, <4>2
    <3>2. Head(q) \in Coros
      BY <3>1, HeadTailProperties
    <3> QED
      BY <1>2, <3>1, <3>2, ReactorAssumption DEF ResumeNext, Resume, rcuVars
  <2>5. CASE UNCHANGED reactorVars
    BY <2>5 DEF reactorVars, IdleCoreOffline, Idle
  <2> QED
    BY <1>4, <2>1, <2>2, <2>3, <2>4, <2>5
    DEF CoroStep, NoReadSection, tryLock, LoadState, CasAcquire, CasRetry,
        NoYieldInside, UnlockLoad, UnlockCas, NextRound
<1> QED
  BY <1>1, <1>3, <1>4 DEF Next, CoreStep

\* A reactor with nothing to run has called rcu_offline().
THEOREM IdleCoresOffline == Spec => []IdleCoreOffline
<1>1. Init => IdleCoreOffline
  BY DEF Init, ReactorInit, IdleCoreOffline
<1>2. TypeOK /\ LockInv /\ IdleCoreOffline /\ [Next]_vars => IdleCoreOffline'
  BY IdleOfflineNext, AssertionsHold
<1> QED
  BY <1>1, <1>2, Invariance, PTL DEF Spec

-----------------------------------------------------------------------------
(***************************************************************************)
(* Call stacks.  A coroutine is on a stack, or in one inbox, or queued, or *)
(* finished, or not yet submitted, and nowhere twice.                      *)
(***************************************************************************)
Parked ==
  \A c \in Coros :
    /\ OnStack(c) => ~InInbox(c) /\ ~Unsent(c) /\ pc[c] \notin {"queued", "done"}
    /\ InInbox(c) => ~Unsent(c) /\ pc[c] \notin {"queued", "done"}
    /\ Unsent(c) => pc[c] \notin {"queued", "done"}

StackInv == OneFrame /\ InboxOnce /\ Parked

\* Every step keeps the coroutines in one place.
LEMMA StackInvNext ==
  ASSUME TypeOK, LockInv, StackInv, [Next]_vars
  PROVE  StackInv'
<1> USE DEF StackInv
<1>0. ReactorTypeOK
  BY DEF TypeOK
<1>1. ASSUME UNCHANGED <<running, resumer, inbox, submitted, pc>>
      PROVE  StackInv'
  BY <1>1 DEF OneFrame, InboxOnce, Parked, OnStack, InInbox, Unsent
<1>2. CASE SubmitTask
  <2>1. /\ submitted \in Coros /\ Home(submitted) \in Cores /\ submitted \in Nat
        /\ SendMsg(Home(submitted), submitted) /\ submitted' = submitted + 1
        /\ UNCHANGED <<running, resumer, pc>>
    BY <1>2, HomeType, ReactorAssumption
    DEF SubmitTask, Submit, stackVars, TypeOK, ReactorTypeOK, Coros
  <2>2. /\ Unsent(submitted)
        /\ \A d \in Coros : (Unsent(d))' <=> Unsent(d) /\ d # submitted
        /\ \A d \in Coros : (OnStack(d))' <=> OnStack(d)
    BY <2>1 DEF Unsent, OnStack, Coros
  <2>3. /\ InboxOnce'
        /\ \A d \in Coros : (InInbox(d))' => InInbox(d) \/ d = submitted
    BY <1>0, <2>1, <2>2, SendOnce DEF Parked
  <2>4. OneFrame'
    BY <2>1 DEF OneFrame
  <2>5. Parked'
    BY <2>1, <2>2, <2>3 DEF Parked
  <2> QED BY <2>3, <2>4, <2>5
<1>3. ASSUME NEW k \in Cores, Reactors(k)
      PROVE  StackInv'
  <2>1. CASE Dispatch(k)
    <3> DEFINE e == Head(inbox[k])
    <3>1. /\ Resume(k, e) /\ inbox[k] # <<>>
          /\ inbox' = [inbox EXCEPT ![k] = Tail(@)] /\ UNCHANGED <<submitted, pc>>
      BY <1>3, <2>1 DEF Reactors, Dispatch
    <3>2. /\ InboxOnce' /\ e \in Coros /\ InInbox(e)
          /\ \A d \in Coros : (InInbox(d))' => InInbox(d) /\ d # e
      BY <1>0, <3>1, TakeOnce
    <3> HIDE DEF e
    <3>3. ~OnStack(e)
      BY <3>2 DEF Parked
    <3>4. OneFrame' /\ \A d \in Coros : (OnStack(d))' => OnStack(d) \/ d = e
      BY <1>0, <3>1, <3>2, <3>3, ResumeStack
    <3>5. \A d \in Coros : (Unsent(d))' <=> Unsent(d)
      BY <3>1 DEF Unsent
    <3>6. Parked'
      BY <3>1, <3>2, <3>4, <3>5 DEF Parked
    <3> QED BY <3>2, <3>4, <3>6
  <2>2. CASE SuspendTail(k)
    BY <1>1, <1>3, <2>2 DEF SuspendTail, Reactors, stackVars
  <2> QED BY <1>3, <2>1, <2>2 DEF Reactors
<1>4. ASSUME NEW k \in Cores, NEW c \in Coros, Executes(k, c)
      PROVE  OnStack(c) /\ running[k] = c /\ ~InInbox(c) /\ ~Unsent(c)
  BY <1>4 DEF Executes, OnStack, Parked
\* A step of c that keeps it on its stack.
<1>5. ASSUME NEW k \in Cores, NEW c \in Coros, Executes(k, c),
             UNCHANGED <<running, resumer, inbox, submitted>>,
             NEW b \in PcValues \ {"queued", "done"}, pc' = [pc EXCEPT ![c] = b]
      PROVE  StackInv'
  <2>1. \A d \in Coros : pc'[d] = IF d = c THEN b ELSE pc[d]
    BY <1>5 DEF TypeOK
  <2>2. /\ \A d \in Coros : (OnStack(d))' <=> OnStack(d)
        /\ \A d \in Coros : (InInbox(d))' <=> InInbox(d)
        /\ \A d \in Coros : (Unsent(d))' <=> Unsent(d)
    <3>1. \A d \in Coros : (OnStack(d))' <=> OnStack(d)
      BY <1>5 DEF OnStack
    <3>2. \A d \in Coros : (InInbox(d))' <=> InInbox(d)
      BY <1>5 DEF InInbox
    <3>3. \A d \in Coros : (Unsent(d))' <=> Unsent(d)
      BY <1>5 DEF Unsent
    <3> QED BY <3>1, <3>2, <3>3
  <2>3. OneFrame' /\ InboxOnce'
    BY <1>5 DEF OneFrame, InboxOnce
  <2>4. Parked'
    BY <1>4, <1>5, <2>1, <2>2 DEF Parked
  <2> QED BY <2>3, <2>4
\* A step of c that takes it off its stack.
<1>6. ASSUME NEW k \in Cores, NEW c \in Coros, Executes(k, c), Return(k, c),
             UNCHANGED submitted, NEW b \in PcValues, pc' = [pc EXCEPT ![c] = b],
             \/ UNCHANGED inbox
             \/ SendMsg(k, c) /\ b \notin {"queued", "done"}
      PROVE  StackInv'
  <2>1. \A d \in Coros : pc'[d] = IF d = c THEN b ELSE pc[d]
    BY <1>6 DEF TypeOK
  <2>2. OnStack(c) /\ running[k] = c /\ ~InInbox(c) /\ ~Unsent(c)
    BY <1>4, <1>6
  <2>3. OneFrame' /\ \A d \in Coros : (OnStack(d))' => OnStack(d) /\ d # c
    BY <1>0, <1>6, <2>2, ReturnStack
  <2>4. \A d \in Coros : (Unsent(d))' <=> Unsent(d)
    BY <1>6 DEF Unsent
  <2>5. CASE UNCHANGED inbox
    <3>1. InboxOnce' /\ \A d \in Coros : (InInbox(d))' <=> InInbox(d)
      BY <2>5 DEF InboxOnce, InInbox
    <3>2. Parked'
      BY <2>1, <2>2, <2>3, <2>4, <3>1 DEF Parked
    <3> QED BY <2>3, <3>1, <3>2
  <2>6. CASE SendMsg(k, c) /\ b \notin {"queued", "done"}
    <3>1. InboxOnce' /\ \A d \in Coros : (InInbox(d))' => InInbox(d) \/ d = c
      BY <1>0, <2>2, <2>6, SendOnce
    <3>2. Parked'
      BY <2>1, <2>2, <2>3, <2>4, <2>6, <3>1 DEF Parked
    <3> QED BY <2>3, <3>1, <3>2
  <2> QED BY <1>6, <2>5, <2>6
\* unlock() resumes a queued coroutine on top of c.
<1>7. ASSUME NEW k \in Cores, NEW c \in Coros,
             UnlockToWaiter(k, c) \/ UnlockExchange(k, c)
      PROVE  StackInv'
  <2> DEFINE e == Head(Queue)
  <2>1. /\ Holds(c) /\ Queue # <<>>
        /\ pc' = [pc EXCEPT ![c] = "after", ![e] = "cs"]
    BY <1>7, HandOffQueue
  <2>2. e \in Coros /\ pc[e] = "queued"
    <3>1. Queue \in Seq(Coros) /\ Range(Queue) = {d \in Coros : pc[d] = "queued"}
      BY QueueProperties DEF LockInv, WaitersAccounted
    <3>2. IsInjective(Queue)
      BY DEF LockInv, WaitersAccounted
    <3>3. e \in Range(Queue)
      BY <2>1, <3>1, <3>2, InjectiveTail
    <3> QED BY <3>1, <3>3
  <2>3. Resume(k, e) /\ UNCHANGED <<submitted, inbox>>
    <3>1. CASE UnlockToWaiter(k, c)
      <4>1. e = Head(waiters)
        BY <3>1, QueueProperties, HeadTailConcat DEF UnlockToWaiter, Queue, TypeOK
      <4> QED BY <3>1, <4>1 DEF UnlockToWaiter, ResumeNext
    <3>2. CASE UnlockExchange(k, c)
      <4>1. waiters = <<>>
        BY <3>2 DEF UnlockExchange, LockInv
      <4>2. Queue = Reverse(newly)
        BY <4>1, QueueProperties, ConcatEmptySeq DEF Queue
      <4> QED BY <3>2, <4>2 DEF UnlockExchange, ResumeNext
    <3> QED BY <1>7, <3>1, <3>2
  <2> HIDE DEF e
  <2>4. \A d \in Coros :
          pc'[d] = IF d = e THEN "cs" ELSE IF d = c THEN "after" ELSE pc[d]
    BY <2>1, <2>2 DEF TypeOK
  <2>5. ~OnStack(e) /\ ~InInbox(e) /\ ~Unsent(e)
    BY <2>2 DEF Parked
  <2>6. OneFrame' /\ \A d \in Coros : (OnStack(d))' => OnStack(d) \/ d = e
    BY <1>0, <2>2, <2>3, <2>5, ResumeStack
  <2>7. /\ InboxOnce'
        /\ \A d \in Coros : ((InInbox(d))' <=> InInbox(d)) /\ ((Unsent(d))' <=> Unsent(d))
    BY <2>3 DEF InboxOnce, InInbox, Unsent
  <2>8. Parked'
    BY <2>4, <2>5, <2>6, <2>7 DEF Parked
  <2> QED BY <2>6, <2>7, <2>8
<1>8. ASSUME NEW k \in Cores, NEW c \in Coros, CoroStep(k, c)
      PROVE  StackInv'
  <2>1. CASE UnlockToWaiter(k, c) \/ UnlockExchange(k, c)
    BY <1>7, <2>1
  <2>2. CASE CasEnqueue(k, c)
    BY <1>6, <2>2 DEF CasEnqueue, Step, PcValues
  <2>3. CASE YieldInside(k, c)
    BY <1>6, <2>3 DEF YieldInside, Yield, Step, PcValues
  <2>4. CASE TaskReturn(k, c)
    BY <1>6, <2>4 DEF TaskReturn, Finish, Step, PcValues
  <2>5. CASE ReadSection(k, c)
    BY <1>5, <2>5 DEF ReadSection, Step, stackVars, PcValues
  <2>6. CASE \/ NoReadSection(k, c) \/ LoadState(k, c) \/ CasAcquire(k, c)
             \/ CasRetry(k, c) \/ NoYieldInside(k, c) \/ NextRound(k, c)
    BY <1>5, <2>6
    DEF NoReadSection, LoadState, CasAcquire, CasRetry, NoYieldInside, NextRound,
        Step, reactorVars, PcValues
  <2>7. CASE tryLock(k, c)
    <3> DEFINE b == IF locked THEN "load" ELSE "cs"
    <3>1. b \in PcValues \ {"queued", "done"}
      BY DEF PcValues
    <3>2. /\ Executes(k, c) /\ pc' = [pc EXCEPT ![c] = b]
          /\ UNCHANGED <<running, resumer, inbox, submitted>>
      BY <2>7 DEF tryLock, Step, reactorVars
    <3> HIDE DEF b
    <3> QED BY <1>5, <3>1, <3>2
  <2>8. CASE UnlockLoad(k, c)
    <3> DEFINE b == IF StateWord = Null THEN "ucas" ELSE "uxchg"
    <3>1. b \in PcValues \ {"queued", "done"}
      BY DEF PcValues
    <3>2. /\ Executes(k, c) /\ pc' = [pc EXCEPT ![c] = b]
          /\ UNCHANGED <<running, resumer, inbox, submitted>>
      BY <2>8 DEF UnlockLoad, Step, reactorVars
    <3> HIDE DEF b
    <3> QED BY <1>5, <3>1, <3>2
  <2>9. CASE UnlockCas(k, c)
    <3> DEFINE b == IF StateWord = Null THEN "after" ELSE "uxchg"
    <3>1. b \in PcValues \ {"queued", "done"}
      BY DEF PcValues
    <3>2. /\ Executes(k, c) /\ pc' = [pc EXCEPT ![c] = b]
          /\ UNCHANGED <<running, resumer, inbox, submitted>>
      BY <2>9 DEF UnlockCas, Step, reactorVars
    <3> HIDE DEF b
    <3> QED BY <1>5, <3>1, <3>2
  <2> QED
    BY <1>8, <2>1, <2>2, <2>3, <2>4, <2>5, <2>6, <2>7, <2>8, <2>9 DEF CoroStep
<1>9. CASE Stopped \/ UNCHANGED vars
  BY <1>1, <1>9 DEF Stopped, vars, reactorVars
<1> QED
  BY <1>2, <1>3, <1>8, <1>9 DEF Next, CoreStep

\* Nothing ever resumes a coroutine that is running: it has one frame on one
\* stack, and while it has it no inbox and no list of the mutex names it, even
\* though unlock() resumes it on another core than the one that suspended it.
THEOREM ResumedOnce == Spec => []ActiveOnce
<1>1. Init => StackInv
  <2> SUFFICES ASSUME Init PROVE StackInv
    OBVIOUS
  <2>1. \A c \in Coros : ~OnStack(c)
    BY ReactorAssumption DEF Init, ReactorInit, OnStack
  <2>2. \A k \in Cores : inbox[k] = <<>>
    BY DEF Init, ReactorInit
  <2>3. Range(<<>>) = {} /\ IsInjective(<<>>)
    BY DEF Range, IsInjective
  <2>4. OneFrame
    BY <2>1 DEF OneFrame, OnStack
  <2>5. InboxOnce /\ \A c \in Coros : ~InInbox(c)
    BY <2>2, <2>3 DEF InboxOnce, InInbox
  <2>6. Parked
    BY <2>1, <2>5 DEF Parked, Init
  <2> QED BY <2>4, <2>5, <2>6 DEF StackInv
<1>2. TypeOK /\ LockInv /\ StackInv /\ [Next]_vars => StackInv'
  BY StackInvNext
<1>3. StackInv => ActiveOnce
  BY DEF StackInv, OneFrame, Parked, InInbox, ActiveOnce
<1> QED
  BY <1>1, <1>2, <1>3, Invariance, PTL DEF Spec

-----------------------------------------------------------------------------
(***************************************************************************)
(* The refinement.                                                         *)
(***************************************************************************)

\* The owner of the abstract lock is the holder, if there is one.
LEMMA OwnerIsHolder ==
  ASSUME MutualExclusion
  PROVE  /\ \A c \in Coros : Holds(c) => Owner = c /\ Holders = {c}
         /\ (\A c \in Coros : ~Holds(c)) => Owner = None /\ Holders = {}
<1>1. ASSUME NEW c \in Coros, Holds(c)
      PROVE  Owner = c /\ Holders = {c}
  <2>1. Holders = {c}
    BY <1>1 DEF Holders, MutualExclusion
  <2> QED BY <2>1 DEF Owner
<1>2. ASSUME \A c \in Coros : ~Holds(c)
      PROVE  Owner = None /\ Holders = {}
  <2>1. Holders = {}
    BY <1>2 DEF Holders
  <2> QED BY <2>1 DEF Owner
<1> QED BY <1>1, <1>2

\* A step that neither moves the queue nor the set of holders stutters.
LEMMA SameHolders ==
  ASSUME Holders' = Holders
  PROVE  Owner' = Owner
BY DEF Owner

\* A coroutine takes the free lock: the abstract Acquire.
LEMMA TakeRefines ==
  ASSUME TypeOK, LockInv, NEW c \in Coros, ~locked, pc[c] # "queued",
         pc' = [pc EXCEPT ![c] = "cs"], UNCHANGED <<newly, waiters>>
  PROVE  Fifo!Next
<1>1. \A d \in Coros : ~Holds(d)
  BY UnlockedEmpty
<1>2. Owner = None
  BY <1>1, OwnerIsHolder DEF LockInv
<1>3. Holders' = {c}
  BY <1>1 DEF Holders, Holds, TypeOK
<1>4. Owner' = c
  BY <1>3 DEF Owner
<1>5. Queue' = Queue
  BY DEF Queue
<1> QED BY <1>2, <1>4, <1>5 DEF Fifo!Next, Fifo!Acquire

\* The mutex implements the FIFO lock for any number of cores and coroutines:
\* coLock() and unlock() grant the lock in the order of the successful
\* compare-exchanges that queue the coroutines.
THEOREM MutexIsFifo == Spec => ImplementsFifoLock
<1>1. Init => Fifo!Init
  <2> SUFFICES ASSUME Init PROVE Fifo!Init
    OBVIOUS
  <2>1. TypeOK /\ LockInv /\ ~locked
    BY TypeInit, LockInvInit DEF Init
  <2> QED
    BY <2>1, UnlockedEmpty, OwnerIsHolder DEF Fifo!Init, LockInv
<1>2. TypeOK /\ LockInv /\ (TypeOK /\ LockInv)' /\ [Next]_vars => [Fifo!Next]_(Fifo!vars)
  <2> SUFFICES ASSUME TypeOK, LockInv, LockInv', [Next]_vars
               PROVE  [Fifo!Next]_(Fifo!vars)
    OBVIOUS
  <2> USE DEF Fifo!vars
  <2>1. ASSUME UNCHANGED <<newly, waiters>>, Holders' = Holders
        PROVE  UNCHANGED <<Owner, Queue>>
    BY <2>1, SameHolders DEF Queue
  <2>2. ASSUME NEW k \in Cores, NEW c \in Coros, CoroStep(k, c)
        PROVE  [Fifo!Next]_(Fifo!vars)
    <3>1. CASE \/ ReadSection(k, c) \/ NoReadSection(k, c)
               \/ LoadState(k, c) \/ CasRetry(k, c)
               \/ YieldInside(k, c) \/ NoYieldInside(k, c)
               \/ UnlockLoad(k, c)
               \/ NextRound(k, c) \/ TaskReturn(k, c)
      <4>1. UNCHANGED <<newly, waiters>>
        BY <3>1
        DEF ReadSection, NoReadSection, LoadState, CasRetry, YieldInside,
            NoYieldInside, UnlockLoad, NextRound, TaskReturn, mutexVars
      <4>2. Holders' = Holders
        BY <3>1
        DEF ReadSection, NoReadSection, LoadState, CasRetry, YieldInside,
            NoYieldInside, UnlockLoad, NextRound, TaskReturn, Step, Holders,
            Holds, TypeOK
      <4> QED BY <2>1, <4>1, <4>2
    <3>2. CASE tryLock(k, c)
      <4>1. CASE ~locked
        BY <3>2, <4>1, TakeRefines DEF tryLock, Step
      <4>2. CASE locked
        <5>1. Holders' = Holders
          BY <3>2, <4>2 DEF tryLock, Step, Holders, Holds, TypeOK
        <5> QED BY <2>1, <3>2, <5>1 DEF tryLock
      <4> QED BY <4>1, <4>2
    <3>3. CASE CasAcquire(k, c)
      <4>1. ~locked
        BY <3>3, StateWordCases DEF CasAcquire
      <4> QED BY <3>3, <4>1, TakeRefines DEF CasAcquire, Step
    <3>4. CASE CasEnqueue(k, c)
      <4>1. locked
        BY <3>4, StateWordCases DEF CasEnqueue, TypeOK
      <4>2. Queue' = Append(Queue, c)
        BY <3>4, <4>1, LockInvEnqueue DEF CasEnqueue, Step
      <4>3. Holders' = Holders
        BY <3>4 DEF CasEnqueue, Step, Holders, Holds, TypeOK
      <4>4. Owner' = Owner
        BY <4>3, SameHolders
      <4>5. PICK d \in Coros : Holds(d)
        BY <4>1 DEF LockInv
      <4>6. Owner = d /\ d # c /\ d # None
        BY <3>4, <4>5, OwnerIsHolder, ReactorAssumption
        DEF LockInv, CasEnqueue, Step, Holds
      <4>7. \A i \in DOMAIN Queue : Queue[i] # c
        BY <3>4 DEF LockInv, WaitersAccounted, Range, CasEnqueue, Step
      <4> QED
        BY <4>2, <4>4, <4>6, <4>7 DEF Fifo!Next, Fifo!Enqueue
    <3>5. CASE UnlockCas(k, c)
      <4>1. Holds(c) /\ locked /\ waiters = <<>>
        BY <3>5 DEF UnlockCas, Step, Holds, LockInv, MutualExclusion
      <4>2. Holders = {c} /\ Owner = c /\ c # None
        BY <4>1, OwnerIsHolder, ReactorAssumption DEF LockInv
      <4>3. CASE StateWord = Null
        <5>1. newly = <<>> /\ Queue = <<>>
          BY <4>1, <4>3, StateWordCases, QueueProperties
        <5>2. Holders' = {}
          BY <3>5, <4>2, <4>3 DEF UnlockCas, Step, Holders, Holds, TypeOK
        <5>3. Owner' = None
          BY <5>2 DEF Owner
        <5>4. Queue' = Queue
          BY <3>5 DEF UnlockCas, Queue
        <5> QED BY <4>2, <5>1, <5>3, <5>4 DEF Fifo!Next, Fifo!Release
      <4>4. CASE StateWord # Null
        <5>1. Holders' = Holders
          BY <3>5, <4>4 DEF UnlockCas, Step, Holders, Holds, TypeOK
        <5> QED BY <2>1, <3>5, <5>1 DEF UnlockCas
      <4> QED BY <4>3, <4>4
    <3>6. CASE UnlockToWaiter(k, c) \/ UnlockExchange(k, c)
      <4>1. /\ Holds(c) /\ Queue # <<>> /\ Queue' = Tail(Queue)
            /\ Head(Queue) \in Coros
            /\ \A d \in Coros : (Holds(d))' <=> d = Head(Queue)
        BY <3>6, HandOffQueue, LockInvHandOff
      <4>2. Owner = c /\ c # None
        BY <4>1, OwnerIsHolder, ReactorAssumption DEF LockInv
      <4>3. Holders' = {Head(Queue)}
        BY <4>1 DEF Holders
      <4>4. Owner' = Head(Queue)
        BY <4>3 DEF Owner
      <4> QED BY <4>1, <4>2, <4>4 DEF Fifo!Next, Fifo!HandOff
    <3> QED
      BY <2>2, <3>1, <3>2, <3>3, <3>4, <3>5, <3>6 DEF CoroStep
  <2>3. CASE SubmitTask \/ (\E k \in Cores : Reactors(k)) \/ Stopped \/ UNCHANGED vars
    <3>1. UNCHANGED <<newly, waiters>> /\ Holders' = Holders
      BY <2>3
      DEF SubmitTask, Reactors, Stopped, vars, mutexVars, Holders, Holds
    <3> QED BY <2>1, <3>1
  <2> QED
    BY <2>2, <2>3 DEF Next, CoreStep
<1> QED
  BY <1>1, <1>2, Invariance, PTL DEF Spec, ImplementsFifoLock, Fifo!Spec

=============================================================================
