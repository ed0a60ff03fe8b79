------------------------- MODULE SharedMutexProofs -------------------------
(***************************************************************************)
(* Proofs about module SharedMutex, for any number of cores, readers and   *)
(* writers and any width of the word: state_ counts exactly, no coroutine  *)
(* is lost at a gate, and the lock implements module RwLock.               *)
(***************************************************************************)
EXTENDS SharedMutex, ReactorProofs, FiniteSetTheorems

EnteredPcs == {"wdrain", "wgate2", "wagain", "write", "wunlock", "wclear"}
OwningPcs == {"write", "wunlock", "wclear"}
SharingPcs == {"read", "runlock", "rdec"}
ReaderPcs == {"rlock", "rwoken", "rent", "rgate1", "rtry"} \cup SharingPcs

\* mut_ is taken exactly while one coroutine is inside, and only one that is in
\* resumeWaiters() has awaiters in its hands.
MutInv ==
  /\ \A c, d \in Coros : pc[c] \in InsidePcs /\ pc[d] \in InsidePcs => c = d
  /\ locked = TRUE <=> \E c \in Coros : pc[c] \in InsidePcs
  /\ awaiters # <<>> => \E c \in Coros : pc[c] = "notify"

\* The flag of state_ stands for the one writer that has entered, its count for
\* the shared owners; a writer owns the lock only without them.
WordInv ==
  /\ \A c, d \in Coros : pc[c] \in EnteredPcs /\ pc[d] \in EnteredPcs => c = d
  /\ write_entered <=> \E c \in Coros : pc[c] \in EnteredPcs
  /\ readers = Cardinality(Sharing)
  /\ (\E c \in Coros : pc[c] \in OwningPcs) => readers = 0

\* Who waits is in one list, once; gate2_ is for the writer that has entered.
GatesInv ==
  /\ IsInjective(gate1) /\ IsInjective(gate2) /\ IsInjective(awaiters)
  /\ Range(gate1) \cap Range(gate2) = {}
  /\ Range(gate1) \cap Range(awaiters) = {}
  /\ Range(gate2) \cap Range(awaiters) = {}
  /\ Range(gate1) \cup Range(gate2) \cup Range(awaiters) = At(DOMAIN AfterNotify)
  /\ \A c \in Range(gate2) : pc[c] = "wgate2"

\* The inductive invariant.
LockInv == TypeOK /\ MutInv /\ WordInv /\ GatesInv

\* Readers take the readers' path.
RolesInv == \A c \in Coros : pc[c] \in ReaderPcs => c \notin Writers

\* Nobody waits at gate1_ but behind a writer, as long as the count cannot be
\* at its maximum, and nobody at gate2_ but for readers.
WaitInv ==
  /\ RolesInv
  /\ gate1 # <<>> => write_entered
  /\ gate2 # <<>> => readers # 0

-----------------------------------------------------------------------------
(***************************************************************************)
(* Sets of coroutines                                                      *)
(***************************************************************************)

\* The places that lead into mut_ and out of a gate.
LEMMA PcTables ==
  /\ DOMAIN AfterLock =
       {"wlock", "wwoken", "wagain", "wunlock", "rlock", "rwoken", "runlock"}
  /\ DOMAIN AfterNotify = {"wgate1", "wgate2", "rgate1"}
  /\ DOMAIN AfterUse = {"write", "read"}
  /\ AfterLock["wlock"] = "went" /\ AfterLock["wwoken"] = "went"
  /\ AfterLock["wagain"] = "wdrain" /\ AfterLock["wunlock"] = "wclear"
  /\ AfterLock["rlock"] = "rent" /\ AfterLock["rwoken"] = "rent"
  /\ AfterLock["runlock"] = "rdec"
  /\ AfterNotify["wgate1"] = "wwoken" /\ AfterNotify["wgate2"] = "wagain"
  /\ AfterNotify["rgate1"] = "rwoken"
  /\ AfterUse["write"] = "wunlock" /\ AfterUse["read"] = "runlock"
BY DEF AfterLock, AfterNotify, AfterUse

\* There are finitely many coroutines, so the shared owners can be counted.
LEMMA SharingFinite ==
  /\ IsFiniteSet(Coros)
  /\ \A S \in SUBSET Coros : IsFiniteSet(S) /\ Cardinality(S) \in Nat
<1>1. IsFiniteSet(Coros)
  BY FS_Interval, ReactorAssumption DEF Coros
<1> QED BY <1>1, FS_Subset, FS_CardinalityType

\* The two fields of the word.
LEMMA WordFields ==
  ASSUME TypeOK
  PROVE  /\ write_entered \in BOOLEAN
         /\ readers \in 0 .. max_readers
         /\ state_ = (IF write_entered THEN write_entered_flag ELSE 0) + readers
BY SharedMutexAssumption DEF TypeOK, write_entered, readers, max_readers

-----------------------------------------------------------------------------
(***************************************************************************)
(* Types                                                                   *)
(***************************************************************************)

\* The initial values have their types.
LEMMA TypeInit == Init => TypeOK
<1> SUFFICES ASSUME Init PROVE TypeOK
  OBVIOUS
<1>1. <<>> \in Seq(Coros)
  OBVIOUS
<1>2. Refresh - 1 \in 0 .. (Refresh - 1) /\ DONE \in Nat /\ 0 \in 0 .. NumTasks
  BY ReactorAssumption
<1>3. ReactorTypeOK
  BY <1>1, <1>2 DEF Init, ReactorInit, ReactorTypeOK
<1>4. 0 \in 0 .. (2 * write_entered_flag - 1)
  BY SharedMutexAssumption
<1> QED BY <1>1, <1>3, <1>4 DEF Init, TypeOK, PcValues

\* A gate minus what notifyOne() unlinks.
LEMMA FirstRest ==
  ASSUME NEW g \in Seq(Coros), IsInjective(g)
  PROVE  /\ First(g) \in Seq(Coros) /\ Rest(g) \in Seq(Coros)
         /\ IsInjective(First(g)) /\ IsInjective(Rest(g))
         /\ Range(First(g)) \cup Range(Rest(g)) = Range(g)
         /\ Range(First(g)) \cap Range(Rest(g)) = {}
         /\ g = <<>> <=> First(g) = <<>>
<1>1. CASE g = <<>>
  <2>1. First(g) = <<>> /\ Rest(g) = <<>>
    BY <1>1 DEF First, Rest
  <2> QED BY <1>1, <2>1, RangeEmpty
<1>2. CASE g # <<>>
  <2>1. First(g) = <<Head(g)>> /\ Rest(g) = Tail(g)
    BY <1>2 DEF First, Rest
  <2>2. Head(g) \in Coros /\ Tail(g) \in Seq(Coros)
    BY <1>2, HeadTailProperties
  <2>3. /\ IsInjective(Tail(g)) /\ Head(g) \in Range(g)
        /\ Range(Tail(g)) = Range(g) \ {Head(g)}
    BY <1>2, InjectiveTail
  <2>4. Range(<<Head(g)>>) = {Head(g)} /\ IsInjective(<<Head(g)>>)
    BY <2>2 DEF Range, IsInjective
  <2> QED BY <1>2, <2>1, <2>2, <2>3, <2>4
<1> QED BY <1>1, <1>2

\* Every step keeps the types; the word fits because a shared owner is counted
\* only below max_readers and uncounted only when there is one.
LEMMA TypeNext ==
  ASSUME LockInv, [Next]_vars
  PROVE  TypeOK'
<1> USE DEF TypeOK, LockInv, lockVars
<1>1. CASE SubmitTask
  BY <1>1, SubmitType DEF SubmitTask
<1>2. ASSUME NEW k \in Cores, Reactors(k)
      PROVE  TypeOK'
  BY <1>2, DispatchType DEF Reactors
<1>3. ASSUME NEW k \in Cores, NEW c \in Coros, CoroStep(k, c)
      PROVE  TypeOK'
  <2> USE PcTables DEF PcValues, InsidePcs
  <2>1. ASSUME NEW a, NEW b \in PcValues, Suspend(k, c, a, b)
        PROVE  /\ ReactorTypeOK'
               /\ pc' \in [Coros -> PcValues]
               /\ UNCHANGED <<state_, awaiters, ongoing>>
               /\ locked' \in BOOLEAN
    BY <2>1, OfflineType, ResumeType DEF Suspend, Step, ReactorTypeOK
  <2>2. <<c>> \o gate1 \in Seq(Coros) /\ <<c>> \o gate2 \in Seq(Coros)
    BY InjectiveCons
  <2>3. CASE SpinAcquire(k, c)
    BY <2>3 DEF SpinAcquire, ReactorTypeOK, reactorVars
  <2>4. CASE SpinYield(k, c)
    BY <2>4, YieldType DEF SpinYield
  <2>5. CASE ResumeWaiter(k, c)
    <3>1. Head(awaiters) \in Coros /\ Tail(awaiters) \in Seq(Coros)
      BY <2>5, HeadTailProperties DEF ResumeWaiter
    <3>2. pc[Head(awaiters)] \in DOMAIN AfterNotify
      BY <2>5, InjectiveTail DEF ResumeWaiter, GatesInv, At
    <3>3. ReactorTypeOK'
      BY <2>5, <3>1, ResumeType DEF ResumeWaiter, ReactorTypeOK, rcuVars
    <3> QED BY <2>5, <3>1, <3>2, <3>3 DEF ResumeWaiter
  <2>6. CASE NotifyEnd(k, c) \/ CallLock(k, c) \/ CallTryLock(k, c)
             \/ Own(k, c) \/ CallLockShared(k, c) \/ CallTryLockShared(k, c)
             \/ NoYieldInside(k, c) \/ NextRound(k, c)
    <3>1. locked' \in BOOLEAN
      BY <2>6
      DEF NotifyEnd, CallLock, CallTryLock, Own, CallLockShared,
          CallTryLockShared, NoYieldInside, NextRound
    <3>2. \E b \in PcValues : pc' = [pc EXCEPT ![c] = b]
      <4>1. CASE CallTryLock(k, c) \/ CallTryLockShared(k, c)
        BY <4>1 DEF CallTryLock, CallTryLockShared, Step
      <4>2. CASE NoYieldInside(k, c)
        <5>1. AfterUse[pc[c]] \in PcValues
          BY <4>2 DEF NoYieldInside
        <5> QED BY <4>2, <5>1 DEF NoYieldInside
      <4> QED
        BY <2>6, <4>1, <4>2
        DEF NotifyEnd, CallLock, Own, CallLockShared, NextRound, Step
    <3>3. UNCHANGED <<reactorVars, lockVars, ongoing>>
      BY <2>6
      DEF NotifyEnd, CallLock, CallTryLock, Own, CallLockShared,
          CallTryLockShared, NoYieldInside, NextRound
    <3> QED BY <3>1, <3>2, <3>3 DEF ReactorTypeOK, reactorVars
  <2>7. CASE WaitGate1(k, c)
    BY <2>1, <2>2, <2>7 DEF WaitGate1
  <2>8. CASE WaitGate2(k, c)
    BY <2>1, <2>2, <2>8 DEF WaitGate2
  <2>9. CASE WaitShared(k, c)
    BY <2>1, <2>2, <2>9 DEF WaitShared
  <2>10. CASE SetEntered(k, c) \/ TryOwn(k, c) \/ OwnShared(k, c)
              \/ TryOwnShared(k, c)
    <3>1. state_' \in 0 .. (2 * write_entered_flag - 1)
      BY <2>10, SharedMutexAssumption
      DEF SetEntered, TryOwn, OwnShared, TryOwnShared, write_entered, max_readers
    <3>2. /\ UNCHANGED <<reactorVars, gate1, gate2, awaiters, ongoing>>
          /\ locked' \in BOOLEAN
      BY <2>10 DEF SetEntered, TryOwn, OwnShared, TryOwnShared
    <3>3. \E b \in PcValues : pc' = [pc EXCEPT ![c] = b]
      <4>1. CASE SetEntered(k, c)
        BY <4>1 DEF SetEntered, Step
      <4>2. CASE TryOwn(k, c) \/ TryOwnShared(k, c)
        BY <4>2 DEF TryOwn, TryOwnShared, Step
      <4>3. CASE OwnShared(k, c)
        BY <4>3 DEF OwnShared, Step
      <4> QED BY <2>10, <4>1, <4>2, <4>3
    <3>4. pc' \in [Coros -> PcValues]
      BY <3>3
    <3> QED BY <3>1, <3>2, <3>4 DEF ReactorTypeOK, reactorVars
  <2>11. CASE Unlock(k, c)
    <3>1. 0 \in 0 .. (2 * write_entered_flag - 1)
      BY SharedMutexAssumption
    <3> QED BY <2>11, <3>1 DEF Unlock, Step, ReactorTypeOK, reactorVars
  <2>12. CASE UnlockShared(k, c)
    <3>1. c \in Sharing
      BY <2>12 DEF UnlockShared, Step, Sharing, At
    <3>2. readers # 0
      <4>1. Sharing \in SUBSET Coros
        BY DEF Sharing, At
      <4>2. Sharing # {} /\ IsFiniteSet(Sharing)
        BY <3>1, <4>1, SharingFinite
      <4>3. Cardinality(Sharing) # 0
        BY <4>2, FS_EmptySet
      <4> QED BY <4>3 DEF WordInv
    <3>3. state_ # 0
      BY <3>2, WordFields, SharedMutexAssumption
    <3>4. state_' \in 0 .. (2 * write_entered_flag - 1)
      BY <2>12, <3>3, SharedMutexAssumption DEF UnlockShared
    <3>5. gate1' \in Seq(Coros) /\ gate2' \in Seq(Coros) /\ awaiters' \in Seq(Coros)
      BY <2>12, FirstRest DEF UnlockShared, GatesInv
    <3> QED
      BY <2>12, <3>4, <3>5 DEF UnlockShared, Step, ReactorTypeOK, reactorVars
  <2>13. CASE YieldInside(k, c)
    BY <2>13, YieldType DEF YieldInside
  <2>14. CASE TaskReturn(k, c)
    <3>1. ReactorTypeOK'
      BY <2>14, OfflineType, ResumeType DEF TaskReturn, Finish, ReactorTypeOK
    <3> QED BY <2>14, <3>1 DEF TaskReturn, Step
  <2> QED
    BY <1>3, <2>3, <2>4, <2>5, <2>6, <2>7, <2>8, <2>9, <2>10, <2>11, <2>12,
       <2>13, <2>14 DEF CoroStep
<1>4. CASE end_test
  BY <1>4 DEF end_test, reactorVars, ReactorTypeOK
<1>5. CASE UNCHANGED vars
  BY <1>5 DEF vars, reactorVars, ReactorTypeOK
<1> QED
  BY <1>1, <1>2, <1>3, <1>4, <1>5 DEF Next, CoreStep, Stopped

-----------------------------------------------------------------------------
(***************************************************************************)
(* mut_: taking it, releasing it, and steps that do neither.               *)
(***************************************************************************)

\* A step that takes mut_, releases it or leaves it alone.
LEMMA MutMove ==
  ASSUME TypeOK, MutInv, NEW c \in Coros, NEW b \in PcValues,
         pc' = [pc EXCEPT ![c] = b],
         \/ /\ pc[c] \in InsidePcs <=> b \in InsidePcs
            /\ UNCHANGED locked
            /\ awaiters' # <<>> =>
                 b = "notify" \/ (awaiters # <<>> /\ pc[c] # "notify")
         \/ /\ pc[c] \notin InsidePcs /\ b \in InsidePcs
            /\ locked = FALSE /\ locked' = TRUE /\ UNCHANGED awaiters
         \/ /\ pc[c] \in InsidePcs /\ b \notin InsidePcs
            /\ locked' = FALSE /\ UNCHANGED awaiters
            /\ pc[c] = "notify" => awaiters = <<>>
  PROVE  MutInv'
<1> USE DEF TypeOK, MutInv
<1>1. \A d \in Coros : pc'[d] = IF d = c THEN b ELSE pc[d]
  OBVIOUS
<1>2. "notify" \in InsidePcs
  BY DEF InsidePcs
<1>3. CASE /\ pc[c] \in InsidePcs <=> b \in InsidePcs
           /\ UNCHANGED locked
           /\ awaiters' # <<>> =>
                b = "notify" \/ (awaiters # <<>> /\ pc[c] # "notify")
  BY <1>1, <1>3
<1>4. CASE /\ pc[c] \notin InsidePcs /\ b \in InsidePcs
           /\ locked = FALSE /\ locked' = TRUE /\ UNCHANGED awaiters
  BY <1>1, <1>2, <1>4
<1>5. CASE /\ pc[c] \in InsidePcs /\ b \notin InsidePcs
           /\ locked' = FALSE /\ UNCHANGED awaiters
           /\ pc[c] = "notify" => awaiters = <<>>
  BY <1>1, <1>2, <1>5
<1> QED BY <1>3, <1>4, <1>5

\* Who is inside mut_ and not in resumeWaiters() finds nothing left to resume.
LEMMA NoAwaiters ==
  ASSUME MutInv, NEW c \in Coros, pc[c] \in InsidePcs \ {"notify"}
  PROVE  awaiters = <<>>
BY DEF MutInv, InsidePcs

-----------------------------------------------------------------------------
(***************************************************************************)
(* The word.  Each kind of change is also a step of the abstract lock.     *)
(***************************************************************************)

\* The writer the abstract lock calls entered.
EnteredOf == IF Entered = {} THEN None ELSE CHOOSE c \in Entered : TRUE
Owning == At(OwningPcs)

\* The sets the properties speak of, by places.
LEMMA ClassSets ==
  /\ Entered = At(EnteredPcs)
  /\ Sharing = At(SharingPcs)
  /\ Owning = At({"write", "wunlock", "wclear"})
BY DEF Entered, Sharing, Owning, EnteredPcs, SharingPcs, OwningPcs

\* One coroutine moves: how the classes change.
LEMMA ClassMove ==
  ASSUME TypeOK, NEW c \in Coros, NEW b, pc' = [pc EXCEPT ![c] = b]
  PROVE  \A S : /\ b \in S => At(S)' = At(S) \cup {c}
                /\ b \notin S => At(S)' = At(S) \ {c}
BY DEF TypeOK, At

\* No shared owner, and one that comes or goes.
LEMMA CountSharing ==
  /\ Cardinality(Sharing) = 0 <=> Sharing = {}
  /\ \A c \in Coros : c \notin Sharing =>
       Cardinality(Sharing \cup {c}) = Cardinality(Sharing) + 1
  /\ \A c \in Sharing : Cardinality(Sharing \ {c}) = Cardinality(Sharing) - 1
<1>1. Sharing \in SUBSET Coros
  BY DEF Sharing, At
<1>2. IsFiniteSet(Sharing)
  BY <1>1, SharingFinite
<1> QED BY <1>2, FS_EmptySet, FS_AddElement, FS_RemoveElement

\* The abstract state, from the classes.
LEMMA EnteredIs ==
  ASSUME WordInv
  PROVE  /\ \A c \in Entered : EnteredOf = c /\ Entered = {c}
         /\ Entered = {} => EnteredOf = None
         /\ write_entered <=> Entered # {}
         /\ readers = 0 <=> Sharing = {}
<1>1. \A c \in Entered : Entered = {c}
  BY ClassSets DEF WordInv, At
<1>2. \A c \in Entered : EnteredOf = c
  BY <1>1 DEF EnteredOf
<1>3. write_entered <=> Entered # {}
  BY ClassSets DEF WordInv, At
<1> QED BY <1>1, <1>2, <1>3, CountSharing DEF WordInv, EnteredOf

\* A step between places of the same classes leaves the abstract lock alone.
LEMMA WordKeep ==
  ASSUME TypeOK, TypeOK', WordInv, NEW c \in Coros, NEW b \in PcValues,
         pc' = [pc EXCEPT ![c] = b],
         UNCHANGED state_,
         pc[c] \in EnteredPcs <=> b \in EnteredPcs,
         pc[c] \in SharingPcs <=> b \in SharingPcs,
         pc[c] \in OwningPcs <=> b \in OwningPcs
  PROVE  WordInv' /\ UNCHANGED <<Sharing, Entered, Owning>>
<1>1. \A d \in Coros : pc'[d] = IF d = c THEN b ELSE pc[d]
  BY DEF TypeOK
<1>2. UNCHANGED <<Sharing, Entered, Owning>>
  BY <1>1, ClassSets DEF At, Sharing, Entered, Owning, EnteredPcs, SharingPcs
<1>3. UNCHANGED <<write_entered, readers>>
  BY DEF write_entered, readers
<1> QED BY <1>1, <1>2, <1>3 DEF WordInv

\* The readers are gone: the writer that entered owns the lock.
LEMMA WordOwn ==
  ASSUME TypeOK, TypeOK', WordInv, NEW c \in Coros, NEW b \in PcValues,
         pc' = [pc EXCEPT ![c] = b],
         UNCHANGED state_, readers = 0, pc[c] = "wdrain", b = "write"
  PROVE  /\ WordInv'
         /\ Sharing = {} /\ Entered # {} /\ Owning' # {}
         /\ UNCHANGED <<Sharing, Entered>>
<1>1. \A d \in Coros : pc'[d] = IF d = c THEN b ELSE pc[d]
  BY DEF TypeOK
<1>2. UNCHANGED <<Sharing, Entered>>
  BY <1>1 DEF At, Sharing, Entered
<1>3. UNCHANGED <<write_entered, readers>>
  BY DEF write_entered, readers
<1>4. Sharing = {}
  BY EnteredIs
<1>5. c \in Entered /\ c \in Owning'
  BY <1>1 DEF At, Entered, Owning, OwningPcs
<1>6. WordInv'
  BY <1>1, <1>2, <1>3 DEF WordInv, EnteredPcs
<1> QED BY <1>2, <1>4, <1>5, <1>6

\* A writer enters.
LEMMA WordEnter ==
  ASSUME TypeOK, TypeOK', WordInv, NEW c \in Coros, NEW b \in PcValues,
         pc' = [pc EXCEPT ![c] = b],
         ~write_entered, state_' = state_ + write_entered_flag,
         pc[c] = "went", b = "wdrain"
  PROVE  /\ WordInv'
         /\ Entered = {} /\ Entered' = {c}
         /\ UNCHANGED <<Sharing, Owning>>
<1>1. \A d \in Coros : pc'[d] = IF d = c THEN b ELSE pc[d]
  BY DEF TypeOK
<1>2. UNCHANGED <<Sharing, Owning>>
  BY <1>1 DEF At, Sharing, Owning, OwningPcs
<1>3. Entered = {}
  BY EnteredIs
<1>4. Entered' = {c}
  BY <1>1, <1>3 DEF At, Entered
<1>5. write_entered' /\ readers' = readers
  BY SharedMutexAssumption DEF write_entered, readers, TypeOK
<1>6. \A d \in Coros : pc[d] \notin EnteredPcs
  BY <1>3 DEF At, Entered, EnteredPcs
<1>7. \A d \in Coros : pc[d] \notin OwningPcs
  BY <1>6 DEF EnteredPcs, OwningPcs
<1>8. WordInv'
  BY <1>1, <1>2, <1>5, <1>6, <1>7 DEF WordInv, EnteredPcs, OwningPcs
<1> QED BY <1>2, <1>3, <1>4, <1>8

\* tryLock() enters and owns in one step.
LEMMA WordEnterOwn ==
  ASSUME TypeOK, TypeOK', WordInv, NEW c \in Coros, NEW b \in PcValues,
         pc' = [pc EXCEPT ![c] = b],
         state_ = 0, state_' = write_entered_flag, pc[c] = "wtry", b = "write"
  PROVE  /\ WordInv'
         /\ Entered = {} /\ Sharing = {} /\ Entered' = {c} /\ Owning' # {}
         /\ UNCHANGED Sharing
<1>1. \A d \in Coros : pc'[d] = IF d = c THEN b ELSE pc[d]
  BY DEF TypeOK
<1>2. ~write_entered /\ readers = 0 /\ write_entered' /\ readers' = 0
  BY SharedMutexAssumption DEF write_entered, readers
<1>3. Entered = {} /\ Sharing = {}
  BY <1>2, EnteredIs
<1>4. Entered' = {c}
  BY <1>1, <1>3 DEF At, Entered
<1>5. Sharing' = Sharing
  BY <1>1 DEF At, Sharing
<1>6. c \in Owning'
  BY <1>1 DEF At, Owning, OwningPcs
<1>7. \A d \in Coros : pc[d] \notin EnteredPcs
  BY <1>3 DEF At, Entered, EnteredPcs
<1>8. WordInv'
  BY <1>1, <1>2, <1>5, <1>7 DEF WordInv, EnteredPcs
<1> QED BY <1>3, <1>4, <1>5, <1>6, <1>8

\* unlock(): nobody has entered, and there was no shared owner to forget.
LEMMA WordLeave ==
  ASSUME TypeOK, TypeOK', WordInv, NEW c \in Coros, NEW b \in PcValues,
         pc' = [pc EXCEPT ![c] = b],
         state_' = 0, pc[c] = "wclear", b = "notify"
  PROVE  /\ WordInv'
         /\ Owning # {} /\ Entered' = {} /\ Owning' = {}
         /\ UNCHANGED Sharing
<1>1. \A d \in Coros : pc'[d] = IF d = c THEN b ELSE pc[d]
  BY DEF TypeOK
<1>2. Entered = {c} /\ c \in Owning
  <2>1. c \in Entered
    BY DEF At, Entered
  <2> QED BY <2>1, EnteredIs DEF At, Owning, OwningPcs
<1>3. Entered' = {}
  BY <1>1, <1>2 DEF At, Entered
<1>4. Owning' = {}
  BY <1>3 DEF At, Entered, Owning, OwningPcs
<1>5. Sharing' = Sharing
  BY <1>1 DEF At, Sharing
<1>6. ~write_entered' /\ readers' = 0
  BY SharedMutexAssumption DEF write_entered, readers
<1>7. readers = 0
  BY <1>2 DEF WordInv, Owning, At
<1>8. \A d \in Coros : pc'[d] \notin EnteredPcs /\ pc'[d] \notin OwningPcs
  BY <1>3, <1>4 DEF At, Entered, EnteredPcs, Owning
<1>9. WordInv'
  BY <1>5, <1>6, <1>7, <1>8 DEF WordInv
<1> QED BY <1>2, <1>3, <1>4, <1>5, <1>9

\* A reader is counted.
LEMMA WordShare ==
  ASSUME TypeOK, TypeOK', WordInv, NEW c \in Coros, NEW b \in PcValues,
         pc' = [pc EXCEPT ![c] = b],
         state_ < max_readers, state_' = state_ + 1,
         pc[c] \in {"rent", "rtry"}, b = "read"
  PROVE  /\ WordInv'
         /\ Entered = {} /\ c \notin Sharing /\ Sharing' = Sharing \cup {c}
         /\ UNCHANGED <<Entered, Owning>>
<1>1. \A d \in Coros : pc'[d] = IF d = c THEN b ELSE pc[d]
  BY DEF TypeOK
<1>2. /\ ~write_entered /\ ~write_entered'
      /\ readers' = readers + 1 /\ state_ = readers
  BY SharedMutexAssumption DEF write_entered, readers, max_readers, TypeOK
<1>3. Entered = {}
  BY <1>2, EnteredIs
<1>4. Entered' = Entered /\ Owning' = Owning
  BY <1>1 DEF At, Entered, Owning, OwningPcs
<1>5. c \notin Sharing /\ Sharing' = Sharing \cup {c}
  BY <1>1 DEF At, Sharing
<1>6. Cardinality(Sharing') = Cardinality(Sharing) + 1
  BY <1>5, CountSharing
<1>7. \A d \in Coros : pc'[d] \notin EnteredPcs /\ pc'[d] \notin OwningPcs
  BY <1>3, <1>4 DEF At, Entered, EnteredPcs, OwningPcs
<1>8. WordInv'
  BY <1>2, <1>6, <1>7 DEF WordInv
<1> QED BY <1>3, <1>4, <1>5, <1>8

\* A shared owner leaves.
LEMMA WordUnshare ==
  ASSUME TypeOK, TypeOK', WordInv, NEW c \in Coros, NEW b \in PcValues,
         pc' = [pc EXCEPT ![c] = b],
         state_' = state_ - 1, pc[c] = "rdec", b = "notify"
  PROVE  /\ WordInv'
         /\ c \in Sharing /\ Sharing' = Sharing \ {c}
         /\ UNCHANGED <<Entered, Owning, write_entered>>
         /\ readers' = readers - 1 /\ readers # 0
<1>1. \A d \in Coros : pc'[d] = IF d = c THEN b ELSE pc[d]
  BY DEF TypeOK
<1>2. c \in Sharing /\ Sharing' = Sharing \ {c}
  BY <1>1 DEF At, Sharing
<1>3. readers # 0
  BY <1>2, EnteredIs
<1>4. (write_entered' <=> write_entered) /\ readers' = readers - 1
  BY <1>3, SharedMutexAssumption DEF write_entered, readers, TypeOK
<1>5. Entered' = Entered /\ Owning' = Owning
  BY <1>1 DEF At, Entered, Owning, OwningPcs
<1>6. Cardinality(Sharing') = Cardinality(Sharing) - 1
  BY <1>2, CountSharing
<1>7. \A d \in Coros : pc[d] \notin OwningPcs /\ pc'[d] \notin OwningPcs
  BY <1>1, <1>3 DEF WordInv, OwningPcs
<1>8. WordInv'
  BY <1>1, <1>4, <1>6, <1>7 DEF WordInv, EnteredPcs
<1> QED BY <1>2, <1>3, <1>4, <1>5, <1>8 DEF write_entered

-----------------------------------------------------------------------------
(***************************************************************************)
(* The gates                                                               *)
(***************************************************************************)

WaitPcs == {"wgate1", "wgate2", "rgate1"}

\* Who waits, by place.
LEMMA Waiting ==
  /\ At(DOMAIN AfterNotify) = At(WaitPcs)
  /\ At(DOMAIN AfterNotify)' = At(WaitPcs)'
BY PcTables DEF WaitPcs, At

\* A coroutine moves on without touching the gates.
LEMMA GatesKeep ==
  ASSUME TypeOK, GatesInv, NEW c \in Coros, NEW b \in PcValues,
         pc' = [pc EXCEPT ![c] = b], UNCHANGED <<gate1, gate2, awaiters>>,
         pc[c] \notin WaitPcs, b \notin WaitPcs
  PROVE  GatesInv'
<1>1. \A d \in Coros : pc'[d] = IF d = c THEN b ELSE pc[d]
  BY DEF TypeOK
<1>2. At(WaitPcs)' = At(WaitPcs)
  BY <1>1 DEF At
<1>3. Range(gate2) \subseteq At(WaitPcs)
  BY Waiting DEF GatesInv
<1>4. \A d \in Range(gate2) : pc'[d] = "wgate2"
  BY <1>1, <1>3 DEF GatesInv, At
<1> QED BY <1>2, <1>4, Waiting DEF GatesInv

\* A coroutine queues itself at one of the gates.
LEMMA GatesPush ==
  ASSUME TypeOK, GatesInv, NEW c \in Coros, NEW b \in WaitPcs,
         pc' = [pc EXCEPT ![c] = b], UNCHANGED awaiters, pc[c] \notin WaitPcs,
         \/ gate1' = <<c>> \o gate1 /\ UNCHANGED gate2
         \/ gate2' = <<c>> \o gate2 /\ UNCHANGED gate1 /\ b = "wgate2"
  PROVE  GatesInv'
<1>1. \A d \in Coros : pc'[d] = IF d = c THEN b ELSE pc[d]
  BY DEF TypeOK
<1>2. At(WaitPcs)' = At(WaitPcs) \cup {c}
  BY <1>1 DEF At
<1>3. /\ Range(gate1) \cup Range(gate2) \cup Range(awaiters) = At(WaitPcs)
      /\ c \notin At(WaitPcs)
  BY Waiting DEF GatesInv, At
<1>4. \A d \in Range(gate2) : pc'[d] = "wgate2"
  BY <1>1, <1>3 DEF GatesInv, At
<1>5. CASE gate1' = <<c>> \o gate1 /\ UNCHANGED gate2
  <2>1. IsInjective(gate1') /\ Range(gate1') = Range(gate1) \cup {c}
    BY <1>3, <1>5, InjectiveCons DEF TypeOK, GatesInv
  <2> QED BY <1>2, <1>3, <1>4, <1>5, <2>1, Waiting DEF GatesInv
<1>6. CASE gate2' = <<c>> \o gate2 /\ UNCHANGED gate1 /\ b = "wgate2"
  <2>1. IsInjective(gate2') /\ Range(gate2') = Range(gate2) \cup {c}
    BY <1>3, <1>6, InjectiveCons DEF TypeOK, GatesInv
  <2>2. \A d \in Range(gate2') : pc'[d] = "wgate2"
    BY <1>1, <1>4, <1>6, <2>1
  <2> QED BY <1>2, <1>3, <1>6, <2>1, <2>2, Waiting DEF GatesInv
<1> QED BY <1>5, <1>6

\* resumeWaiters() resumes an awaiter, which is then in no list.
LEMMA GatesResume ==
  ASSUME TypeOK, GatesInv, awaiters # <<>>, awaiters' = Tail(awaiters),
         UNCHANGED <<gate1, gate2>>,
         pc' = [pc EXCEPT ![Head(awaiters)] = AfterNotify[@]]
  PROVE  /\ GatesInv'
         /\ Head(awaiters) \in Coros
         /\ pc[Head(awaiters)] \in WaitPcs
         /\ AfterNotify[pc[Head(awaiters)]] \in {"wwoken", "wagain", "rwoken"}
         /\ pc' = [pc EXCEPT ![Head(awaiters)] = AfterNotify[pc[Head(awaiters)]]]
<1> DEFINE h == Head(awaiters)
           b == AfterNotify[pc[h]]
<1>1. /\ IsInjective(Tail(awaiters)) /\ h \in Range(awaiters)
      /\ Range(Tail(awaiters)) = Range(awaiters) \ {h}
  BY InjectiveTail DEF TypeOK, GatesInv
<1>2. /\ Range(gate1) \cup Range(gate2) \cup Range(awaiters) = At(WaitPcs)
      /\ h \in At(WaitPcs)
  BY <1>1, Waiting DEF GatesInv
<1>3. h \in Coros /\ pc[h] \in WaitPcs
  BY <1>2 DEF At
<1>4. b \in {"wwoken", "wagain", "rwoken"}
  BY <1>3, PcTables DEF WaitPcs
<1>5. pc' = [pc EXCEPT ![h] = b]
  BY <1>3 DEF TypeOK
<1> HIDE DEF h, b
<1>6. \A d \in Coros : pc'[d] = IF d = h THEN b ELSE pc[d]
  BY <1>5 DEF TypeOK
<1>7. At(WaitPcs)' = At(WaitPcs) \ {h}
  BY <1>4, <1>6 DEF At, WaitPcs
<1>8. Range(awaiters') = Range(awaiters) \ {h} /\ IsInjective(awaiters')
  BY <1>1
<1>9. h \notin Range(gate1) /\ h \notin Range(gate2)
  BY <1>1 DEF GatesInv
<1>10. \A d \in Range(gate2) : pc'[d] = "wgate2"
  BY <1>2, <1>6, <1>9 DEF GatesInv, At
<1>11. GatesInv'
  BY <1>2, <1>7, <1>8, <1>9, <1>10, Waiting DEF GatesInv
<1> QED BY <1>3, <1>4, <1>5, <1>11 DEF h, b

\* A notification takes awaiters out of a gate: all of gate1_, or the first of
\* one gate.
LEMMA GatesNotify ==
  ASSUME TypeOK, TypeOK', GatesInv, NEW c \in Coros, awaiters = <<>>,
         pc[c] \notin WaitPcs, pc' = [pc EXCEPT ![c] = "notify"],
         \/ gate1' = <<>> /\ awaiters' = gate1 /\ UNCHANGED gate2
         \/ UNCHANGED <<gate1, gate2, awaiters>>
         \/ gate1' = Rest(gate1) /\ awaiters' = First(gate1) /\ UNCHANGED gate2
         \/ gate2' = Rest(gate2) /\ awaiters' = First(gate2) /\ UNCHANGED gate1
  PROVE  GatesInv'
<1>1. \A d \in Coros : pc'[d] = IF d = c THEN "notify" ELSE pc[d]
  BY DEF TypeOK
<1>2. At(WaitPcs)' = At(WaitPcs)
  BY <1>1 DEF At, WaitPcs
<1>3. Range(awaiters) = {} /\ Range(gate1) \cup Range(gate2) = At(WaitPcs)
  <2>1. Range(awaiters) = {}
    BY RangeEmpty DEF TypeOK
  <2> QED BY <2>1, Waiting DEF GatesInv
<1>4. \A d \in Range(gate2) : pc'[d] = "wgate2"
  BY <1>1, <1>3 DEF GatesInv, At
<1>5. CASE gate1' = <<>> /\ awaiters' = gate1 /\ UNCHANGED gate2
  <2>1. Range(gate1') = {} /\ IsInjective(gate1')
    BY <1>5, RangeEmpty DEF TypeOK
  <2> QED BY <1>2, <1>3, <1>4, <1>5, <2>1, Waiting DEF GatesInv
<1>6. CASE UNCHANGED <<gate1, gate2, awaiters>>
  BY <1>2, <1>4, <1>6, Waiting DEF GatesInv
<1>7. CASE gate1' = Rest(gate1) /\ awaiters' = First(gate1) /\ UNCHANGED gate2
  <2>1. /\ IsInjective(gate1') /\ IsInjective(awaiters')
        /\ Range(awaiters') \cup Range(gate1') = Range(gate1)
        /\ Range(awaiters') \cap Range(gate1') = {}
    BY <1>7, FirstRest DEF TypeOK, GatesInv
  <2>2. Range(gate2') = Range(gate2)
    BY <1>7
  <2> QED BY <1>2, <1>3, <1>4, <1>7, <2>1, <2>2, Waiting DEF GatesInv
<1>8. CASE gate2' = Rest(gate2) /\ awaiters' = First(gate2) /\ UNCHANGED gate1
  <2>1. /\ IsInjective(gate2') /\ IsInjective(awaiters')
        /\ Range(awaiters') \cup Range(gate2') = Range(gate2)
        /\ Range(awaiters') \cap Range(gate2') = {}
    BY <1>8, FirstRest DEF TypeOK, GatesInv
  <2>2. Range(gate1') = Range(gate1)
    BY <1>8
  <2>3. \A d \in Range(gate2') : pc'[d] = "wgate2"
    BY <1>4, <2>1
  <2> QED BY <1>2, <1>3, <1>8, <2>1, <2>2, <2>3, Waiting DEF GatesInv
<1> QED BY <1>5, <1>6, <1>7, <1>8

-----------------------------------------------------------------------------
(***************************************************************************)
(* Every step keeps the invariant and is a step of the abstract lock, or   *)
(* leaves that alone.                                                      *)
(***************************************************************************)

\* Nothing happens to the abstract lock.
LEMMA RwKeep ==
  ASSUME UNCHANGED <<Sharing, Entered, Owning>>
  PROVE  UNCHANGED Rw!vars
BY DEF Rw!vars, Owning, OwningPcs

\* A step from a place to one of the same classes, with mut_ kept, taken or
\* released, and the gates left alone.
LEMMA LocalStep ==
  ASSUME LockInv, TypeOK', NEW c \in Coros, NEW b \in PcValues,
         pc' = [pc EXCEPT ![c] = b], UNCHANGED lockVars,
         pc[c] \in EnteredPcs <=> b \in EnteredPcs,
         pc[c] \in SharingPcs <=> b \in SharingPcs,
         pc[c] \in OwningPcs <=> b \in OwningPcs,
         pc[c] \notin WaitPcs, b \notin WaitPcs,
         \/ (pc[c] \in InsidePcs <=> b \in InsidePcs)
            /\ UNCHANGED locked /\ pc[c] # "notify"
         \/ /\ pc[c] \notin InsidePcs /\ b \in InsidePcs
            /\ locked = FALSE /\ locked' = TRUE
         \/ /\ pc[c] \in InsidePcs /\ b \notin InsidePcs
            /\ locked' = FALSE
            /\ pc[c] = "notify" => awaiters = <<>>
  PROVE  LockInv' /\ UNCHANGED Rw!vars
<1>1. WordInv' /\ UNCHANGED <<Sharing, Entered, Owning>>
  BY WordKeep DEF LockInv, lockVars
<1>2. GatesInv'
  BY GatesKeep DEF LockInv, lockVars
<1>3. MutInv'
  BY MutMove DEF LockInv, lockVars
<1> QED BY <1>1, <1>2, <1>3, RwKeep DEF LockInv

\* A coroutine releases mut_ and suspends at a gate.
LEMMA SuspendStep ==
  ASSUME LockInv, TypeOK', NEW k \in Cores, NEW c \in Coros,
         NEW a \in InsidePcs \ {"notify"}, NEW b \in WaitPcs, Suspend(k, c, a, b),
         a \in EnteredPcs <=> b \in EnteredPcs, a \notin SharingPcs \cup OwningPcs,
         \/ gate1' = <<c>> \o gate1 /\ UNCHANGED gate2
         \/ gate2' = <<c>> \o gate2 /\ UNCHANGED gate1 /\ b = "wgate2"
  PROVE  LockInv' /\ UNCHANGED Rw!vars
<1>1. /\ pc[c] = a /\ pc' = [pc EXCEPT ![c] = b]
      /\ locked' = FALSE /\ UNCHANGED <<state_, awaiters>>
  BY DEF Suspend, Step
<1>2. /\ b \in PcValues /\ b \notin InsidePcs /\ b \notin SharingPcs
      /\ b \notin OwningPcs /\ a \notin WaitPcs
  BY PcTables DEF WaitPcs, PcValues, InsidePcs, SharingPcs, OwningPcs
<1>3. WordInv' /\ UNCHANGED <<Sharing, Entered, Owning>>
  BY <1>1, <1>2, WordKeep DEF LockInv
<1>4. GatesInv'
  BY <1>1, <1>2, GatesPush DEF LockInv
<1>5. MutInv'
  BY <1>1, <1>2, MutMove DEF LockInv
<1> QED BY <1>3, <1>4, <1>5, RwKeep DEF LockInv

\* A step inside mut_ that changes the word, and releases mut_ or not, but
\* leaves the gates alone.
LEMMA MutAndGates ==
  ASSUME LockInv, NEW c \in Coros, NEW b \in PcValues,
         pc[c] \in InsidePcs \ {"notify"},
         pc' = [pc EXCEPT ![c] = b], UNCHANGED <<gate1, gate2, awaiters>>,
         b \notin WaitPcs,
         \/ b \in InsidePcs /\ UNCHANGED locked
         \/ b \notin InsidePcs /\ locked' = FALSE
  PROVE  MutInv' /\ GatesInv'
<1>1. pc[c] \notin WaitPcs
  BY DEF InsidePcs, WaitPcs
<1>2. GatesInv'
  BY <1>1, GatesKeep DEF LockInv
<1>3. MutInv'
  BY MutMove DEF LockInv
<1> QED BY <1>2, <1>3

\* A step of a coroutine.
LEMMA CoroStepInv ==
  ASSUME LockInv, TypeOK', NEW k \in Cores, NEW c \in Coros, CoroStep(k, c)
  PROVE  LockInv' /\ [Rw!Next]_(Rw!vars)
<1>0. {"after", "write", "read", "notify", "wdrain"} \subseteq PcValues
  BY DEF PcValues, InsidePcs
<1>1. CASE SpinAcquire(k, c)
  <2>1. PICK a \in DOMAIN AfterLock :
               pc[c] = a /\ pc' = [pc EXCEPT ![c] = AfterLock[a]]
    BY <1>1 DEF SpinAcquire
  <2>2. /\ AfterLock[a] \in PcValues /\ AfterLock[a] \in InsidePcs
        /\ a \notin InsidePcs /\ a \notin WaitPcs /\ AfterLock[a] \notin WaitPcs
        /\ a \in EnteredPcs <=> AfterLock[a] \in EnteredPcs
        /\ a \in SharingPcs <=> AfterLock[a] \in SharingPcs
        /\ a \in OwningPcs <=> AfterLock[a] \in OwningPcs
    BY PcTables
    DEF InsidePcs, PcValues, WaitPcs, EnteredPcs, SharingPcs, OwningPcs
  <2>3. locked = FALSE /\ locked' = TRUE /\ UNCHANGED lockVars
    BY <1>1 DEF SpinAcquire, LockInv, TypeOK
  <2> QED BY <2>1, <2>2, <2>3, LocalStep
<1>2. CASE SpinYield(k, c)
  BY <1>2
  DEF SpinYield, lockVars, LockInv, MutInv, WordInv, GatesInv, Rw!vars, At,
      Sharing, Entered, readers, write_entered
<1>3. CASE ResumeWaiter(k, c)
  <2> DEFINE h == Head(awaiters)
             b == AfterNotify[pc[h]]
  <2>1. /\ GatesInv' /\ h \in Coros /\ pc[h] \in WaitPcs
        /\ b \in {"wwoken", "wagain", "rwoken"}
        /\ pc' = [pc EXCEPT ![h] = b]
    BY <1>3, GatesResume DEF ResumeWaiter, LockInv
  <2>2. /\ UNCHANGED <<state_, locked>> /\ awaiters # <<>>
    BY <1>3 DEF ResumeWaiter
  <2>3. pc[h] \in EnteredPcs <=> b \in EnteredPcs
    BY <2>1, PcTables DEF WaitPcs, EnteredPcs
  <2> HIDE DEF h, b
  <2>4. /\ b \in PcValues /\ pc[h] \notin InsidePcs /\ b \notin InsidePcs
        /\ pc[h] \notin SharingPcs /\ b \notin SharingPcs
        /\ pc[h] \notin OwningPcs /\ b \notin OwningPcs
    BY <2>1, PcTables DEF WaitPcs, PcValues, InsidePcs, SharingPcs, OwningPcs
  <2>5. WordInv' /\ UNCHANGED <<Sharing, Entered, Owning>>
    BY <2>1, <2>2, <2>3, <2>4, WordKeep DEF LockInv
  <2>6. pc[h] # "notify"
    BY <2>1 DEF WaitPcs
  <2>7. MutInv'
    BY <2>1, <2>2, <2>4, <2>6, MutMove DEF LockInv
  <2> QED BY <2>1, <2>5, <2>7, RwKeep DEF LockInv
<1>4. CASE NotifyEnd(k, c)
  <2>1. /\ pc[c] = "notify" /\ pc' = [pc EXCEPT ![c] = "after"]
        /\ awaiters = <<>> /\ locked' = FALSE /\ UNCHANGED lockVars
    BY <1>4 DEF NotifyEnd, Step
  <2> QED
    BY <1>0, <2>1, LocalStep
    DEF InsidePcs, WaitPcs, EnteredPcs, SharingPcs, OwningPcs
<1>5. CASE \/ CallLock(k, c) \/ CallLockShared(k, c) \/ NextRound(k, c)
           \/ TaskReturn(k, c) \/ YieldInside(k, c) \/ NoYieldInside(k, c)
  <2>1. UNCHANGED <<lockVars, locked>>
    BY <1>5
    DEF CallLock, CallLockShared, NextRound, TaskReturn, YieldInside,
        NoYieldInside
  <2>2. PICK a, b \in PcValues :
          /\ pc[c] = a /\ pc' = [pc EXCEPT ![c] = b]
          /\ a \notin InsidePcs /\ b \notin InsidePcs
          /\ a \notin WaitPcs /\ b \notin WaitPcs
          /\ a \in EnteredPcs <=> b \in EnteredPcs
          /\ a \in SharingPcs <=> b \in SharingPcs
          /\ a \in OwningPcs <=> b \in OwningPcs
    <3> USE PcTables DEF PcValues, InsidePcs, WaitPcs, EnteredPcs, SharingPcs,
                         OwningPcs
    <3>1. CASE CallLock(k, c) \/ CallLockShared(k, c)
      BY <3>1 DEF CallLock, CallLockShared, Step
    <3>2. CASE NextRound(k, c) \/ TaskReturn(k, c)
      BY <3>2 DEF NextRound, TaskReturn, Step
    <3>3. CASE YieldInside(k, c) \/ NoYieldInside(k, c)
      <4>1. /\ pc[c] \in {"write", "read"}
            /\ pc' = [pc EXCEPT ![c] = AfterUse[pc[c]]]
        BY <3>3 DEF YieldInside, NoYieldInside
      <4>2. pc[c] = "write" => AfterUse[pc[c]] = "wunlock"
        BY PcTables
      <4>3. pc[c] = "read" => AfterUse[pc[c]] = "runlock"
        BY PcTables
      <4> QED BY <4>1, <4>2, <4>3
    <3> QED BY <1>5, <3>1, <3>2, <3>3
  <2>3. a # "notify"
    BY <2>2 DEF InsidePcs
  <2> QED BY <2>1, <2>2, <2>3, LocalStep
<1>6. CASE CallTryLock(k, c) \/ CallTryLockShared(k, c)
  <2>1. /\ pc[c] = "start" /\ locked' = TRUE /\ UNCHANGED lockVars
        /\ \E b \in {"wtry", "rtry"} :
             pc' = [pc EXCEPT ![c] = IF locked THEN "after" ELSE b]
    BY <1>6 DEF CallTryLock, CallTryLockShared, Step
  <2>2. PICK b \in {"wtry", "rtry"} :
               pc' = [pc EXCEPT ![c] = IF locked THEN "after" ELSE b]
    BY <2>1
  <2> USE DEF InsidePcs, WaitPcs, EnteredPcs, SharingPcs, OwningPcs, PcValues
  <2>3. CASE locked
    <3>1. UNCHANGED locked /\ pc' = [pc EXCEPT ![c] = "after"]
      BY <2>1, <2>2, <2>3 DEF LockInv, TypeOK
    <3> QED BY <2>1, <3>1, LocalStep
  <2>4. CASE ~locked
    <3>1. locked = FALSE /\ pc' = [pc EXCEPT ![c] = b]
      BY <2>2, <2>4 DEF LockInv, TypeOK
    <3> QED BY <2>1, <3>1, LocalStep
  <2> QED BY <2>3, <2>4
<1>7. CASE WaitGate1(k, c) \/ WaitGate2(k, c) \/ WaitShared(k, c)
  <2> USE DEF InsidePcs, WaitPcs, EnteredPcs, SharingPcs, OwningPcs
  <2>1. CASE WaitGate1(k, c)
    BY <2>1, SuspendStep DEF WaitGate1
  <2>2. CASE WaitGate2(k, c)
    BY <2>2, SuspendStep DEF WaitGate2
  <2>3. CASE WaitShared(k, c)
    BY <2>3, SuspendStep DEF WaitShared
  <2> QED BY <1>7, <2>1, <2>2, <2>3
<1>8. CASE SetEntered(k, c)
  <2>1. /\ ~write_entered /\ state_' = state_ + write_entered_flag
        /\ pc[c] = "went" /\ pc' = [pc EXCEPT ![c] = "wdrain"]
        /\ UNCHANGED <<gate1, gate2, awaiters, locked>>
    BY <1>8 DEF SetEntered, Step
  <2>2. MutInv' /\ GatesInv'
    BY <1>0, <2>1, MutAndGates DEF InsidePcs, WaitPcs
  <2>3. /\ WordInv' /\ Entered = {} /\ Entered' = {c}
        /\ UNCHANGED <<Sharing, Owning>>
    BY <1>0, <2>1, WordEnter DEF LockInv
  <2>4. Rw!Enter(c)
    BY <2>3 DEF Rw!Enter, Owning, OwningPcs
  <2> QED BY <2>2, <2>3, <2>4 DEF Rw!Next, LockInv
<1>9. CASE Own(k, c)
  <2>1. /\ readers = 0 /\ locked' = FALSE /\ UNCHANGED lockVars
        /\ pc[c] = "wdrain" /\ pc' = [pc EXCEPT ![c] = "write"]
    BY <1>9 DEF Own, Step
  <2>2. MutInv' /\ GatesInv'
    BY <1>0, <2>1, MutAndGates DEF InsidePcs, WaitPcs, lockVars
  <2>3. /\ WordInv' /\ Sharing = {} /\ Entered # {} /\ Owning' # {}
        /\ UNCHANGED <<Sharing, Entered>>
    BY <1>0, <2>1, WordOwn DEF LockInv, lockVars
  <2>4. EnteredOf # None
    BY <2>3, EnteredIs, ReactorAssumption DEF LockInv, Entered, At
  <2>5. Rw!Own
    BY <2>3, <2>4 DEF Rw!Own, Owning, OwningPcs, EnteredOf
  <2> QED BY <2>2, <2>3, <2>5 DEF Rw!Next, LockInv
<1>10. CASE TryOwn(k, c)
  <2>1. CASE state_ = 0
    <3>1. /\ state_' = write_entered_flag /\ locked' = FALSE
          /\ pc[c] = "wtry" /\ pc' = [pc EXCEPT ![c] = "write"]
          /\ UNCHANGED <<gate1, gate2, awaiters>>
      BY <1>10, <2>1 DEF TryOwn, Step
    <3>2. MutInv' /\ GatesInv'
      BY <1>0, <3>1, MutAndGates DEF InsidePcs, WaitPcs
    <3>3. /\ WordInv' /\ Entered = {} /\ Sharing = {} /\ Entered' = {c}
          /\ Owning' # {} /\ UNCHANGED Sharing
      BY <1>0, <2>1, <3>1, WordEnterOwn DEF LockInv
    <3>4. Rw!EnterAndOwn(c)
      BY <3>3 DEF Rw!EnterAndOwn, Owning, OwningPcs
    <3> QED BY <3>2, <3>3, <3>4 DEF Rw!Next, LockInv
  <2>2. CASE state_ # 0
    <3>1. /\ locked' = FALSE /\ UNCHANGED lockVars
          /\ pc[c] = "wtry" /\ pc' = [pc EXCEPT ![c] = "after"]
      BY <1>10, <2>2 DEF TryOwn, Step, lockVars
    <3> QED
      BY <1>0, <3>1, LocalStep
      DEF InsidePcs, WaitPcs, EnteredPcs, SharingPcs, OwningPcs
  <2> QED BY <2>1, <2>2
<1>11. CASE Unlock(k, c)
  <2>1. /\ state_' = 0 /\ UNCHANGED locked
        /\ pc[c] = "wclear" /\ pc' = [pc EXCEPT ![c] = "notify"]
        /\ awaiters' = gate1 /\ gate1' = <<>> /\ UNCHANGED gate2
    BY <1>11 DEF Unlock, Step
  <2>2. awaiters = <<>>
    BY <2>1, NoAwaiters DEF LockInv, InsidePcs
  <2>3. GatesInv'
    BY <2>1, <2>2, GatesNotify DEF LockInv, WaitPcs
  <2>4. MutInv'
    BY <1>0, <2>1, MutMove DEF LockInv, InsidePcs
  <2>5. /\ WordInv' /\ Owning # {} /\ Entered' = {} /\ Owning' = {}
        /\ UNCHANGED Sharing
    BY <1>0, <2>1, WordLeave DEF LockInv
  <2>6. Rw!Unlock
    BY <2>5 DEF Rw!Unlock, Owning, OwningPcs
  <2> QED BY <2>3, <2>4, <2>5, <2>6 DEF Rw!Next, LockInv
<1>12. CASE OwnShared(k, c) \/ (TryOwnShared(k, c) /\ state_ < max_readers)
  <2>1. /\ state_ < max_readers /\ state_' = state_ + 1 /\ locked' = FALSE
        /\ pc[c] \in {"rent", "rtry"} /\ pc' = [pc EXCEPT ![c] = "read"]
        /\ UNCHANGED <<gate1, gate2, awaiters>>
    BY <1>12 DEF OwnShared, TryOwnShared, Step
  <2>2. MutInv' /\ GatesInv'
    BY <1>0, <2>1, MutAndGates DEF InsidePcs, WaitPcs
  <2>3. /\ WordInv' /\ Entered = {} /\ c \notin Sharing
        /\ Sharing' = Sharing \cup {c} /\ UNCHANGED <<Entered, Owning>>
    BY <1>0, <2>1, WordShare DEF LockInv
  <2>4. Rw!LockShared(c)
    BY <2>3 DEF Rw!LockShared, Owning, OwningPcs
  <2> QED BY <2>2, <2>3, <2>4 DEF Rw!Next, LockInv
<1>13. CASE TryOwnShared(k, c) /\ ~(state_ < max_readers)
  <2>1. /\ locked' = FALSE /\ UNCHANGED lockVars
        /\ pc[c] = "rtry" /\ pc' = [pc EXCEPT ![c] = "after"]
    BY <1>13 DEF TryOwnShared, Step, lockVars
  <2> QED
    BY <1>0, <2>1, LocalStep
    DEF InsidePcs, WaitPcs, EnteredPcs, SharingPcs, OwningPcs
<1>14. CASE UnlockShared(k, c)
  <2>1. /\ state_' = state_ - 1 /\ UNCHANGED locked
        /\ pc[c] = "rdec" /\ pc' = [pc EXCEPT ![c] = "notify"]
        /\ \/ UNCHANGED <<gate1, gate2>> /\ awaiters' = <<>>
           \/ gate1' = Rest(gate1) /\ awaiters' = First(gate1) /\ UNCHANGED gate2
           \/ gate2' = Rest(gate2) /\ awaiters' = First(gate2) /\ UNCHANGED gate1
    BY <1>14 DEF UnlockShared, Step
  <2>2. awaiters = <<>>
    BY <2>1, NoAwaiters DEF LockInv, InsidePcs
  <2>3. GatesInv'
    BY <2>1, <2>2, GatesNotify DEF LockInv, WaitPcs
  <2>4. MutInv'
    BY <1>0, <2>1, MutMove DEF LockInv, InsidePcs
  <2>5. /\ WordInv' /\ c \in Sharing /\ Sharing' = Sharing \ {c}
        /\ UNCHANGED <<Entered, Owning>>
    BY <1>0, <2>1, WordUnshare DEF LockInv
  <2>6. Rw!UnlockShared(c)
    BY <2>5 DEF Rw!UnlockShared, Owning, OwningPcs
  <2> QED BY <2>3, <2>4, <2>5, <2>6 DEF Rw!Next, LockInv
<1> QED
  BY <1>1, <1>2, <1>3, <1>4, <1>5, <1>6, <1>7, <1>8, <1>9, <1>10, <1>11,
     <1>12, <1>13, <1>14 DEF CoroStep

\* A step that leaves the lock and the places alone.
LEMMA OtherStep ==
  ASSUME LockInv, TypeOK', UNCHANGED <<lockVars, locked, pc>>
  PROVE  LockInv' /\ UNCHANGED Rw!vars
BY DEF lockVars, LockInv, MutInv, WordInv, GatesInv, Rw!vars, At, Sharing,
       Entered, readers, write_entered

\* Any step.
LEMMA LockStep ==
  ASSUME LockInv, [Next]_vars
  PROVE  LockInv' /\ [Rw!Next]_(Rw!vars)
<1>1. TypeOK'
  BY TypeNext
<1>2. CASE UNCHANGED <<lockVars, locked, pc>>
  BY <1>1, <1>2, OtherStep
<1>3. ASSUME NEW k \in Cores, NEW c \in Coros, CoroStep(k, c)
      PROVE  LockInv' /\ [Rw!Next]_(Rw!vars)
  BY <1>1, <1>3, CoroStepInv
<1> QED
  BY <1>2, <1>3
  DEF Next, CoreStep, SubmitTask, Reactors, Stopped, end_test, vars

\* Nobody has the lock, and nobody waits.
LEMMA LockInvInit == Init => LockInv /\ Rw!Init
<1> SUFFICES ASSUME Init PROVE LockInv /\ Rw!Init
  OBVIOUS
<1>1. TypeOK
  BY TypeInit
<1>2. \A c \in Coros : pc[c] = "start"
  BY DEF Init
<1>3. Sharing = {} /\ Entered = {} /\ At({"write", "wunlock", "wclear"}) = {}
  BY <1>2 DEF Sharing, Entered, At
<1>4. MutInv
  BY <1>2 DEF Init, MutInv, InsidePcs
<1>5. WordInv
  <2>1. ~write_entered /\ readers = 0
    BY SharedMutexAssumption DEF Init, write_entered, readers
  <2>2. Cardinality(Sharing) = 0
    BY <1>3, FS_EmptySet
  <2> QED BY <1>2, <2>1, <2>2 DEF WordInv, EnteredPcs, OwningPcs
<1>6. GatesInv
  <2>1. /\ Range(gate1) = {} /\ Range(gate2) = {} /\ Range(awaiters) = {}
        /\ IsInjective(gate1) /\ IsInjective(gate2) /\ IsInjective(awaiters)
    BY <1>1, RangeEmpty DEF Init, TypeOK
  <2>2. At(WaitPcs) = {}
    BY <1>2 DEF At, WaitPcs
  <2> QED BY <2>1, <2>2, Waiting DEF GatesInv
<1> QED BY <1>1, <1>3, <1>4, <1>5, <1>6 DEF LockInv, Rw!Init

\* The invariant holds in every reachable state.
LEMMA LockInvariance == Spec => []LockInv
<1>1. LockInv /\ [Next]_vars => LockInv'
  BY LockStep
<1> QED BY <1>1, LockInvInit, PTL DEF Spec

\* state_ counts exactly, so that the assertions of unlock() and unlockShared()
\* hold, and every coroutine that waits is at one gate, or about to be resumed.
THEOREM WordExact == Spec => []StateAccounted
<1>1. LockInv => StateAccounted
  <2> SUFFICES ASSUME LockInv PROVE StateAccounted
    OBVIOUS
  <2> USE DEF LockInv
  <2>1. Cardinality(Entered) <= 1
    <3>1. CASE Entered = {}
      <4>1. Cardinality(Entered) = 0
        BY <3>1, FS_EmptySet
      <4> QED BY <4>1
    <3>2. CASE Entered # {}
      <4>1. PICK c \in Entered : Entered = {c}
        BY <3>2, EnteredIs
      <4>2. Cardinality(Entered) = 1
        BY <4>1, FS_Singleton
      <4> QED BY <4>2
    <3> QED BY <3>1, <3>2
  <2>2. /\ gate1 \o gate2 \in Seq(Coros)
        /\ Range(gate1 \o gate2) = Range(gate1) \cup Range(gate2)
        /\ IsInjective(gate1 \o gate2)
    BY InjectiveConcat DEF TypeOK, GatesInv
  <2> DEFINE u == gate1 \o gate2
  <2>3. Blocked = u \o awaiters
    BY DEF Blocked
  <2> HIDE DEF u
  <2>4. /\ u \in Seq(Coros) /\ IsInjective(u)
        /\ Range(u) = Range(gate1) \cup Range(gate2)
        /\ Range(u) \cap Range(awaiters) = {}
    BY <2>2 DEF GatesInv, u
  <2>5. /\ IsInjective(Blocked)
        /\ Range(Blocked) = Range(u) \cup Range(awaiters)
    BY <2>3, <2>4, InjectiveConcat DEF TypeOK, GatesInv
  <2>6. Range(Blocked) = At(DOMAIN AfterNotify)
    BY <2>4, <2>5 DEF GatesInv
  <2> QED BY <2>1, <2>5, <2>6, EnteredIs DEF StateAccounted, WordInv
<1> QED BY <1>1, LockInvariance, PTL

\* The lock implements the abstract readers-writer lock for any number of cores,
\* readers and writers: owners exclude each other, and once a writer has entered
\* nobody overtakes it.
THEOREM SharedMutexIsRwLock == Spec => ImplementsRwLock
<1>1. Init => Rw!Init
  BY LockInvInit
<1>2. LockInv /\ [Next]_vars => [Rw!Next]_(Rw!vars)
  BY LockStep
<1> QED
  BY <1>1, <1>2, LockInvariance, PTL DEF Spec, ImplementsRwLock, Rw!Spec

-----------------------------------------------------------------------------
(***************************************************************************)
(* Wake-ups.  The reader count cannot reach its maximum before every       *)
(* reader shares the lock.                                                 *)
(***************************************************************************)

\* There are not more reader tasks than the word can count: with the code's
\* 2^31 - 1, any number of tasks that a machine can hold.
ReadersFit == Cardinality(Coros \ Writers) <= max_readers

\* Readers stay on the readers' path, writers on theirs.
LEMMA RolesNext ==
  ASSUME LockInv, RolesInv, [Next]_vars
  PROVE  RolesInv'
<1> USE DEF RolesInv, LockInv, TypeOK
<1>1. ASSUME NEW c \in Coros, NEW b, pc' = [pc EXCEPT ![c] = b],
             b \in ReaderPcs => pc[c] \in ReaderPcs \/ c \notin Writers
      PROVE  RolesInv'
  BY <1>1
<1>2. ASSUME NEW k \in Cores, NEW c \in Coros, CoroStep(k, c)
      PROVE  RolesInv'
  <2> USE PcTables DEF ReaderPcs, SharingPcs
  <2>1. CASE SpinAcquire(k, c)
    BY <1>1, <2>1 DEF SpinAcquire
  <2>2. CASE SpinYield(k, c)
    BY <2>2 DEF SpinYield
  <2>3. CASE ResumeWaiter(k, c)
    <3> DEFINE h == Head(awaiters)
               b == AfterNotify[pc[h]]
    <3>1. h \in Coros /\ pc[h] \in WaitPcs /\ pc' = [pc EXCEPT ![h] = b]
      BY <2>3, GatesResume DEF ResumeWaiter
    <3>2. b \in ReaderPcs => pc[h] \in ReaderPcs
      BY <3>1 DEF WaitPcs
    <3> HIDE DEF h, b
    <3> QED BY <1>1, <3>1, <3>2
  <2>4. CASE \/ CallTryLock(k, c) \/ CallTryLockShared(k, c)
             \/ CallLock(k, c) \/ CallLockShared(k, c)
    BY <1>1, <2>4
    DEF CallTryLock, CallTryLockShared, CallLock, CallLockShared, Step
  <2>5. CASE YieldInside(k, c) \/ NoYieldInside(k, c)
    BY <1>1, <2>5 DEF YieldInside, NoYieldInside
  <2>6. CASE WaitGate1(k, c) \/ WaitGate2(k, c) \/ WaitShared(k, c)
    BY <1>1, <2>6 DEF WaitGate1, WaitGate2, WaitShared, Suspend, Step
  <2>7. CASE SetEntered(k, c) \/ Own(k, c) \/ TryOwn(k, c) \/ Unlock(k, c)
    BY <1>1, <2>7 DEF SetEntered, Own, TryOwn, Unlock, Step
  <2>8. CASE OwnShared(k, c) \/ TryOwnShared(k, c) \/ UnlockShared(k, c)
    BY <1>1, <2>8 DEF OwnShared, TryOwnShared, UnlockShared, Step
  <2>9. CASE NotifyEnd(k, c) \/ NextRound(k, c) \/ TaskReturn(k, c)
    BY <1>1, <2>9 DEF NotifyEnd, NextRound, TaskReturn, Step
  <2> QED
    BY <1>2, <2>1, <2>2, <2>3, <2>4, <2>5, <2>6, <2>7, <2>8, <2>9 DEF CoroStep
<1>3. CASE UNCHANGED pc
  BY <1>3
<1> QED
  BY <1>2, <1>3
  DEF Next, CoreStep, SubmitTask, Reactors, Stopped, end_test, vars

\* A reader that finds the word at or above max_readers is behind a writer.
LEMMA FullMeansWriter ==
  ASSUME LockInv, RolesInv, ReadersFit, NEW c \in Coros, pc[c] = "rent",
         state_ >= max_readers
  PROVE  write_entered
<1> SUFFICES ASSUME ~write_entered PROVE FALSE
  OBVIOUS
<1> DEFINE Rs == Coros \ Writers
<1>1. readers >= max_readers
  BY SharedMutexAssumption DEF readers
<1>2. Sharing \subseteq Rs /\ c \in Rs /\ c \notin Sharing
  BY DEF Sharing, At, RolesInv, ReaderPcs, SharingPcs
<1>3. IsFiniteSet(Rs)
  BY SharingFinite
<1>4. Cardinality(Sharing \cup {c}) = Cardinality(Sharing) + 1
  BY <1>2, CountSharing
<1>5. Sharing \cup {c} \subseteq Rs
  BY <1>2
<1> HIDE DEF Rs
<1>6. Cardinality(Sharing \cup {c}) <= Cardinality(Rs)
  BY <1>3, <1>5, FS_Subset
<1>7. Cardinality(Sharing) \in Nat /\ Cardinality(Rs) \in Nat
  <2>1. Sharing \in SUBSET Coros /\ Rs \in SUBSET Coros
    BY DEF Sharing, At, Rs
  <2> QED BY <2>1, SharingFinite
<1>8. readers = Cardinality(Sharing) /\ Cardinality(Rs) <= max_readers
  BY DEF LockInv, WordInv, ReadersFit, Rs
<1>9. max_readers \in Nat
  BY SharedMutexAssumption DEF max_readers
<1> QED BY <1>1, <1>4, <1>6, <1>7, <1>8, <1>9

\* At most the writer that has entered waits at gate2_.
LEMMA Gate2Single ==
  ASSUME LockInv
  PROVE  /\ gate2 # <<>> => write_entered
         /\ Rest(gate2) = <<>>
         /\ \A c \in Coros : pc[c] \in OwningPcs => gate2 = <<>>
<1> USE DEF LockInv
<1>1. /\ Range(gate2) \subseteq Coros
      /\ \A c \in Range(gate2) : pc[c] = "wgate2"
      /\ gate2 # <<>> <=> Range(gate2) # {}
  BY RangeEmpty DEF GatesInv, TypeOK
<1>2. gate2 # <<>> => write_entered
  BY <1>1 DEF WordInv, EnteredPcs
<1>3. \A c \in Coros : pc[c] \in OwningPcs => gate2 = <<>>
  <2> SUFFICES ASSUME NEW c \in Coros, pc[c] \in OwningPcs, gate2 # <<>>
               PROVE  FALSE
    OBVIOUS
  <2>1. PICK d \in Range(gate2) : d \in Coros /\ pc[d] = "wgate2"
    BY <1>1
  <2>2. c = d
    BY <2>1 DEF WordInv, EnteredPcs, OwningPcs
  <2> QED BY <2>1, <2>2 DEF OwningPcs
<1>4. Rest(gate2) = <<>>
  <2>1. CASE gate2 = <<>>
    BY <2>1 DEF Rest
  <2>2. CASE gate2 # <<>>
    <3>1. /\ Rest(gate2) = Tail(gate2) /\ Tail(gate2) \in Seq(Coros)
          /\ Head(gate2) \in Range(gate2)
          /\ Range(Tail(gate2)) = Range(gate2) \ {Head(gate2)}
      BY <2>2, InjectiveTail, HeadTailProperties DEF Rest, TypeOK, GatesInv
    <3>2. \A c, d \in Range(gate2) : c = d
      BY <1>1 DEF WordInv, EnteredPcs
    <3>3. Range(Tail(gate2)) = {}
      BY <3>1, <3>2
    <3> QED BY <3>1, <3>3, RangeEmpty
  <2> QED BY <2>1, <2>2
<1> QED BY <1>2, <1>3, <1>4

\* A step keeps the reasons for waiting.
LEMMA WaitNext ==
  ASSUME LockInv, WaitInv, ReadersFit, [Next]_vars
  PROVE  WaitInv'
<1> DEFINE Reasons == /\ gate1 # <<>> => write_entered
                      /\ gate2 # <<>> => readers # 0
<1> USE DEF lockVars
<1>1. CASE UNCHANGED <<state_, gate1, gate2>>
  BY <1>1, RolesNext DEF WaitInv, readers, write_entered
<1>2. ASSUME NEW k \in Cores, NEW c \in Coros, CoroStep(k, c)
      PROVE  Reasons'
  <2>0. LockInv' /\ TypeOK /\ TypeOK'
    BY LockStep DEF LockInv
  <2>1. CASE WaitGate1(k, c) \/ WaitShared(k, c)
    <3>1. write_entered
      BY <2>1, FullMeansWriter DEF WaitGate1, WaitShared, WaitInv, Suspend, Step
    <3> QED
      BY <2>1, <3>1
      DEF WaitGate1, WaitShared, Suspend, WaitInv, write_entered, readers
  <2>2. CASE WaitGate2(k, c)
    BY <2>2 DEF WaitGate2, Suspend, WaitInv, write_entered, readers
  <2>3. CASE SetEntered(k, c)
    <3>1. write_entered' /\ readers' = readers
      BY <2>0, <2>3, SharedMutexAssumption
      DEF SetEntered, write_entered, readers, TypeOK
    <3> QED BY <2>3, <3>1 DEF SetEntered, WaitInv
  <2>4. CASE TryOwn(k, c)
    <3>1. CASE state_ = 0
      <4>1. readers = 0 /\ write_entered'
        BY <2>4, <3>1, SharedMutexAssumption
        DEF TryOwn, write_entered, readers
      <4> QED BY <2>4, <4>1 DEF TryOwn, WaitInv
    <3>2. CASE state_ # 0
      BY <2>4, <3>2 DEF TryOwn, WaitInv, write_entered, readers
    <3> QED BY <3>1, <3>2
  <2>5. CASE OwnShared(k, c) \/ TryOwnShared(k, c)
    <3>1. CASE state_ < max_readers
      <4>1. state_ \in Nat /\ state_' = state_ + 1
        BY <2>0, <2>5, <3>1, SharedMutexAssumption
        DEF OwnShared, TryOwnShared, TypeOK
      <4>2. ~write_entered /\ readers' = readers + 1 /\ readers \in Nat
        BY <3>1, <4>1, SharedMutexAssumption
        DEF write_entered, readers, max_readers
      <4> QED BY <2>5, <4>2 DEF OwnShared, TryOwnShared, WaitInv
    <3>2. CASE ~(state_ < max_readers)
      BY <2>5, <3>2
      DEF OwnShared, TryOwnShared, WaitInv, write_entered, readers
    <3> QED BY <3>1, <3>2
  <2>6. CASE Unlock(k, c)
    <3>1. gate2 = <<>>
      BY <2>6, Gate2Single DEF Unlock, Step, OwningPcs
    <3> QED BY <2>6, <3>1 DEF Unlock
  <2>7. CASE UnlockShared(k, c)
    <3> DEFINE last == write_entered /\ readers = 1
    <3>1. /\ (write_entered' <=> write_entered)
          /\ readers' = readers - 1 /\ readers # 0
      <4>1. /\ state_' = state_ - 1 /\ pc[c] = "rdec" /\ "notify" \in PcValues
            /\ pc' = [pc EXCEPT ![c] = "notify"]
        BY <2>7 DEF UnlockShared, Step, PcValues, InsidePcs
      <4> QED BY <2>0, <4>1, WordUnshare DEF LockInv
    <3>2. readers \in Nat
      BY <2>0, WordFields, SharedMutexAssumption DEF max_readers
    <3>3. gate1' # <<>> => write_entered'
      <4>1. gate1' # <<>> => gate1 # <<>>
        BY <2>7 DEF UnlockShared, Rest
      <4> QED BY <3>1, <4>1 DEF WaitInv
    <3>4. gate2' # <<>> => readers' # 0
      <4>1. CASE last
        <5>1. gate2' = <<>>
          BY <2>7, <4>1, Gate2Single DEF UnlockShared
        <5> QED BY <5>1
      <4>2. CASE ~last
        <5>1. gate2' = gate2
          BY <2>7, <4>2 DEF UnlockShared
        <5> QED BY <3>1, <3>2, <4>2, <5>1, Gate2Single
      <4> QED BY <4>1, <4>2
    <3> QED BY <3>3, <3>4
  <2>8. CASE UNCHANGED <<state_, gate1, gate2>>
    BY <2>8 DEF WaitInv, readers, write_entered
  <2> QED
    BY <1>2, <2>1, <2>2, <2>3, <2>4, <2>5, <2>6, <2>7, <2>8
    DEF CoroStep, SpinAcquire, SpinYield, ResumeWaiter, NotifyEnd, CallLock,
        CallTryLock, Own, CallLockShared, CallTryLockShared, YieldInside,
        NoYieldInside, NextRound, TaskReturn
<1> QED
  BY <1>1, <1>2, RolesNext
  DEF Next, CoreStep, SubmitTask, Reactors, Stopped, end_test, vars, WaitInv

\* No wake-up is lost, whoever tries, spins, notifies or suspends when, as long
\* as the reader tasks fit the count: nobody waits at gate1_ but behind a writer,
\* nobody at gate2_ but for readers.
THEOREM NoWakeUpLost ==
  ASSUME ReadersFit
  PROVE  Spec => []WakeUpOwed
<1>1. Init => WaitInv
  BY DEF Init, WaitInv, RolesInv, ReaderPcs, SharingPcs
<1>2. LockInv /\ WaitInv /\ [Next]_vars => WaitInv'
  BY WaitNext
<1>3. LockInv /\ WaitInv => WakeUpOwed
  <2> SUFFICES ASSUME LockInv, WaitInv PROVE WakeUpOwed
    OBVIOUS
  <2>1. write_entered => state_ >= max_readers
    BY SharedMutexAssumption DEF write_entered, max_readers, LockInv, TypeOK
  <2> QED BY <2>1 DEF WaitInv, WakeUpOwed
<1> QED
  BY <1>1, <1>2, <1>3, LockInvariance, PTL DEF Spec

=============================================================================
