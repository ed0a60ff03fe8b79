--------------------------- MODULE ServiceProofs ---------------------------
(***************************************************************************)
(* Proofs about module Service.  Each core has one retry slot, so its      *)
(* awaits are answered exactly as long as no two of its requests can be    *)
(* without a bdev_io at the same time: at most PoolSize + 1 tasks per      *)
(* core, and no -ENOMEM for a retry.  Under that assumption, for any       *)
(* number of cores, tasks and requests, every awaiting coroutine is        *)
(* resumed once, with the answer to its own request.                       *)
(***************************************************************************)
EXTENDS Service, SequenceTheorems, FiniteSetTheorems, TLAPS

OfCore(k) == {c \in Coros : Home(c) = k}

\* No two tasks of a core can be without a bdev_io at the same time, and a
\* retry finds the bdev_io that was freed for it.
SlotSuffices ==
  /\ RetryMayFail = FALSE
  /\ \A k \in Cores : Cardinality(OfCore(k)) <= PoolSize + 1

\* The tasks and the completion callbacks on a stack.
CoOf(s) == {c \in Coros : \E n \in 1 .. Len(s) : s[n] = Coroutine(c)}
CbOf(s) == {c \in Coros : \E n \in 1 .. Len(s) : s[n] = CompleteCb(c)}

\* A core runs a task or a completion callback, or a task that the retry inside
\* a completion callback has resumed.
StackShape(s) ==
  \/ s = <<>>
  \/ \E c \in Coros : s = <<Coroutine(c)>> \/ s = <<CompleteCb(c)>>
  \/ \E c, d \in Coros : s = <<Coroutine(d), CompleteCb(c)>>

\* A task runs exactly on its core's stack.
RunsHome ==
  \A k \in Cores :
    /\ StackShape(stack[k])
    /\ \A c \in Coros : c \in CoOf(stack[k]) <=> Home(c) = k /\ pc[c] = "run"

\* An I/O or a callback belongs to a coroutine of its core that awaits it.
Pending(k, c) == inflight[k][c] = 1 \/ c \in CbOf(stack[k])

IoPlaced ==
  \A k \in Cores, c \in Coros :
    /\ inflight[k][c] \in {0, 1}
    /\ inflight[k][c] = 1 => c \notin CbOf(stack[k])
    /\ Pending(k, c) => Home(c) = k /\ pc[c] = "await"

\* The slot in use holds the request of a coroutine that awaits nothing else.
Waits(k, c) == waitq[k] = "one" /\ retry_contexts[k].res = c

Queued(k, d) ==
  /\ retry_contexts[k].res = d
  /\ Home(d) = k /\ pc[d] = "await" /\ ~Pending(k, d)
  /\ retry_contexts[k].fn = RetryFn(op[d])

SlotPlaced ==
  \A k \in Cores :
    /\ waitq[k] # "loop"
    /\ waitq[k] = "one" => \E d \in Coros : Queued(k, d)

\* Nobody awaits what will not come.
AwaitsAnswered ==
  \A c \in Coros : pc[c] = "await" => Pending(Home(c), c) \/ Waits(Home(c), c)

\* The bdev_ios that are not free are in flight.
InFlight(k) == {c \in Coros : inflight[k][c] = 1}

PoolExact == \A k \in Cores : free[k] + Cardinality(InFlight(k)) = PoolSize

\* A coroutine that runs has the result of its last request.
ResultThere ==
  \A c \in Coros :
    /\ pc[c] = "ready" => requests[c] = 0
    /\ pc[c] = "run" /\ requests[c] > 0 => res[c] # "none"

\* The inductive invariant.
ServiceInv ==
  /\ TypeOK /\ RunsHome /\ IoPlaced /\ SlotPlaced /\ AwaitsAnswered
  /\ PoolExact /\ ResultThere

-----------------------------------------------------------------------------
(***************************************************************************)
(* Stacks.                                                                 *)
(***************************************************************************)
\* Stack s with task d resumed on top of it.
Above(d, s) == <<Coroutine(d)>> \o s

Frames == [of : {"coroutine", "spdk_io_complete_cb"}, arg : Coros]

\* Every task has a core, and there are finitely many tasks.
LEMMA Homes ==
  /\ \A c \in Coros : Home(c) \in Cores /\ c # None
  /\ IsFiniteSet(Coros)
<1>1. \A c \in Coros : Home(c) \in Cores /\ c # None
  BY ServiceAssumption DEF Coros, Cores, Home
<1>2. IsFiniteSet(Coros)
  BY FS_Interval, ServiceAssumption DEF Coros
<1> QED BY <1>1, <1>2

\* Frames differ in what they are or in whose they are.
LEMMA FramesDiffer ==
  ASSUME NEW c \in Coros, NEW d \in Coros
  PROVE  /\ Coroutine(c) \in Frames /\ CompleteCb(c) \in Frames
         /\ Coroutine(c) # CompleteCb(d)
         /\ Coroutine(c) = Coroutine(d) => c = d
         /\ CompleteCb(c) = CompleteCb(d) => c = d
BY DEF Coroutine, CompleteCb, Frames

\* The tasks and callbacks on stacks of every shape.
LEMMA ShapeEmpty ==
  /\ StackShape(<<>>) /\ <<>> \in Seq(Frames)
  /\ CoOf(<<>>) = {} /\ CbOf(<<>>) = {}
BY DEF StackShape, CoOf, CbOf

\* The stack of a reactor that runs a task.
LEMMA ShapeTask ==
  ASSUME NEW c \in Coros
  PROVE  /\ StackShape(<<Coroutine(c)>>) /\ <<Coroutine(c)>> \in Seq(Frames)
         /\ CoOf(<<Coroutine(c)>>) = {c} /\ CbOf(<<Coroutine(c)>>) = {}
<1> DEFINE s == <<Coroutine(c)>>
<1>1. s \in Seq(Frames) /\ Len(s) = 1 /\ s[1] = Coroutine(c)
  BY FramesDiffer
<1>2. StackShape(s)
  BY DEF StackShape
<1>3. 1 .. 1 = {1}
  OBVIOUS
<1> HIDE DEF s
<1>4. CoOf(s) = {c} /\ CbOf(s) = {}
  BY <1>1, <1>3, FramesDiffer DEF CoOf, CbOf
<1> QED BY <1>1, <1>2, <1>4 DEF s

\* The stack of a reactor that runs a completion callback.
LEMMA ShapeCallback ==
  ASSUME NEW c \in Coros
  PROVE  /\ StackShape(<<CompleteCb(c)>>) /\ <<CompleteCb(c)>> \in Seq(Frames)
         /\ CoOf(<<CompleteCb(c)>>) = {} /\ CbOf(<<CompleteCb(c)>>) = {c}
<1> DEFINE s == <<CompleteCb(c)>>
<1>1. s \in Seq(Frames) /\ Len(s) = 1 /\ s[1] = CompleteCb(c)
  BY FramesDiffer
<1>2. StackShape(s)
  BY DEF StackShape
<1>3. 1 .. 1 = {1}
  OBVIOUS
<1> HIDE DEF s
<1>4. CoOf(s) = {} /\ CbOf(s) = {c}
  BY <1>1, <1>3, FramesDiffer DEF CoOf, CbOf
<1> QED BY <1>1, <1>2, <1>4 DEF s

\* The stack after a retry that failed has resumed its task inside a callback.
LEMMA ShapeNested ==
  ASSUME NEW c \in Coros, NEW d \in Coros
  PROVE  LET s == <<Coroutine(d), CompleteCb(c)>>
         IN  /\ StackShape(s) /\ s \in Seq(Frames)
             /\ CoOf(s) = {d} /\ CbOf(s) = {c}
<1> DEFINE s == <<Coroutine(d), CompleteCb(c)>>
<1>1. /\ s \in Seq(Frames) /\ Len(s) = 2
      /\ s[1] = Coroutine(d) /\ s[2] = CompleteCb(c)
  BY FramesDiffer
<1>2. StackShape(s)
  BY DEF StackShape
<1>3. 1 .. 2 = {1, 2}
  OBVIOUS
<1> HIDE DEF s
<1>4. CoOf(s) = {d} /\ CbOf(s) = {c}
  BY <1>1, <1>3, FramesDiffer DEF CoOf, CbOf
<1> QED BY <1>1, <1>2, <1>4 DEF s

\* A frame on top of one other or of none.
LEMMA Stacked ==
  ASSUME NEW a \in Frames, NEW b \in Frames
  PROVE  <<a>> \o <<b>> = <<a, b>> /\ <<a>> \o <<>> = <<a>>
<1> DEFINE t == <<a>> \o <<b>>
           u == <<a, b>>
<1>1. /\ <<a>> \in Seq(Frames) /\ Len(<<a>>) = 1 /\ <<a>>[1] = a
      /\ <<b>> \in Seq(Frames) /\ Len(<<b>>) = 1 /\ <<b>>[1] = b
  OBVIOUS
<1>2. t \in Seq(Frames) /\ Len(t) = 2 /\ t[1] = a /\ t[2] = b
  BY <1>1, ConcatProperties
<1>3. u \in Seq(Frames) /\ Len(u) = 2 /\ u[1] = a /\ u[2] = b
  OBVIOUS
<1>4. 1 .. 2 = {1, 2}
  OBVIOUS
<1>5. t = u
  <2> HIDE DEF t, u
  <2> QED BY <1>2, <1>3, <1>4, SeqEqual
<1>6. <<a>> \o <<>> = <<a>>
  BY <1>1, ConcatEmptySeq
<1> QED BY <1>5, <1>6

\* A task that suspends or returns leaves the callback below it.
LEMMA TaskLeaves ==
  ASSUME NEW s, StackShape(s), NEW c \in Coros, s # <<>>, Head(s) = Coroutine(c)
  PROVE  /\ StackShape(Tail(s)) /\ Tail(s) \in Seq(Frames)
         /\ CoOf(s) = {c} /\ CoOf(Tail(s)) = {} /\ CbOf(Tail(s)) = CbOf(s)
<1>1. CASE \E d \in Coros : s = <<Coroutine(d)>>
  <2> PICK d \in Coros : s = <<Coroutine(d)>>
    BY <1>1
  <2>1. Head(s) = Coroutine(d) /\ Tail(s) = <<>>
    OBVIOUS
  <2>2. d = c
    BY <2>1, FramesDiffer
  <2> QED BY <2>1, <2>2, ShapeEmpty, ShapeTask
<1>2. CASE \E d \in Coros : s = <<CompleteCb(d)>>
  <2> PICK d \in Coros : s = <<CompleteCb(d)>>
    BY <1>2
  <2>1. Head(s) = CompleteCb(d)
    OBVIOUS
  <2> QED BY <2>1, FramesDiffer
<1>3. CASE \E e, d \in Coros : s = <<Coroutine(d), CompleteCb(e)>>
  <2> PICK e \in Coros, d \in Coros : s = <<Coroutine(d), CompleteCb(e)>>
    BY <1>3
  <2>1. Head(s) = Coroutine(d) /\ Tail(s) = <<CompleteCb(e)>>
    OBVIOUS
  <2>2. d = c
    BY <2>1, FramesDiffer
  <2> QED BY <2>1, <2>2, ShapeNested, ShapeCallback
<1> QED BY <1>1, <1>2, <1>3 DEF StackShape

\* A callback runs alone; it resumes a task above itself or in its own place.
LEMMA CallbackResumes ==
  ASSUME NEW s, StackShape(s), NEW c \in Coros, s # <<>>, Head(s) = CompleteCb(c),
         NEW d \in Coros
  PROVE  /\ CoOf(s) = {} /\ CbOf(s) = {c}
         /\ LET t == Above(d, s)
            IN  StackShape(t) /\ t \in Seq(Frames) /\ CoOf(t) = {d} /\ CbOf(t) = {c}
         /\ LET t == Above(d, Tail(s))
            IN  StackShape(t) /\ t \in Seq(Frames) /\ CoOf(t) = {d} /\ CbOf(t) = {}
<1>1. CASE \E e \in Coros : s = <<Coroutine(e)>>
  <2> PICK e \in Coros : s = <<Coroutine(e)>>
    BY <1>1
  <2>1. Head(s) = Coroutine(e)
    OBVIOUS
  <2> QED BY <2>1, FramesDiffer
<1>2. CASE \E e \in Coros : s = <<CompleteCb(e)>>
  <2> PICK e \in Coros : s = <<CompleteCb(e)>>
    BY <1>2
  <2>1. Head(s) = CompleteCb(e)
    OBVIOUS
  <2>2. e = c
    BY <2>1, FramesDiffer
  <2>3. Tail(s) = <<>>
    OBVIOUS
  <2>4. Coroutine(d) \in Frames /\ CompleteCb(e) \in Frames
    BY FramesDiffer
  <2>5. <<Coroutine(d)>> \o <<CompleteCb(e)>> = <<Coroutine(d), CompleteCb(e)>>
    BY <2>4, Stacked
  <2>6. <<Coroutine(d)>> \o <<>> = <<Coroutine(d)>>
    BY <2>4, Stacked
  <2>7. CoOf(s) = {} /\ CbOf(s) = {c}
    BY <2>2, ShapeCallback
  <2>8. LET t == Above(d, s)
        IN  StackShape(t) /\ t \in Seq(Frames) /\ CoOf(t) = {d} /\ CbOf(t) = {c}
    <3> DEFINE u == <<Coroutine(d), CompleteCb(e)>>
    <3>1. StackShape(u) /\ u \in Seq(Frames) /\ CoOf(u) = {d} /\ CbOf(u) = {e}
      BY ShapeNested
    <3> HIDE DEF u
    <3>2. Above(d, s) = u
      BY <2>5 DEF u, Above
    <3> QED BY <2>2, <3>1, <3>2
  <2>9. LET t == Above(d, Tail(s))
        IN  StackShape(t) /\ t \in Seq(Frames) /\ CoOf(t) = {d} /\ CbOf(t) = {}
    BY <2>3, <2>6, ShapeTask DEF Above
  <2> QED BY <2>7, <2>8, <2>9
<1>3. CASE \E e, f \in Coros : s = <<Coroutine(f), CompleteCb(e)>>
  <2> PICK e \in Coros, f \in Coros : s = <<Coroutine(f), CompleteCb(e)>>
    BY <1>3
  <2>1. Head(s) = Coroutine(f)
    OBVIOUS
  <2> QED BY <2>1, FramesDiffer
<1> QED BY <1>1, <1>2, <1>3 DEF StackShape

\* A callback is on a stack at most once.
LEMMA CallbackCount ==
  ASSUME NEW s, StackShape(s), NEW c \in Coros
  PROVE  Cardinality({n \in 1 .. Len(s) : s[n] = CompleteCb(c)})
           = IF c \in CbOf(s) THEN 1 ELSE 0
<1> DEFINE N == {n \in 1 .. Len(s) : s[n] = CompleteCb(c)}
<1>1. c \in CbOf(s) <=> N # {}
  BY DEF CbOf
<1>2. \A m, n \in N : m = n
  <2>1. CASE s = <<>>
    BY <2>1
  <2>2. CASE Len(s) = 1
    BY <2>2
  <2>3. CASE \E e, d \in Coros : s = <<Coroutine(d), CompleteCb(e)>>
    <3> PICK e \in Coros, d \in Coros : s = <<Coroutine(d), CompleteCb(e)>>
      BY <2>3
    <3>1. s[1] = Coroutine(d) /\ Len(s) = 2
      OBVIOUS
    <3>2. s[1] # CompleteCb(c)
      BY <3>1, FramesDiffer
    <3> QED BY <3>1, <3>2
  <2>4. (\E e \in Coros : s = <<Coroutine(e)>> \/ s = <<CompleteCb(e)>>) => Len(s) = 1
    OBVIOUS
  <2> QED BY <2>1, <2>2, <2>3, <2>4 DEF StackShape
<1> HIDE DEF N
<1>3. CASE N = {}
  BY <1>1, <1>3, FS_EmptySet DEF N
<1>4. CASE N # {}
  <2> PICK n \in N : TRUE
    BY <1>4
  <2>1. N = {n}
    BY <1>2
  <2> QED BY <1>1, <2>1, FS_Singleton DEF N
<1> QED BY <1>3, <1>4

-----------------------------------------------------------------------------
(***************************************************************************)
(* The pool.                                                               *)
(***************************************************************************)

\* A submission that is accepted takes a bdev_io.
LEMMA SubmitCounts ==
  ASSUME TypeOK, IoPlaced, PoolExact, NEW k \in Cores, NEW c \in Coros,
         inflight[k][c] = 0, free[k] > 0, spdk_bdev_submit(k, c, "0")
  PROVE  /\ free' \in [Cores -> 0 .. PoolSize]
         /\ inflight' \in [Cores -> [Coros -> Nat]]
         /\ PoolExact'
         /\ \A j \in Cores, d \in Coros :
              inflight'[j][d] = IF j = k /\ d = c THEN 1 ELSE inflight[j][d]
<1>1. /\ free' = [free EXCEPT ![k] = @ - 1]
      /\ inflight' = [inflight EXCEPT ![k][c] = @ + 1]
  BY DEF spdk_bdev_submit
<1>2. /\ free \in [Cores -> 0 .. PoolSize]
      /\ inflight \in [Cores -> [Coros -> Nat]] /\ PoolSize \in Nat
  BY ServiceAssumption DEF TypeOK
<1>3. free' \in [Cores -> 0 .. PoolSize] /\ inflight' \in [Cores -> [Coros -> Nat]]
  BY <1>1, <1>2
<1>4. \A j \in Cores, d \in Coros :
        inflight'[j][d] = IF j = k /\ d = c THEN 1 ELSE inflight[j][d]
  BY <1>1, <1>2
<1>5. /\ InFlight(k)' = InFlight(k) \cup {c} /\ c \notin InFlight(k)
      /\ \A j \in Cores : j # k => InFlight(j)' = InFlight(j)
  BY <1>4 DEF InFlight
<1>6. IsFiniteSet(InFlight(k))
  BY Homes, FS_Subset DEF InFlight
<1>7. Cardinality(InFlight(k)') = Cardinality(InFlight(k)) + 1
  BY <1>5, <1>6, FS_AddElement
<1>8. Cardinality(InFlight(k)) \in Nat
  BY <1>6, FS_CardinalityType
<1>9. PoolExact'
  <2> SUFFICES ASSUME NEW j \in Cores
               PROVE  free'[j] + Cardinality(InFlight(j)') = PoolSize
    BY DEF PoolExact
  <2>1. free[j] + Cardinality(InFlight(j)) = PoolSize
    BY DEF PoolExact
  <2>2. CASE j = k
    <3>1. free'[k] = free[k] - 1 /\ free[k] \in Nat
      BY <1>1, <1>2
    <3> QED BY <1>2, <1>7, <1>8, <2>1, <2>2, <3>1
  <2>3. CASE j # k
    BY <1>1, <1>2, <1>5, <2>1, <2>3
  <2> QED BY <2>2, <2>3
<1> QED BY <1>3, <1>4, <1>9

\* A completed I/O gives its bdev_io back.
LEMMA CompleteCounts ==
  ASSUME TypeOK, IoPlaced, PoolExact, NEW k \in Cores, NEW c \in Coros, Complete(k, c)
  PROVE  /\ free' \in [Cores -> 0 .. PoolSize]
         /\ inflight' \in [Cores -> [Coros -> Nat]]
         /\ PoolExact'
         /\ inflight[k][c] = 1
         /\ \A j \in Cores, d \in Coros :
              inflight'[j][d] = IF j = k /\ d = c THEN 0 ELSE inflight[j][d]
<1>1. /\ free' = [free EXCEPT ![k] = @ + 1]
      /\ inflight' = [inflight EXCEPT ![k][c] = @ - 1]
      /\ inflight[k][c] > 0
  BY DEF Complete
<1>2. /\ free \in [Cores -> 0 .. PoolSize]
      /\ inflight \in [Cores -> [Coros -> Nat]] /\ PoolSize \in Nat
  BY ServiceAssumption DEF TypeOK
<1>3. inflight[k][c] = 1
  BY <1>1, <1>2 DEF IoPlaced
<1>4. inflight' \in [Cores -> [Coros -> Nat]]
  BY <1>1, <1>2, <1>3
<1>5. \A j \in Cores, d \in Coros :
        inflight'[j][d] = IF j = k /\ d = c THEN 0 ELSE inflight[j][d]
  BY <1>1, <1>2, <1>3
<1>6. /\ InFlight(k)' = InFlight(k) \ {c} /\ c \in InFlight(k)
      /\ \A j \in Cores : j # k => InFlight(j)' = InFlight(j)
  BY <1>3, <1>5 DEF InFlight
<1>7. IsFiniteSet(InFlight(k))
  BY Homes, FS_Subset DEF InFlight
<1>8. /\ Cardinality(InFlight(k)') = Cardinality(InFlight(k)) - 1
      /\ Cardinality(InFlight(k)) \in Nat /\ Cardinality(InFlight(k)') \in Nat
  BY <1>6, <1>7, FS_RemoveElement, FS_CardinalityType
<1>9. free[k] + Cardinality(InFlight(k)) = PoolSize
  BY DEF PoolExact
<1>10. free' \in [Cores -> 0 .. PoolSize]
  <2>1. free[k] + 1 \in 0 .. PoolSize
    BY <1>2, <1>8, <1>9
  <2> QED BY <1>1, <1>2, <2>1
<1>11. PoolExact'
  <2> SUFFICES ASSUME NEW j \in Cores
               PROVE  free'[j] + Cardinality(InFlight(j)') = PoolSize
    BY DEF PoolExact
  <2>1. free[j] + Cardinality(InFlight(j)) = PoolSize
    BY DEF PoolExact
  <2>2. CASE j = k
    BY <1>1, <1>2, <1>8, <1>9, <2>2
  <2>3. CASE j # k
    BY <1>1, <1>2, <1>6, <2>1, <2>3
  <2> QED BY <2>2, <2>3
<1> QED BY <1>3, <1>4, <1>5, <1>10, <1>11

\* Steps that do not touch the pool keep its account.
LEMMA PoolKept ==
  ASSUME PoolExact, UNCHANGED <<free, inflight>>
  PROVE  PoolExact'
BY DEF PoolExact, InFlight

\* When a task of core k runs and no bdev_io is free, nobody waits for one: the
\* tasks with an I/O in flight, the one that waits and the one that runs would
\* be PoolSize + 2 tasks of the core.
LEMMA SlotFree ==
  ASSUME SlotSuffices, TypeOK, IoPlaced, SlotPlaced, PoolExact,
         NEW k \in Cores, NEW c \in Coros, Home(c) = k, pc[c] = "run", free[k] = 0
  PROVE  waitq[k] = "empty"
<1> SUFFICES ASSUME waitq[k] = "one" PROVE FALSE
  BY DEF TypeOK, SlotPlaced
<1> DEFINE F == InFlight(k)
<1>1. PICK d \in Coros : Queued(k, d)
  BY DEF SlotPlaced
<1>2. inflight[k][c] # 1
  BY DEF IoPlaced, Pending
<1>3. IsFiniteSet(F) /\ IsFiniteSet(OfCore(k))
  BY Homes, FS_Subset DEF InFlight, OfCore
<1>4. PoolSize \in Nat /\ Cardinality(F) = PoolSize
  <2>1. free[k] + Cardinality(F) = PoolSize
    BY DEF PoolExact
  <2>2. Cardinality(F) \in Nat
    BY <1>3, FS_CardinalityType
  <2> QED BY <2>1, <2>2, ServiceAssumption
<1>5. d \notin F /\ c \notin F \cup {d}
  BY <1>1, <1>2 DEF InFlight, Queued, Pending
<1>6. F \cup {d} \cup {c} \subseteq OfCore(k)
  BY <1>1 DEF InFlight, OfCore, IoPlaced, Pending, Queued
<1> HIDE DEF F
<1> DEFINE G == F \cup {d}
<1>7. IsFiniteSet(G) /\ Cardinality(G) = PoolSize + 1 /\ c \notin G
  BY <1>3, <1>4, <1>5, FS_AddElement
<1>8. Cardinality(G \cup {c}) <= Cardinality(OfCore(k))
  BY <1>3, <1>6, FS_Subset
<1> HIDE DEF G
<1>9. Cardinality(G \cup {c}) = (PoolSize + 1) + 1
  <2>1. Cardinality(G \cup {c}) = Cardinality(G) + 1
    BY <1>7, FS_AddElement
  <2> QED BY <1>7, <2>1
<1>10. Cardinality(OfCore(k)) \in Nat /\ Cardinality(OfCore(k)) <= PoolSize + 1
  BY <1>3, FS_CardinalityType DEF SlotSuffices
<1> QED BY <1>4, <1>8, <1>9, <1>10

-----------------------------------------------------------------------------
(***************************************************************************)
(* Every step keeps the invariant.                                         *)
(***************************************************************************)

\* A step of core k moves only its own stack.
LEMMA StackMoves ==
  ASSUME TypeOK, NEW k \in Cores, NEW t \in Seq(Frames),
         stack' = [stack EXCEPT ![k] = t]
  PROVE  /\ stack' \in [Cores -> Seq(Frames)]
         /\ stack'[k] = t
         /\ \A j \in Cores : j # k => stack'[j] = stack[j]
BY DEF TypeOK, Frames

\* A task starts on the idle core it was sent to.
LEMMA StartKeeps ==
  ASSUME ServiceInv, NEW k \in Cores, NEW c \in Coros, Start(k, c)
  PROVE  ServiceInv'
<1> USE DEF ServiceInv
<1>1. /\ stack[k] = <<>> /\ Home(c) = k /\ pc[c] = "ready"
      /\ pc' = [pc EXCEPT ![c] = "run"]
      /\ UNCHANGED <<free, inflight, waitq, retry_contexts, res, requests, op>>
  BY DEF Start, spdkVars
<1>2. /\ stack' \in [Cores -> Seq(Frames)] /\ StackShape(stack'[k])
      /\ CoOf(stack'[k]) = {c} /\ CbOf(stack'[k]) = {}
      /\ \A j \in Cores : j # k => stack'[j] = stack[j]
  BY StackMoves, ShapeTask DEF Start
<1>3. CoOf(stack[k]) = {} /\ CbOf(stack[k]) = {}
  BY <1>1, ShapeEmpty
<1>4. TypeOK'
  BY <1>1, <1>2 DEF TypeOK, Frames
<1>5. /\ \A d \in Coros : pc'[d] = IF d = c THEN "run" ELSE pc[d]
      /\ \A j \in Cores : CbOf(stack'[j]) = CbOf(stack[j])
  BY <1>1, <1>2, <1>3 DEF TypeOK
<1>6. RunsHome'
  BY <1>1, <1>2, <1>3, <1>5 DEF RunsHome
<1>7. \A j \in Cores, d \in Coros : Pending(j, d)' <=> Pending(j, d)
  BY <1>1, <1>5 DEF Pending
<1>8. IoPlaced'
  BY <1>1, <1>5, <1>7 DEF IoPlaced
<1>9. SlotPlaced'
  <2>1. \A j \in Cores, d \in Coros : Queued(j, d) => Queued(j, d)'
    BY <1>1, <1>5, <1>7 DEF Queued
  <2> QED BY <1>1, <2>1 DEF SlotPlaced
<1>10. AwaitsAnswered'
  BY <1>1, <1>5, <1>7, Homes DEF AwaitsAnswered, Waits
<1>11. PoolExact'
  BY <1>1, PoolKept
<1>12. ResultThere'
  BY <1>1, <1>5 DEF ResultThere
<1> QED BY <1>4, <1>6, <1>8, <1>9, <1>10, <1>11, <1>12

\* Where a task on top of its core's stack runs.
LEMMA TaskOnTop ==
  ASSUME ServiceInv, NEW k \in Cores, NEW c \in Coros, Top(k, Coroutine(c))
  PROVE  /\ StackShape(Tail(stack[k])) /\ Tail(stack[k]) \in Seq(Frames)
         /\ CoOf(stack[k]) = {c} /\ CoOf(Tail(stack[k])) = {}
         /\ CbOf(Tail(stack[k])) = CbOf(stack[k])
         /\ Home(c) = k /\ pc[c] = "run"
         /\ inflight[k][c] = 0 /\ ~Pending(k, c)
<1> USE DEF ServiceInv
<1>1. StackShape(stack[k]) /\ stack[k] # <<>> /\ Head(stack[k]) = Coroutine(c)
  BY DEF Top, RunsHome
<1>2. /\ StackShape(Tail(stack[k])) /\ Tail(stack[k]) \in Seq(Frames)
      /\ CoOf(stack[k]) = {c} /\ CoOf(Tail(stack[k])) = {}
      /\ CbOf(Tail(stack[k])) = CbOf(stack[k])
  BY <1>1, TaskLeaves
<1>3. Home(c) = k /\ pc[c] = "run"
  BY <1>2 DEF RunsHome
<1>4. inflight[k][c] = 0 /\ ~Pending(k, c)
  BY <1>3 DEF IoPlaced, Pending
<1> QED BY <1>2, <1>3, <1>4

\* A task that leaves its core's stack, to await an I/O or for good.
LEMMA TaskOff ==
  ASSUME ServiceInv, NEW k \in Cores, NEW c \in Coros, Top(k, Coroutine(c)),
         NEW p \in {"await", "done"},
         pc' = [pc EXCEPT ![c] = p], stack' = [stack EXCEPT ![k] = Tail(@)]
  PROVE  /\ stack' \in [Cores -> Seq(Frames)]
         /\ pc' \in [Coros -> {"ready", "run", "await", "done"}]
         /\ \A d \in Coros : pc'[d] = IF d = c THEN p ELSE pc[d]
         /\ \A j \in Cores : CbOf(stack'[j]) = CbOf(stack[j])
         /\ RunsHome'
<1> USE DEF ServiceInv
<1>1. /\ stack' \in [Cores -> Seq(Frames)] /\ stack'[k] = Tail(stack[k])
      /\ \A j \in Cores : j # k => stack'[j] = stack[j]
  BY StackMoves, TaskOnTop
<1>2. /\ pc' \in [Coros -> {"ready", "run", "await", "done"}]
      /\ \A d \in Coros : pc'[d] = IF d = c THEN p ELSE pc[d]
  BY DEF TypeOK
<1>3. \A j \in Cores : CbOf(stack'[j]) = CbOf(stack[j])
  BY <1>1, TaskOnTop
<1>4. RunsHome'
  BY <1>1, <1>2, TaskOnTop DEF RunsHome
<1> QED BY <1>1, <1>2, <1>3, <1>4

\* A task ends: the frame below it goes on.
LEMMA FinishKeeps ==
  ASSUME ServiceInv, NEW k \in Cores, NEW c \in Coros, Finish(k, c)
  PROVE  ServiceInv'
<1> USE DEF ServiceInv
<1>1. /\ Top(k, Coroutine(c))
      /\ pc' = [pc EXCEPT ![c] = "done"] /\ stack' = [stack EXCEPT ![k] = Tail(@)]
      /\ UNCHANGED <<free, inflight, waitq, retry_contexts, res, requests, op>>
  BY DEF Finish, spdkVars
<1>2. /\ Home(c) = k /\ pc[c] = "run"
      /\ stack' \in [Cores -> Seq(Frames)]
      /\ pc' \in [Coros -> {"ready", "run", "await", "done"}]
      /\ \A d \in Coros : pc'[d] = IF d = c THEN "done" ELSE pc[d]
      /\ \A j \in Cores : CbOf(stack'[j]) = CbOf(stack[j])
      /\ RunsHome'
  BY <1>1, TaskOnTop, TaskOff
<1>3. TypeOK'
  BY <1>1, <1>2 DEF TypeOK, Frames
<1>4. \A j \in Cores, d \in Coros : Pending(j, d)' <=> Pending(j, d)
  BY <1>1, <1>2 DEF Pending
<1>5. IoPlaced'
  BY <1>1, <1>2, <1>4 DEF IoPlaced
<1>6. SlotPlaced'
  <2>1. \A j \in Cores, d \in Coros : Queued(j, d) => Queued(j, d)'
    BY <1>1, <1>2, <1>4 DEF Queued
  <2> QED BY <1>1, <2>1 DEF SlotPlaced
<1>7. AwaitsAnswered'
  BY <1>1, <1>2, <1>4, Homes DEF AwaitsAnswered, Waits
<1>8. PoolExact'
  BY <1>1, PoolKept
<1>9. ResultThere'
  BY <1>1, <1>2 DEF ResultThere
<1> QED BY <1>2, <1>3, <1>5, <1>6, <1>7, <1>8, <1>9

\* A request that gets a bdev_io.
LEMMA IssueAccepted ==
  ASSUME ServiceInv, NEW k \in Cores, NEW c \in Coros, NEW o \in Ops,
         Top(k, Coroutine(c)), requests[c] < MaxIo, free[k] > 0,
         spdk_bdev_submit(k, c, "0"),
         requests' = [requests EXCEPT ![c] = @ + 1],
         op' = [op EXCEPT ![c] = o],
         res' = [res EXCEPT ![c] = "none"],
         pc' = [pc EXCEPT ![c] = "await"],
         stack' = [stack EXCEPT ![k] = Tail(@)],
         UNCHANGED <<retry_contexts, waitq>>
  PROVE  ServiceInv'
<1> USE DEF ServiceInv
<1>1. /\ Home(c) = k /\ pc[c] = "run" /\ ~Pending(k, c) /\ inflight[k][c] = 0
      /\ stack' \in [Cores -> Seq(Frames)]
      /\ pc' \in [Coros -> {"ready", "run", "await", "done"}]
      /\ \A d \in Coros : pc'[d] = IF d = c THEN "await" ELSE pc[d]
      /\ \A j \in Cores : CbOf(stack'[j]) = CbOf(stack[j])
      /\ RunsHome'
  BY TaskOnTop, TaskOff
<1>2. /\ free' \in [Cores -> 0 .. PoolSize]
      /\ inflight' \in [Cores -> [Coros -> Nat]]
      /\ PoolExact'
      /\ \A j \in Cores, d \in Coros :
           inflight'[j][d] = IF j = k /\ d = c THEN 1 ELSE inflight[j][d]
  BY <1>1, SubmitCounts
<1>3. /\ requests' \in [Coros -> 0 .. MaxIo]
      /\ op' \in [Coros -> Ops \cup {None}]
      /\ res' \in [Coros -> Results]
  BY ServiceAssumption DEF TypeOK, Results
<1>4. TypeOK'
  BY <1>1, <1>2, <1>3 DEF TypeOK, Frames
<1>5. /\ \A d \in Coros : d # c => op'[d] = op[d] /\ res'[d] = res[d]
                                  /\ requests'[d] = requests[d]
      /\ \A j \in Cores, d \in Coros :
           Pending(j, d)' <=> Pending(j, d) \/ (j = k /\ d = c)
  <2>1. \A d \in Coros : d # c => op'[d] = op[d] /\ res'[d] = res[d]
                                  /\ requests'[d] = requests[d]
    BY DEF TypeOK
  <2>2. \A j \in Cores, d \in Coros :
          Pending(j, d)' <=> Pending(j, d) \/ (j = k /\ d = c)
    BY <1>1, <1>2 DEF Pending
  <2> QED BY <2>1, <2>2
<1>6. IoPlaced'
  <2>1. c \notin CbOf(stack[k])
    BY <1>1 DEF Pending
  <2> SUFFICES ASSUME NEW j \in Cores, NEW d \in Coros
               PROVE  /\ inflight'[j][d] \in {0, 1}
                      /\ inflight'[j][d] = 1 => d \notin CbOf(stack'[j])
                      /\ Pending(j, d)' => Home(d) = j /\ pc'[d] = "await"
    BY DEF IoPlaced
  <2>2. /\ inflight[j][d] \in {0, 1}
        /\ inflight[j][d] = 1 => d \notin CbOf(stack[j])
        /\ Pending(j, d) => Home(d) = j /\ pc[d] = "await"
    BY DEF IoPlaced
  <2>3. inflight'[j][d] \in {0, 1} /\ (inflight'[j][d] = 1 => d \notin CbOf(stack'[j]))
    BY <1>1, <1>2, <2>1, <2>2
  <2>4. Pending(j, d)' => Home(d) = j /\ pc'[d] = "await"
    BY <1>1, <1>5, <2>2
  <2> QED BY <2>3, <2>4
<1>7. SlotPlaced'
  <2>1. \A j \in Cores, d \in Coros : Queued(j, d) => Queued(j, d)'
    BY <1>1, <1>5 DEF Queued
  <2> QED BY <2>1 DEF SlotPlaced
<1>8. AwaitsAnswered'
  BY <1>1, <1>5, Homes DEF AwaitsAnswered, Waits
<1>9. ResultThere'
  BY <1>1, <1>5 DEF ResultThere
<1> QED BY <1>1, <1>2, <1>4, <1>6, <1>7, <1>8, <1>9

\* A request that fails for good: the coroutine goes on.
LEMMA IssueFails ==
  ASSUME ServiceInv, NEW k \in Cores, NEW c \in Coros, NEW o \in Ops,
         Top(k, Coroutine(c)), requests[c] < MaxIo,
         requests' = [requests EXCEPT ![c] = @ + 1],
         op' = [op EXCEPT ![c] = o],
         res' = [res EXCEPT ![c] = "rc"],
         UNCHANGED <<free, inflight, retry_contexts, waitq, pc, stack>>
  PROVE  ServiceInv'
<1> USE DEF ServiceInv
<1>1. pc[c] = "run"
  BY TaskOnTop
<1>2. /\ requests' \in [Coros -> 0 .. MaxIo]
      /\ op' \in [Coros -> Ops \cup {None}]
      /\ res' \in [Coros -> Results]
  BY ServiceAssumption DEF TypeOK, Results
<1>3. TypeOK'
  BY <1>2 DEF TypeOK
<1>4. /\ \A d \in Coros : d # c => op'[d] = op[d] /\ res'[d] = res[d]
                                  /\ requests'[d] = requests[d]
      /\ res'[c] = "rc"
  BY DEF TypeOK
<1>5. RunsHome' /\ IoPlaced' /\ AwaitsAnswered'
  BY DEF RunsHome, IoPlaced, AwaitsAnswered, Pending, Waits
<1>6. SlotPlaced'
  <2>1. \A j \in Cores, d \in Coros : Pending(j, d)' <=> Pending(j, d)
    BY DEF Pending
  <2>2. \A j \in Cores, d \in Coros : Queued(j, d) => Queued(j, d)'
    BY <1>1, <1>4, <2>1 DEF Queued
  <2> QED BY <2>2 DEF SlotPlaced
<1>7. PoolExact'
  BY PoolKept
<1>8. ResultThere'
  BY <1>1, <1>4 DEF ResultThere
<1> QED BY <1>3, <1>5, <1>6, <1>7, <1>8

\* A request without a bdev_io finds the core's slot free and takes it.
LEMMA IssueQueued ==
  ASSUME SlotSuffices, ServiceInv, NEW k \in Cores, NEW c \in Coros, NEW o \in Ops,
         Top(k, Coroutine(c)), requests[c] < MaxIo, free[k] = 0,
         requests' = [requests EXCEPT ![c] = @ + 1],
         op' = [op EXCEPT ![c] = o],
         retry_contexts' = [retry_contexts EXCEPT ![k] = [fn |-> RetryFn(o), res |-> c]],
         spdk_bdev_queue_io_wait(k),
         res' = [res EXCEPT ![c] = "none"],
         pc' = [pc EXCEPT ![c] = "await"],
         stack' = [stack EXCEPT ![k] = Tail(@)],
         UNCHANGED <<free, inflight>>
  PROVE  ServiceInv'
<1> USE DEF ServiceInv
<1> DEFINE rq == [fn |-> RetryFn(o), res |-> c]
<1>1. /\ Home(c) = k /\ pc[c] = "run" /\ ~Pending(k, c)
      /\ stack' \in [Cores -> Seq(Frames)]
      /\ pc' \in [Coros -> {"ready", "run", "await", "done"}]
      /\ \A d \in Coros : pc'[d] = IF d = c THEN "await" ELSE pc[d]
      /\ \A j \in Cores : CbOf(stack'[j]) = CbOf(stack[j])
      /\ RunsHome'
  BY TaskOnTop, TaskOff
<1>2. waitq[k] = "empty"
  BY <1>1, SlotFree
<1>3. /\ waitq' \in [Cores -> {"empty", "one", "loop"}] /\ waitq'[k] = "one"
      /\ \A j \in Cores : j # k => waitq'[j] = waitq[j]
  BY <1>2 DEF TypeOK, spdk_bdev_queue_io_wait
<1>4. rq \in [fn : {"spdk_retry_read", "spdk_retry_write"}, res : Coros]
  BY DEF RetryFn
<1>5. rq.res = c /\ rq.fn = RetryFn(o)
  OBVIOUS
<1> HIDE DEF rq
<1>6. retry_contexts' = [retry_contexts EXCEPT ![k] = rq]
  BY DEF rq
<1>7. /\ retry_contexts' \in
           [Cores -> [fn : {"spdk_retry_read", "spdk_retry_write"}, res : Coros]
                       \cup {None}]
      /\ retry_contexts'[k] = rq
      /\ \A j \in Cores : j # k => retry_contexts'[j] = retry_contexts[j]
  BY <1>4, <1>6 DEF TypeOK
<1>8. /\ requests' \in [Coros -> 0 .. MaxIo]
      /\ op' \in [Coros -> Ops \cup {None}]
      /\ res' \in [Coros -> Results]
  BY ServiceAssumption DEF TypeOK, Results
<1>9. TypeOK'
  BY <1>1, <1>3, <1>7, <1>8 DEF TypeOK, Frames
<1>10. /\ \A d \in Coros : d # c => op'[d] = op[d] /\ res'[d] = res[d]
                                  /\ requests'[d] = requests[d]
       /\ op'[c] = o
  BY DEF TypeOK
<1>11. \A j \in Cores, d \in Coros : Pending(j, d)' <=> Pending(j, d)
  BY <1>1 DEF Pending
<1>12. IoPlaced'
  BY <1>1, <1>11 DEF IoPlaced
<1>13. SlotPlaced'
  <2> SUFFICES ASSUME NEW j \in Cores
               PROVE  /\ waitq'[j] # "loop"
                      /\ waitq'[j] = "one" => \E d \in Coros : Queued(j, d)'
    BY DEF SlotPlaced
  <2>1. CASE j = k
    <3>1. retry_contexts'[j].res = c /\ retry_contexts'[j].fn = RetryFn(o)
      BY <1>5, <1>7, <2>1
    <3>2. Queued(j, c)'
      BY <1>1, <1>10, <1>11, <2>1, <3>1 DEF Queued
    <3> QED BY <1>3, <2>1, <3>2
  <2>2. CASE j # k
    <3>1. \A d \in Coros : Queued(j, d) => Queued(j, d)'
      BY <1>1, <1>7, <1>10, <1>11, <2>2 DEF Queued
    <3> QED BY <1>3, <2>2, <3>1 DEF SlotPlaced
  <2> QED BY <2>1, <2>2
<1>14. AwaitsAnswered'
  <2> SUFFICES ASSUME NEW d \in Coros, pc'[d] = "await"
               PROVE  Pending(Home(d), d)' \/ Waits(Home(d), d)'
    BY DEF AwaitsAnswered
  <2>1. CASE d = c
    BY <1>1, <1>3, <1>5, <1>7, <2>1 DEF Waits
  <2>2. CASE d # c
    <3>1. Pending(Home(d), d) \/ Waits(Home(d), d)
      BY <1>1, <2>2 DEF AwaitsAnswered
    <3>2. Home(d) = k => ~Waits(Home(d), d)
      BY <1>2 DEF Waits
    <3> QED BY <1>3, <1>7, <1>11, <3>1, <3>2, Homes DEF Waits
  <2> QED BY <2>1, <2>2
<1>15. PoolExact'
  BY PoolKept
<1>16. ResultThere'
  BY <1>1, <1>10 DEF ResultThere
<1> QED BY <1>1, <1>9, <1>12, <1>13, <1>14, <1>15, <1>16

\* read() or write(): the request is in flight, in the core's slot, or refused.
LEMMA IssueKeeps ==
  ASSUME SlotSuffices, ServiceInv, NEW k \in Cores, NEW c \in Coros, NEW o \in Ops,
         Issue(k, c, o)
  PROVE  ServiceInv'
<1>1. free[k] \in 0 .. PoolSize /\ PoolSize \in Nat
  BY ServiceAssumption DEF ServiceInv, TypeOK
<1>2. PICK rc \in SubmitResults(k) :
        /\ spdk_bdev_submit(k, c, rc)
        /\ IF rc = "ENOMEM"
           THEN /\ retry_contexts' =
                     [retry_contexts EXCEPT ![k] = [fn |-> RetryFn(o), res |-> c]]
                /\ spdk_bdev_queue_io_wait(k)
           ELSE UNCHANGED <<retry_contexts, waitq>>
        /\ res' = [res EXCEPT ![c] = IF rc = "EINVAL" THEN "rc" ELSE "none"]
        /\ IF Suspends(rc)
           THEN /\ pc' = [pc EXCEPT ![c] = "await"]
                /\ stack' = [stack EXCEPT ![k] = Tail(@)]
           ELSE UNCHANGED <<pc, stack>>
  BY DEF Issue
<1>3. /\ Top(k, Coroutine(c)) /\ requests[c] < MaxIo
      /\ requests' = [requests EXCEPT ![c] = @ + 1] /\ op' = [op EXCEPT ![c] = o]
  BY DEF Issue
<1>4. CASE rc = "0"
  <2>1. free[k] > 0
    BY <1>4 DEF SubmitResults
  <2> QED BY <1>2, <1>3, <1>4, <2>1, IssueAccepted DEF Suspends
<1>5. CASE rc = "EINVAL"
  <2>1. UNCHANGED <<free, inflight>>
    BY <1>2, <1>5 DEF spdk_bdev_submit
  <2> QED BY <1>2, <1>3, <1>5, <2>1, IssueFails DEF Suspends
<1>6. CASE rc = "ENOMEM"
  <2>1. free[k] = 0
    BY <1>1, <1>6 DEF SubmitResults
  <2>2. UNCHANGED <<free, inflight>>
    BY <1>2, <1>6 DEF spdk_bdev_submit
  <2> QED BY <1>2, <1>3, <1>6, <2>1, <2>2, IssueQueued DEF Suspends
<1> QED BY <1>2, <1>4, <1>5, <1>6 DEF SubmitResults

\* The completed I/O becomes a callback on the stack.
LEMMA CompleteKeeps ==
  ASSUME ServiceInv, NEW k \in Cores, NEW c \in Coros, Complete(k, c)
  PROVE  ServiceInv'
<1> USE DEF ServiceInv
<1>1. stack[k] = <<>> /\ UNCHANGED <<waitq, retry_contexts, res, requests, op, pc>>
  BY DEF Complete
<1>2. /\ stack' \in [Cores -> Seq(Frames)] /\ StackShape(stack'[k])
      /\ CoOf(stack'[k]) = {} /\ CbOf(stack'[k]) = {c}
      /\ \A j \in Cores : j # k => stack'[j] = stack[j]
  BY StackMoves, ShapeCallback DEF Complete
<1>3. CoOf(stack[k]) = {} /\ CbOf(stack[k]) = {}
  BY <1>1, ShapeEmpty
<1>4. /\ free' \in [Cores -> 0 .. PoolSize]
      /\ inflight' \in [Cores -> [Coros -> Nat]]
      /\ PoolExact'
      /\ inflight[k][c] = 1
      /\ \A j \in Cores, d \in Coros :
           inflight'[j][d] = IF j = k /\ d = c THEN 0 ELSE inflight[j][d]
  BY CompleteCounts
<1>5. TypeOK'
  BY <1>1, <1>2, <1>4 DEF TypeOK, Frames
<1>6. RunsHome'
  BY <1>1, <1>2, <1>3 DEF RunsHome
<1>7. \A j \in Cores, d \in Coros : Pending(j, d)' <=> Pending(j, d)
  BY <1>2, <1>3, <1>4 DEF Pending
<1>8. IoPlaced'
  <2> SUFFICES ASSUME NEW j \in Cores, NEW d \in Coros
               PROVE  /\ inflight'[j][d] \in {0, 1}
                      /\ inflight'[j][d] = 1 => d \notin CbOf(stack'[j])
                      /\ Pending(j, d)' => Home(d) = j /\ pc'[d] = "await"
    BY DEF IoPlaced
  <2>1. /\ inflight[j][d] \in {0, 1}
        /\ inflight[j][d] = 1 => d \notin CbOf(stack[j])
        /\ Pending(j, d) => Home(d) = j /\ pc[d] = "await"
    BY DEF IoPlaced
  <2>2. inflight'[j][d] \in {0, 1}
    BY <1>4, <2>1
  <2>3. CASE j = k
    BY <1>1, <1>2, <1>4, <1>7, <2>1, <2>2, <2>3
  <2>4. CASE j # k
    BY <1>1, <1>2, <1>4, <1>7, <2>1, <2>2, <2>4
  <2> QED BY <2>3, <2>4
<1>9. SlotPlaced'
  <2>1. \A j \in Cores, d \in Coros : Queued(j, d) => Queued(j, d)'
    BY <1>1, <1>7 DEF Queued
  <2> QED BY <1>1, <2>1 DEF SlotPlaced
<1>10. AwaitsAnswered'
  BY <1>1, <1>7, Homes DEF AwaitsAnswered, Waits
<1>11. ResultThere'
  BY <1>1 DEF ResultThere
<1> QED BY <1>4, <1>5, <1>6, <1>8, <1>9, <1>10, <1>11

\* A callback on top of its core's stack is the only frame there.
LEMMA CallbackOnTop ==
  ASSUME ServiceInv, NEW k \in Cores, NEW c \in Coros, Top(k, CompleteCb(c)),
         NEW d \in Coros
  PROVE  /\ CoOf(stack[k]) = {} /\ CbOf(stack[k]) = {c}
         /\ Home(c) = k /\ pc[c] = "await" /\ inflight[k][c] = 0 /\ Pending(k, c)
         /\ LET t == Above(d, stack[k])
            IN  StackShape(t) /\ t \in Seq(Frames) /\ CoOf(t) = {d} /\ CbOf(t) = {c}
         /\ LET t == Above(d, Tail(stack[k]))
            IN  StackShape(t) /\ t \in Seq(Frames) /\ CoOf(t) = {d} /\ CbOf(t) = {}
<1> USE DEF ServiceInv
<1>1. StackShape(stack[k]) /\ stack[k] # <<>> /\ Head(stack[k]) = CompleteCb(c)
  BY DEF Top, RunsHome
<1>2. CoOf(stack[k]) = {} /\ CbOf(stack[k]) = {c}
  BY <1>1, CallbackResumes
<1>3. Home(c) = k /\ pc[c] = "await" /\ inflight[k][c] = 0 /\ Pending(k, c)
  BY <1>2 DEF IoPlaced, Pending
<1> QED BY <1>1, <1>2, <1>3, CallbackResumes

\* The end of a completion callback: its coroutine runs in its place.
LEMMA ResumeCompletedKeeps ==
  ASSUME ServiceInv, NEW k \in Cores, NEW c \in Coros, ResumeCompleted(k, c)
  PROVE  ServiceInv'
<1> USE DEF ServiceInv
<1>1. /\ Top(k, CompleteCb(c))
      /\ res' = [res EXCEPT ![c] = "status"] /\ pc' = [pc EXCEPT ![c] = "run"]
      /\ stack' = [stack EXCEPT ![k] = <<Coroutine(c)>> \o Tail(@)]
      /\ UNCHANGED <<free, inflight, waitq, retry_contexts, requests, op>>
  BY DEF ResumeCompleted, spdkVars
<1>2. /\ CoOf(stack[k]) = {} /\ CbOf(stack[k]) = {c}
      /\ Home(c) = k /\ pc[c] = "await" /\ inflight[k][c] = 0 /\ Pending(k, c)
  BY <1>1, CallbackOnTop
<1>3. /\ stack' \in [Cores -> Seq(Frames)] /\ StackShape(stack'[k])
      /\ CoOf(stack'[k]) = {c} /\ CbOf(stack'[k]) = {}
      /\ \A j \in Cores : j # k => stack'[j] = stack[j]
  <2> DEFINE t == Above(c, Tail(stack[k]))
  <2>1. StackShape(t) /\ t \in Seq(Frames) /\ CoOf(t) = {c} /\ CbOf(t) = {}
    BY <1>1, CallbackOnTop
  <2>2. stack' = [stack EXCEPT ![k] = t]
    BY <1>1 DEF Above
  <2> HIDE DEF t
  <2> QED BY <2>1, <2>2, StackMoves
<1>4. /\ res' \in [Coros -> Results]
      /\ pc' \in [Coros -> {"ready", "run", "await", "done"}]
      /\ \A d \in Coros : pc'[d] = IF d = c THEN "run" ELSE pc[d]
      /\ \A d \in Coros : res'[d] = IF d = c THEN "status" ELSE res[d]
  BY <1>1 DEF TypeOK, Results
<1>5. TypeOK'
  BY <1>1, <1>3, <1>4 DEF TypeOK, Frames
<1>6. RunsHome'
  BY <1>2, <1>3, <1>4 DEF RunsHome
<1>7. \A j \in Cores, d \in Coros :
        Pending(j, d)' <=> Pending(j, d) /\ ~(j = k /\ d = c)
  BY <1>1, <1>2, <1>3 DEF Pending
<1>8. IoPlaced'
  <2> SUFFICES ASSUME NEW j \in Cores, NEW d \in Coros
               PROVE  /\ inflight'[j][d] \in {0, 1}
                      /\ inflight'[j][d] = 1 => d \notin CbOf(stack'[j])
                      /\ Pending(j, d)' => Home(d) = j /\ pc'[d] = "await"
    BY DEF IoPlaced
  <2>1. /\ inflight[j][d] \in {0, 1}
        /\ inflight[j][d] = 1 => d \notin CbOf(stack[j])
        /\ Pending(j, d) => Home(d) = j /\ pc[d] = "await"
    BY DEF IoPlaced
  <2>2. inflight'[j][d] = 1 => d \notin CbOf(stack'[j])
    BY <1>1, <1>2, <1>3, <2>1
  <2>3. Pending(j, d)' => Home(d) = j /\ pc'[d] = "await"
    BY <1>2, <1>4, <1>7, <2>1
  <2> QED BY <1>1, <2>1, <2>2, <2>3
<1>9. SlotPlaced'
  <2>1. \A j \in Cores, d \in Coros : Queued(j, d) => d # c
    BY <1>2 DEF Queued
  <2>2. \A j \in Cores, d \in Coros : Queued(j, d) => Queued(j, d)'
    BY <1>1, <1>4, <1>7, <2>1 DEF Queued
  <2> QED BY <1>1, <2>2 DEF SlotPlaced
<1>10. AwaitsAnswered'
  BY <1>1, <1>4, <1>7, Homes DEF AwaitsAnswered, Waits
<1>11. PoolExact'
  BY <1>1, PoolKept
<1>12. ResultThere'
  BY <1>1, <1>4 DEF ResultThere
<1> QED BY <1>5, <1>6, <1>8, <1>9, <1>10, <1>11, <1>12

\* The wait entry that spdk_bdev_free_io() runs, and what running it leaves of
\* the queue.
LEMMA EntryLeaves ==
  ASSUME ServiceInv, NEW k \in Cores, EntryRuns(k),
         waitq' = [waitq EXCEPT ![k] = IF @ = "one" THEN "empty" ELSE @]
  PROVE  /\ \E d \in Coros : Queued(k, d)
         /\ waitq' \in [Cores -> {"empty", "one", "loop"}]
         /\ waitq'[k] = "empty" /\ free[k] > 0
         /\ \A j \in Cores : j # k => waitq'[j] = waitq[j]
<1> USE DEF ServiceInv
<1>1. waitq[k] = "one" /\ free[k] > 0
  BY DEF EntryRuns, SlotPlaced, TypeOK
<1>2. \E d \in Coros : Queued(k, d)
  BY <1>1 DEF SlotPlaced
<1> QED BY <1>1, <1>2 DEF TypeOK

\* A retry that is accepted.
LEMMA RetryAccepted ==
  ASSUME ServiceInv, NEW k \in Cores, NEW d \in Coros, Queued(k, d), EntryRuns(k),
         waitq' = [waitq EXCEPT ![k] = IF @ = "one" THEN "empty" ELSE @],
         spdk_bdev_submit(k, d, "0"),
         UNCHANGED <<retry_contexts, requests, op, res, pc, stack>>
  PROVE  ServiceInv'
<1> USE DEF ServiceInv
<1>1. /\ waitq' \in [Cores -> {"empty", "one", "loop"}]
      /\ waitq'[k] = "empty" /\ free[k] > 0
      /\ \A j \in Cores : j # k => waitq'[j] = waitq[j]
  BY EntryLeaves
<1>2. /\ retry_contexts[k].res = d /\ Home(d) = k /\ pc[d] = "await"
      /\ d \notin CbOf(stack[k]) /\ inflight[k][d] = 0
  BY DEF Queued, Pending, IoPlaced
<1>3. /\ free' \in [Cores -> 0 .. PoolSize]
      /\ inflight' \in [Cores -> [Coros -> Nat]]
      /\ PoolExact'
      /\ \A j \in Cores, e \in Coros :
           inflight'[j][e] = IF j = k /\ e = d THEN 1 ELSE inflight[j][e]
  BY <1>1, <1>2, SubmitCounts
<1>4. TypeOK'
  BY <1>1, <1>3 DEF TypeOK
<1>5. RunsHome' /\ ResultThere'
  BY DEF RunsHome, ResultThere
<1>6. \A j \in Cores, e \in Coros :
        Pending(j, e)' <=> Pending(j, e) \/ (j = k /\ e = d)
  BY <1>3 DEF Pending
<1>7. IoPlaced'
  <2> SUFFICES ASSUME NEW j \in Cores, NEW e \in Coros
               PROVE  /\ inflight'[j][e] \in {0, 1}
                      /\ inflight'[j][e] = 1 => e \notin CbOf(stack'[j])
                      /\ Pending(j, e)' => Home(e) = j /\ pc'[e] = "await"
    BY DEF IoPlaced
  <2>1. /\ inflight[j][e] \in {0, 1}
        /\ inflight[j][e] = 1 => e \notin CbOf(stack[j])
        /\ Pending(j, e) => Home(e) = j /\ pc[e] = "await"
    BY DEF IoPlaced
  <2> QED BY <1>2, <1>3, <1>6, <2>1
<1>8. SlotPlaced'
  <2>1. \A j \in Cores, e \in Coros : j # k /\ Queued(j, e) => Queued(j, e)'
    BY <1>6 DEF Queued
  <2> QED BY <1>1, <2>1 DEF SlotPlaced
<1>9. AwaitsAnswered'
  <2> SUFFICES ASSUME NEW e \in Coros, pc[e] = "await"
               PROVE  Pending(Home(e), e)' \/ Waits(Home(e), e)'
    BY DEF AwaitsAnswered
  <2>1. Pending(Home(e), e) \/ Waits(Home(e), e)
    BY DEF AwaitsAnswered
  <2>2. CASE Home(e) = k
    BY <1>2, <1>6, <2>1, <2>2 DEF Waits
  <2>3. CASE Home(e) # k
    BY <1>1, <1>6, <2>1, <2>3, Homes DEF Waits
  <2> QED BY <2>2, <2>3
<1> QED BY <1>3, <1>4, <1>5, <1>7, <1>8, <1>9

\* A retry that fails for good resumes its coroutine inside the callback.
LEMMA RetryFails ==
  ASSUME ServiceInv, NEW k \in Cores, NEW c \in Coros, Top(k, CompleteCb(c)),
         NEW d \in Coros, Queued(k, d), EntryRuns(k),
         waitq' = [waitq EXCEPT ![k] = IF @ = "one" THEN "empty" ELSE @],
         res' = [res EXCEPT ![d] = "rc"], pc' = [pc EXCEPT ![d] = "run"],
         stack' = [stack EXCEPT ![k] = <<Coroutine(d)>> \o @],
         UNCHANGED <<free, inflight, retry_contexts, requests, op>>
  PROVE  ServiceInv'
<1> USE DEF ServiceInv
<1>1. /\ waitq' \in [Cores -> {"empty", "one", "loop"}] /\ waitq'[k] = "empty"
      /\ \A j \in Cores : j # k => waitq'[j] = waitq[j]
  BY EntryLeaves
<1>2. /\ retry_contexts[k].res = d /\ Home(d) = k /\ pc[d] = "await" /\ ~Pending(k, d)
  BY DEF Queued
<1>3. CoOf(stack[k]) = {} /\ CbOf(stack[k]) = {c}
  BY CallbackOnTop
<1>4. /\ stack' \in [Cores -> Seq(Frames)] /\ StackShape(stack'[k])
      /\ CoOf(stack'[k]) = {d} /\ CbOf(stack'[k]) = {c}
      /\ \A j \in Cores : j # k => stack'[j] = stack[j]
  <2> DEFINE t == Above(d, stack[k])
  <2>1. StackShape(t) /\ t \in Seq(Frames) /\ CoOf(t) = {d} /\ CbOf(t) = {c}
    <3>1. StackShape(stack[k]) /\ stack[k] # <<>> /\ Head(stack[k]) = CompleteCb(c)
      BY DEF Top, RunsHome
    <3>2. LET u == Above(d, stack[k])
          IN  StackShape(u) /\ u \in Seq(Frames) /\ CoOf(u) = {d} /\ CbOf(u) = {c}
      BY ONLY <3>1, c \in Coros, d \in Coros, CallbackResumes
    <3> QED BY ONLY <3>2
  <2>2. stack' = [stack EXCEPT ![k] = t]
    BY DEF Above
  <2> HIDE DEF t
  <2> QED BY <2>1, <2>2, StackMoves
<1>5. /\ res' \in [Coros -> Results]
      /\ pc' \in [Coros -> {"ready", "run", "await", "done"}]
      /\ \A e \in Coros : pc'[e] = IF e = d THEN "run" ELSE pc[e]
      /\ \A e \in Coros : res'[e] = IF e = d THEN "rc" ELSE res[e]
  BY DEF TypeOK, Results
<1>6. TypeOK'
  BY <1>1, <1>4, <1>5 DEF TypeOK, Frames
<1>7. RunsHome'
  BY <1>2, <1>3, <1>4, <1>5 DEF RunsHome
<1>8. /\ \A j \in Cores : CbOf(stack'[j]) = CbOf(stack[j])
      /\ \A j \in Cores, e \in Coros : Pending(j, e)' <=> Pending(j, e)
  BY <1>3, <1>4 DEF Pending
<1>9. IoPlaced'
  <2> SUFFICES ASSUME NEW j \in Cores, NEW e \in Coros
               PROVE  /\ inflight'[j][e] \in {0, 1}
                      /\ inflight'[j][e] = 1 => e \notin CbOf(stack'[j])
                      /\ Pending(j, e)' => Home(e) = j /\ pc'[e] = "await"
    BY DEF IoPlaced
  <2>1. /\ inflight[j][e] \in {0, 1}
        /\ inflight[j][e] = 1 => e \notin CbOf(stack[j])
        /\ Pending(j, e) => Home(e) = j /\ pc[e] = "await"
    BY DEF IoPlaced
  <2>2. Pending(j, e)' => Home(e) = j /\ pc'[e] = "await"
    BY <1>2, <1>5, <1>8, <2>1
  <2> QED BY <1>8, <2>1, <2>2
<1>10. SlotPlaced'
  <2>1. \A j \in Cores, e \in Coros : j # k /\ Queued(j, e) => Queued(j, e)'
    BY <1>2, <1>5, <1>8 DEF Queued
  <2> QED BY <1>1, <2>1 DEF SlotPlaced
<1>11. AwaitsAnswered'
  <2> SUFFICES ASSUME NEW e \in Coros, pc'[e] = "await"
               PROVE  Pending(Home(e), e)' \/ Waits(Home(e), e)'
    BY DEF AwaitsAnswered
  <2>1. e # d /\ pc[e] = "await"
    BY <1>5
  <2>2. Pending(Home(e), e) \/ Waits(Home(e), e)
    BY <2>1 DEF AwaitsAnswered
  <2>3. CASE Home(e) = k
    BY <1>2, <1>8, <2>1, <2>2, <2>3 DEF Waits
  <2>4. CASE Home(e) # k
    BY <1>1, <1>8, <2>2, <2>4, Homes DEF Waits
  <2> QED BY <2>3, <2>4
<1>12. PoolExact'
  BY PoolKept
<1>13. ResultThere'
  BY <1>5 DEF ResultThere
<1> QED BY <1>6, <1>7, <1>9, <1>10, <1>11, <1>12, <1>13

\* The wait entry runs: the queued request is in flight or refused, and the
\* slot is free.
LEMMA RetryKeeps ==
  ASSUME SlotSuffices, ServiceInv, NEW k \in Cores, NEW c \in Coros, Retry(k, c)
  PROVE  ServiceInv'
<1>1. /\ Top(k, CompleteCb(c)) /\ EntryRuns(k)
      /\ waitq' = [waitq EXCEPT ![k] = IF @ = "one" THEN "empty" ELSE @]
      /\ UNCHANGED <<retry_contexts, requests, op>>
  BY DEF Retry
<1>2. PICK d \in Coros : Queued(k, d)
  BY <1>1, EntryLeaves
<1>3. PICK rc \in {"0", "EINVAL"} :
        /\ spdk_bdev_submit(k, d, rc)
        /\ IF rc = "EINVAL"
           THEN /\ res' = [res EXCEPT ![d] = "rc"]
                /\ pc' = [pc EXCEPT ![d] = "run"]
                /\ stack' = [stack EXCEPT ![k] = <<Coroutine(d)>> \o @]
           ELSE UNCHANGED <<res, pc, stack>>
  BY <1>2 DEF Retry, Queued, SlotSuffices
<1>4. CASE rc = "0"
  BY <1>1, <1>2, <1>3, <1>4, RetryAccepted
<1>5. CASE rc = "EINVAL"
  <2>1. UNCHANGED <<free, inflight>>
    BY <1>3, <1>5 DEF spdk_bdev_submit
  <2> QED BY <1>1, <1>2, <1>3, <1>5, <2>1, RetryFails
<1> QED BY <1>4, <1>5

-----------------------------------------------------------------------------
\* At the start nothing is in flight and every bdev_io is free.
LEMMA ServiceInvInit == Init => ServiceInv
<1> SUFFICES ASSUME Init PROVE ServiceInv
  OBVIOUS
<1>1. TypeOK
  BY ServiceAssumption, ShapeEmpty DEF Init, TypeOK, Results, Frames
<1>2. \A k \in Cores : stack[k] = <<>> /\ CoOf(stack[k]) = {} /\ CbOf(stack[k]) = {}
  BY ShapeEmpty DEF Init
<1>3. RunsHome
  BY <1>2, ShapeEmpty DEF Init, RunsHome
<1>4. IoPlaced
  BY <1>2 DEF Init, IoPlaced, Pending
<1>5. SlotPlaced /\ AwaitsAnswered /\ ResultThere
  BY DEF Init, SlotPlaced, AwaitsAnswered, ResultThere
<1>6. PoolExact
  <2>1. \A k \in Cores : InFlight(k) = {} /\ free[k] = PoolSize
    BY DEF Init, InFlight
  <2> QED BY <2>1, FS_EmptySet, ServiceAssumption DEF PoolExact
<1> QED BY <1>1, <1>3, <1>4, <1>5, <1>6 DEF ServiceInv

\* Every step keeps the invariant.
LEMMA ServiceInvNext ==
  ASSUME SlotSuffices, ServiceInv, [Next]_vars
  PROVE  ServiceInv'
<1>1. ASSUME NEW k \in Cores, CoreStep(k)
      PROVE  ServiceInv'
  <2> PICK c \in Coros : \/ Start(k, c)
                         \/ \E o \in Ops : Issue(k, c, o)
                         \/ Finish(k, c)
                         \/ Retry(k, c)
                         \/ ResumeCompleted(k, c)
    BY <1>1 DEF CoreStep
  <2> QED BY StartKeeps, IssueKeeps, FinishKeeps, RetryKeeps, ResumeCompletedKeeps
<1>2. ASSUME NEW k \in Cores, NEW c \in Coros, DeviceStep(k, c)
      PROVE  ServiceInv'
  BY <1>2, CompleteKeeps DEF DeviceStep
<1>3. CASE UNCHANGED vars
  <2>1. TypeOK'
    BY <1>3 DEF ServiceInv, TypeOK, vars, spdkVars
  <2>2. RunsHome' /\ IoPlaced' /\ AwaitsAnswered'
    BY <1>3 DEF ServiceInv, vars, spdkVars, RunsHome, IoPlaced, Pending,
                AwaitsAnswered, Waits
  <2>3. SlotPlaced'
    BY <1>3 DEF ServiceInv, vars, spdkVars, SlotPlaced, Queued, Pending
  <2>4. PoolExact' /\ ResultThere'
    BY <1>3 DEF ServiceInv, vars, spdkVars, PoolExact, InFlight, ResultThere
  <2> QED BY <2>1, <2>2, <2>3, <2>4 DEF ServiceInv
<1> QED BY <1>1, <1>2, <1>3 DEF Next

\* The invariant holds throughout.
LEMMA ServiceInvariant ==
  ASSUME SlotSuffices
  PROVE  Spec => []ServiceInv
<1>1. ServiceInv /\ [Next]_vars => ServiceInv'
  BY ServiceInvNext
<1> QED BY <1>1, ServiceInvInit, PTL DEF Spec

\* If no core has more than PoolSize + 1 tasks and a retry finds the bdev_io
\* freed for it, every coroutine that awaits an I/O is owed exactly one
\* resumption (in-flight I/O, callback or queued retry) and no other coroutine
\* is owed any: the single retry slot of service.cpp is enough.
THEOREM EveryAwaitIsOwed ==
  ASSUME SlotSuffices
  PROVE  Spec => []EveryAwaitOwed
<1>1. ServiceInv => EveryAwaitOwed
  <2> SUFFICES ASSUME ServiceInv, NEW c \in Coros
               PROVE  Owed(c) = IF pc[c] = "await" THEN 1 ELSE 0
    BY DEF EveryAwaitOwed
  <2> DEFINE k == Home(c)
             cbs == Cardinality({n \in 1 .. Len(stack[k]) : stack[k][n] = CompleteCb(c)})
             slot == IF waitq[k] # "empty" /\ retry_contexts[k].res = c THEN 1 ELSE 0
  <2>1. k \in Cores
    BY Homes
  <2>2. Owed(c) = inflight[k][c] + cbs + slot
    BY DEF Owed
  <2>3. cbs = IF c \in CbOf(stack[k]) THEN 1 ELSE 0
    <3>1. StackShape(stack[k])
      BY <2>1 DEF ServiceInv, RunsHome
    <3> QED BY <3>1, CallbackCount
  <2>4. slot = IF Waits(k, c) THEN 1 ELSE 0
    BY <2>1 DEF ServiceInv, TypeOK, SlotPlaced, Waits
  <2>5. /\ inflight[k][c] \in {0, 1}
        /\ inflight[k][c] = 1 => c \notin CbOf(stack[k])
        /\ Pending(k, c) => pc[c] = "await"
    BY <2>1 DEF ServiceInv, IoPlaced
  <2>6. Waits(k, c) => pc[c] = "await" /\ ~Pending(k, c)
    BY <2>1 DEF ServiceInv, SlotPlaced, Queued, Waits
  <2>7. pc[c] = "await" => Pending(k, c) \/ Waits(k, c)
    BY DEF ServiceInv, AwaitsAnswered
  <2> HIDE DEF k, cbs, slot
  <2>8. Pending(k, c) <=> inflight[k][c] = 1 \/ c \in CbOf(stack[k])
    BY DEF Pending
  <2> QED BY <2>2, <2>3, <2>4, <2>5, <2>6, <2>7, <2>8
<1> QED BY <1>1, ServiceInvariant, PTL

\* Under the same assumption a coroutine gets the answer to its own request: the
\* slot holds the context and the callback (spdk_retry_read or spdk_retry_write)
\* of a request that still waits, and a coroutine that runs again finds a
\* result.
THEOREM AnswersMatch ==
  ASSUME SlotSuffices
  PROVE  Spec => []AnswersOwnRequest
<1>1. ServiceInv => AnswersOwnRequest
  <2> SUFFICES ASSUME ServiceInv PROVE AnswersOwnRequest
    OBVIOUS
  <2>1. \A k \in Cores : waitq[k] # "empty" =>
          LET d == retry_contexts[k].res
          IN  /\ Home(d) = k
              /\ pc[d] = "await"
              /\ retry_contexts[k].fn =
                   IF op[d] = "read" THEN "spdk_retry_read" ELSE "spdk_retry_write"
    BY DEF ServiceInv, TypeOK, SlotPlaced, Queued, RetryFn
  <2> QED BY <2>1 DEF ServiceInv, AnswersOwnRequest, ResultThere
<1> QED BY <1>1, ServiceInvariant, PTL
=============================================================================
