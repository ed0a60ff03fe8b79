-------------------------- MODULE SchedulerProofs --------------------------
(***************************************************************************)
(* Proofs about module Scheduler, for any number of cores, tasks and       *)
(* awaits.  Nothing removes from `tasks', so a run() after one that had    *)
(* tasks sends the finished ones again, which SchedulerRerun.cfg shows.    *)
(* For a program in which only the last run() has tasks, alive_tasks is    *)
(* exact and task code finds its core's channel open.  If, besides, every  *)
(* thread has a task in every run(), the shutdown is clean; without that   *)
(* it is not, as SchedulerEmpty.cfg shows.                                 *)
(***************************************************************************)
EXTENDS Scheduler, SequenceTheorems, FiniteSetTheorems, TLAPS

\* run() calls before the last one find tasks empty, as in test/spdk_module.cpp.
OnlyLastRunHasTasks ==
  \A r \in 1 .. (Len(TaskCounts) - 1) : TaskCounts[r] = 0

Positions(k) == 1 .. Len(inbox[k])

Pending == Started \cup {"added"}

\* How far the main thread is, and which tasks it has not sent yet.
Progress ==
  /\ runs < Len(TaskCounts) => size = 0
  /\ size <= NumTasks
  /\ main = "create" => i < num_threads
  /\ main = "submit" => i <= size
  /\ main = "poll" => i = size
  /\ \A c \in Coros : c >= size => pc[c] = "none"
  /\ \A c \in Coros :
       c < size /\ (main = "create" \/ (main = "submit" /\ c >= i)) =>
         pc[c] = "added"

\* What a message says of its task, its thread and its place in the queue.
Sound(k, n) ==
  LET m == inbox[k][n]
  IN  /\ m.fn = "service_thread_run" =>
           /\ m.arg \in Coros /\ pc[m.arg] = "added" /\ m.arg < i
           /\ main \in {"submit", "poll"}
      /\ m.fn = "service_thread_run_yield" =>
           m.arg \in Coros /\ pc[m.arg] = "yielded"
      /\ m.fn = "task_done" => k = 0
      /\ m.fn = "thread_init_get_channel" =>
           k # 0 /\ m.arg = k /\ n = 1 /\ channels[k] # "open"
      /\ m.fn = "thread_exit" => k # 0 /\ m.arg = k /\ stopping

MessagesSound == \A k \in Cores : \A n \in Positions(k) : Sound(k, n)

\* A task is started once, and resumed once per yield().
Resumes(m) == m.fn \in {"service_thread_run", "service_thread_run_yield"}

ResumedOnce ==
  \A k, l \in Cores : \A n \in Positions(k), j \in Positions(l) :
    inbox[k][n] = inbox[l][j] /\ Resumes(inbox[k][n]) => k = l /\ n = j

\* The three counts behind alive_tasks.
Alive == {c \in Sent : pc[c] \in Pending}
DoneIn(s) == {n \in 1 .. Len(s) : s[n].fn = "task_done"}
Done == DoneIn(inbox[0])

Counts ==
  /\ main = "submit" => alive_tasks = i
  /\ main \in {"submit", "poll"} =>
       alive_tasks = Cardinality(Alive) + Cardinality(Done)

\* Outside the two loops and the poll loop nothing is under way.
Phases ==
  /\ main = "app" =>
       \A k \in Cores :
         inbox[k] = <<>> /\ stack[k] = <<>> /\ channels[k] # "open"
  /\ main = "create" =>
       /\ inbox[0] = <<>> /\ alive_tasks = 0
       /\ \A k \in Cores :
            /\ stack[k] = <<>>
            /\ k >= i => inbox[k] = <<>> /\ channels[k] # "open"
  /\ main \in {"create", "submit"} => ~stopping
  /\ main # "app" /\ ~stopping => desc
  /\ stopping => channels[0] = "put"

\* A thread without its channel has not run anything and will open it first.
Channels ==
  main # "app" /\ ~stopping =>
    \A k \in Cores : channels[k] # "open" =>
      /\ stack[k] = <<>>
      /\ \/ main = "create" /\ k >= i
         \/ /\ k # 0 /\ inbox[k] # <<>>
            /\ inbox[k][1] = Msg("thread_init_get_channel", k)

\* When the application stops no task has anything left to do, and thread_exit
\* is the last message to every other thread, although a thread without tasks
\* may still have to open its channel.
ExitOrder ==
  stopping =>
    /\ \A c \in Coros : c < size => pc[c] \notin Started \cup {"added"}
    /\ \A k \in Cores \ {0} :
         IF channels[k] = "open" \/ inbox[k] # <<>>
         THEN /\ inbox[k] # <<>>
              /\ Last(inbox[k]) = Msg("thread_exit", k)
              /\ \A n \in 1 .. (Len(inbox[k]) - 1) :
                   inbox[k][n] = Msg("thread_init_get_channel", k)
         ELSE channels[k] = "put" /\ stack[k] = <<>>
    /\ inbox[0] = <<>>

\* The inductive invariant.
SchedulerInv ==
  /\ TypeOK /\ Progress /\ MessagesSound /\ ResumedOnce /\ Counts /\ Phases
  /\ Channels /\ ExitOrder

-----------------------------------------------------------------------------
(***************************************************************************)
(* The constants, and what one step does to the queues.                    *)
(***************************************************************************)

\* The main thread's core exists, and there are finitely many tasks.
LEMMA Constants ==
  /\ num_threads \in Nat \ {0} /\ NumTasks \in Nat
  /\ 0 \in Cores /\ Cores \subseteq Nat
  /\ Coros \subseteq Nat /\ IsFiniteSet(Coros)
  /\ \A j \in Nat : j % num_threads \in Cores
<1>1. num_threads \in Nat \ {0} /\ NumTasks \in Nat
  BY SchedulerAssumption
<1>2. 0 \in Cores /\ Cores \subseteq Nat /\ Coros \subseteq Nat
  BY <1>1 DEF Cores, Coros
<1>3. IsFiniteSet(Coros)
  BY <1>1, FS_Interval DEF Coros
<1>4. \A j \in Nat : j % num_threads \in Cores
  BY <1>1 DEF Cores
<1> QED BY <1>1, <1>2, <1>3, <1>4

\* The messages of the code are messages.
LEMMA MessageTypes ==
  /\ \A a \in Coros \cup Cores, f \in Handlers : Msg(f, a) \in Messages
  /\ \A m \in Messages : m.fn \in Handlers /\ m.arg \in Coros \cup Cores
  /\ \A f, a : Msg(f, a).fn = f /\ Msg(f, a).arg = a
  /\ \A m, o \in Messages : m.fn = o.fn /\ m.arg = o.arg => m = o
<1>1. \A m \in Messages : m = Msg(m.fn, m.arg)
  BY DEF Msg, Messages
<1>2. \A m, o \in Messages : m.fn = o.fn /\ m.arg = o.arg => m = o
  BY <1>1
<1> QED BY <1>2 DEF Msg, Messages

\* Send() puts the message behind the others of one thread.
LEMMA SendQueue ==
  ASSUME inbox \in [Cores -> Seq(Messages)], NEW k \in Cores,
         NEW m \in Messages, Send(k, m)
  PROVE  /\ inbox' \in [Cores -> Seq(Messages)]
         /\ \A l \in Cores : l # k => inbox'[l] = inbox[l]
         /\ inbox'[k] # <<>>
         /\ Len(inbox'[k]) = Len(inbox[k]) + 1
         /\ Len(inbox[k]) \in Nat
         /\ \A n \in 1 .. Len(inbox[k]) : inbox'[k][n] = inbox[k][n]
         /\ inbox'[k][Len(inbox[k]) + 1] = m
<1>1. inbox' = [inbox EXCEPT ![k] = Append(inbox[k], m)]
  BY DEF Send
<1>2. inbox[k] \in Seq(Messages)
  OBVIOUS
<1>3. /\ Append(inbox[k], m) \in Seq(Messages)
      /\ Append(inbox[k], m) # <<>>
      /\ Len(Append(inbox[k], m)) = Len(inbox[k]) + 1
      /\ Len(inbox[k]) \in Nat
      /\ \A n \in 1 .. Len(inbox[k]) : Append(inbox[k], m)[n] = inbox[k][n]
      /\ Append(inbox[k], m)[Len(inbox[k]) + 1] = m
  BY <1>2, AppendProperties, LenProperties
<1>4. inbox'[k] = Append(inbox[k], m)
  BY <1>1
<1>5. \A l \in Cores : l # k => inbox'[l] = inbox[l]
  BY <1>1
<1>6. inbox' \in [Cores -> Seq(Messages)]
  BY <1>1, <1>3
<1> QED BY <1>3, <1>4, <1>5, <1>6

\* Rest(k) takes the oldest message of thread k.
LEMMA RestQueue ==
  ASSUME inbox \in [Cores -> Seq(Messages)], NEW k \in Cores, inbox[k] # <<>>
  PROVE  /\ Rest(k) \in [Cores -> Seq(Messages)]
         /\ \A l \in Cores : l # k => Rest(k)[l] = inbox[l]
         /\ Len(inbox[k]) \in Nat \ {0}
         /\ Len(Rest(k)[k]) = Len(inbox[k]) - 1
         /\ \A n \in 1 .. (Len(inbox[k]) - 1) : Rest(k)[k][n] = inbox[k][n + 1]
         /\ Head(inbox[k]) = inbox[k][1]
         /\ Head(inbox[k]) \in Messages
         /\ Rest(k)[k] = Tail(inbox[k])
<1>1. Rest(k) = [inbox EXCEPT ![k] = Tail(inbox[k])]
  BY DEF Rest
<1>2. inbox[k] \in Seq(Messages)
  OBVIOUS
<1>3. /\ Tail(inbox[k]) \in Seq(Messages)
      /\ Len(inbox[k]) \in Nat \ {0}
      /\ Len(Tail(inbox[k])) = Len(inbox[k]) - 1
      /\ \A n \in 1 .. (Len(inbox[k]) - 1) : Tail(inbox[k])[n] = inbox[k][n + 1]
      /\ Head(inbox[k]) = inbox[k][1]
      /\ Head(inbox[k]) \in Messages
  BY <1>2, HeadTailProperties, LenProperties, EmptySeq
<1>4. Rest(k)[k] = Tail(inbox[k])
  BY <1>1
<1>5. \A l \in Cores : l # k => Rest(k)[l] = inbox[l]
  BY <1>1
<1>6. Rest(k) \in [Cores -> Seq(Messages)]
  BY <1>1, <1>3
<1> QED BY <1>3, <1>4, <1>5, <1>6

\* A message that is left after Rest(k) was there before, one place further back
\* in thread k's queue.
LEMMA OldPlace ==
  ASSUME inbox \in [Cores -> Seq(Messages)], NEW k \in Cores, inbox[k] # <<>>,
         inbox' = Rest(k), NEW l \in Cores, NEW n \in Positions(l)'
  PROVE  /\ l = k => n + 1 \in Positions(l) /\ inbox'[l][n] = inbox[l][n + 1]
         /\ l # k => n \in Positions(l) /\ inbox'[l][n] = inbox[l][n]
         /\ n \in Nat \ {0}
<1>1. CASE l = k
  <2>1. /\ Len(inbox[k]) \in Nat \ {0}
        /\ Len(inbox'[k]) = Len(inbox[k]) - 1
        /\ \A j \in 1 .. (Len(inbox[k]) - 1) : inbox'[k][j] = inbox[k][j + 1]
    BY RestQueue
  <2>2. n \in 1 .. (Len(inbox[k]) - 1)
    BY <1>1, <2>1 DEF Positions
  <2> QED BY <1>1, <2>1, <2>2 DEF Positions
<1>2. CASE l # k
  <2>1. inbox'[l] = inbox[l] /\ Len(inbox[l]) \in Nat
    BY <1>2, RestQueue, LenProperties
  <2> QED BY <1>2, <2>1 DEF Positions
<1> QED BY <1>1, <1>2

\* A message that is there after Send(k, m) was there before or is m, the last.
LEMMA SentPlace ==
  ASSUME inbox \in [Cores -> Seq(Messages)], NEW k \in Cores,
         NEW m \in Messages, Send(k, m), NEW l \in Cores, NEW n \in Positions(l)'
  PROVE  \/ n \in Positions(l) /\ inbox'[l][n] = inbox[l][n]
         \/ /\ l = k /\ n = Len(inbox[k]) + 1 /\ inbox'[l][n] = m
            /\ n \notin Positions(l)
<1>1. CASE l = k
  <2>1. /\ Len(inbox[k]) \in Nat
        /\ Len(inbox'[k]) = Len(inbox[k]) + 1
        /\ \A j \in 1 .. Len(inbox[k]) : inbox'[k][j] = inbox[k][j]
        /\ inbox'[k][Len(inbox[k]) + 1] = m
    BY SendQueue
  <2> QED BY <1>1, <2>1 DEF Positions
<1>2. CASE l # k
  <2>1. inbox'[l] = inbox[l]
    BY <1>2, SendQueue
  <2> QED BY <1>2, <2>1 DEF Positions
<1> QED BY <1>1, <1>2

\* Taking a message leaves no second copy of it, and the others single.
LEMMA TakeOnce ==
  ASSUME inbox \in [Cores -> Seq(Messages)], NEW k \in Cores, inbox[k] # <<>>,
         inbox' = Rest(k), ResumedOnce
  PROVE  /\ ResumedOnce'
         /\ \A l \in Cores : \A n \in Positions(l)' :
              Resumes(inbox'[l][n]) => inbox'[l][n] # inbox[k][1]
<1>1. Len(inbox[k]) \in Nat \ {0} /\ 1 \in Positions(k)
  BY RestQueue DEF Positions
<1>2. ASSUME NEW l \in Cores, NEW n \in Positions(l)', Resumes(inbox'[l][n])
      PROVE  inbox'[l][n] # inbox[k][1]
  <2>1. CASE l = k
    <3>1. n + 1 \in Positions(l) /\ inbox'[l][n] = inbox[l][n + 1] /\ n \in Nat \ {0}
      BY <2>1, OldPlace
    <3>2. n + 1 # 1
      BY <3>1
    <3> QED BY <1>1, <1>2, <2>1, <3>1, <3>2 DEF ResumedOnce
  <2>2. CASE l # k
    <3>1. n \in Positions(l) /\ inbox'[l][n] = inbox[l][n]
      BY <2>2, OldPlace
    <3> QED BY <1>1, <1>2, <2>2, <3>1 DEF ResumedOnce
  <2> QED BY <2>1, <2>2
<1>3. ASSUME NEW l \in Cores, NEW j \in Cores, NEW n \in Positions(l)',
             NEW o \in Positions(j)', inbox'[l][n] = inbox'[j][o],
             Resumes(inbox'[l][n])
      PROVE  l = j /\ n = o
  <2> DEFINE old(x, y) == IF x = k THEN y + 1 ELSE y
  <2>1. /\ old(l, n) \in Positions(l) /\ inbox'[l][n] = inbox[l][old(l, n)]
        /\ n \in Nat
    BY OldPlace
  <2>2. /\ old(j, o) \in Positions(j) /\ inbox'[j][o] = inbox[j][old(j, o)]
        /\ o \in Nat
    BY OldPlace
  <2>3. l = j /\ old(l, n) = old(j, o)
    <3> HIDE DEF old
    <3>1. /\ inbox[l][old(l, n)] = inbox[j][old(j, o)]
          /\ Resumes(inbox[l][old(l, n)])
      BY <1>3, <2>1, <2>2, Zenon
    <3> QED BY <2>1, <2>2, <3>1, Zenon DEF ResumedOnce
  <2> QED BY <2>1, <2>2, <2>3
<1> QED BY <1>2, <1>3 DEF ResumedOnce

\* Sending a message that is not there yet keeps them single.
LEMMA SendOnce ==
  ASSUME inbox \in [Cores -> Seq(Messages)], NEW k \in Cores,
         NEW m \in Messages, Send(k, m), ResumedOnce,
         Resumes(m) => \A l \in Cores : \A n \in Positions(l) : inbox[l][n] # m
  PROVE  ResumedOnce'
<1> SUFFICES ASSUME NEW l \in Cores, NEW j \in Cores, NEW n \in Positions(l)',
                    NEW o \in Positions(j)', inbox'[l][n] = inbox'[j][o],
                    Resumes(inbox'[l][n])
             PROVE  l = j /\ n = o
  BY DEF ResumedOnce
<1>1. \/ n \in Positions(l) /\ inbox'[l][n] = inbox[l][n]
      \/ l = k /\ n = Len(inbox[k]) + 1 /\ inbox'[l][n] = m
  BY SentPlace
<1>2. \/ o \in Positions(j) /\ inbox'[j][o] = inbox[j][o]
      \/ j = k /\ o = Len(inbox[k]) + 1 /\ inbox'[j][o] = m
  BY SentPlace
<1> QED BY <1>1, <1>2 DEF ResumedOnce

\* How Append and Tail change the number of task_done messages.
LEMMA DoneCount ==
  ASSUME NEW s \in Seq(Messages)
  PROVE  /\ IsFiniteSet(DoneIn(s)) /\ Cardinality(DoneIn(s)) \in Nat
         /\ \A m \in Messages :
              Cardinality(DoneIn(Append(s, m))) =
                IF m.fn = "task_done" THEN Cardinality(DoneIn(s)) + 1
                ELSE Cardinality(DoneIn(s))
         /\ s # <<>> =>
              Cardinality(DoneIn(s)) =
                IF s[1].fn = "task_done" THEN Cardinality(DoneIn(Tail(s))) + 1
                ELSE Cardinality(DoneIn(Tail(s)))
<1>1. ASSUME NEW t \in Seq(Messages)
      PROVE  IsFiniteSet(DoneIn(t)) /\ Cardinality(DoneIn(t)) \in Nat
  <2>1. Len(t) \in Nat
    BY LenProperties
  <2>2. IsFiniteSet(1 .. Len(t))
    BY <2>1, FS_Interval
  <2>3. DoneIn(t) \subseteq 1 .. Len(t)
    BY DEF DoneIn
  <2> QED BY <2>2, <2>3, FS_Subset, FS_CardinalityType
<1>2. ASSUME NEW m \in Messages
      PROVE  Cardinality(DoneIn(Append(s, m))) =
               IF m.fn = "task_done" THEN Cardinality(DoneIn(s)) + 1
               ELSE Cardinality(DoneIn(s))
  <2>1. /\ Len(Append(s, m)) = Len(s) + 1 /\ Len(s) \in Nat
        /\ \A n \in 1 .. Len(s) : Append(s, m)[n] = s[n]
        /\ Append(s, m)[Len(s) + 1] = m
    BY AppendProperties, LenProperties
  <2>2. CASE m.fn = "task_done"
    <3>1. DoneIn(Append(s, m)) = DoneIn(s) \cup {Len(s) + 1}
      BY <2>1, <2>2 DEF DoneIn
    <3>2. Len(s) + 1 \notin DoneIn(s)
      BY <2>1 DEF DoneIn
    <3> QED BY <1>1, <2>2, <3>1, <3>2, FS_AddElement
  <2>3. CASE m.fn # "task_done"
    <3>1. DoneIn(Append(s, m)) = DoneIn(s)
      BY <2>1, <2>3 DEF DoneIn
    <3> QED BY <2>3, <3>1
  <2> QED BY <2>2, <2>3
<1>3. ASSUME s # <<>>
      PROVE  Cardinality(DoneIn(s)) =
               IF s[1].fn = "task_done" THEN Cardinality(DoneIn(Tail(s))) + 1
               ELSE Cardinality(DoneIn(Tail(s)))
  <2> DEFINE T == DoneIn(Tail(s))
             U == {n \in DoneIn(s) : n # 1}
             f == [n \in T |-> n + 1]
  <2>1. /\ Tail(s) \in Seq(Messages) /\ Len(Tail(s)) = Len(s) - 1
        /\ Len(s) \in Nat \ {0}
        /\ \A n \in 1 .. (Len(s) - 1) : Tail(s)[n] = s[n + 1]
    BY <1>3, HeadTailProperties, EmptySeq
  <2>2. \A n \in T : n \in Nat \ {0} /\ n + 1 \in U
    BY <2>1 DEF DoneIn
  <2>3. \A n \in U : n - 1 \in T /\ n \in Nat
    BY <2>1 DEF DoneIn
  <2>4. f \in Bijection(T, U)
    <3> HIDE DEF T, U
    <3>1. f \in [T -> U]
      BY <2>2
    <3>2. \A a, b \in T : f[a] = f[b] => a = b
      BY <2>2
    <3>3. \A b \in U : \E a \in T : f[a] = b
      <4> TAKE b \in U
      <4>1. b - 1 \in T /\ b \in Nat
        BY <2>3
      <4>2. f[b - 1] = b
        BY <4>1
      <4> QED BY <4>1, <4>2
    <3> QED BY <3>1, <3>2, <3>3 DEF Bijection, Injection, Surjection, IsInjective
  <2>5. IsFiniteSet(T) /\ IsFiniteSet(U) /\ Cardinality(U) = Cardinality(T)
    <3>1. IsFiniteSet(T)
      BY <1>1, <2>1
    <3> QED BY <2>4, <3>1, FS_Bijection DEF ExistsBijection
  <2>6. CASE s[1].fn = "task_done"
    <3>1. DoneIn(s) = U \cup {1} /\ 1 \notin U
      BY <2>1, <2>6 DEF DoneIn
    <3> QED BY <2>5, <2>6, <3>1, FS_AddElement
  <2>7. CASE s[1].fn # "task_done"
    <3>1. DoneIn(s) = U
      BY <2>7 DEF DoneIn
    <3> QED BY <2>5, <2>7, <3>1
  <2> QED BY <2>6, <2>7
<1> QED BY <1>1, <1>2, <1>3

-----------------------------------------------------------------------------
(***************************************************************************)
(* Steps that leave the main thread, the channels and the queues alone.    *)
(***************************************************************************)

\* The tasks counted by alive_tasks are finitely many.
LEMMA AliveFinite ==
  ASSUME TypeOK, Progress
  PROVE  /\ Sent \subseteq Coros /\ IsFiniteSet(Alive)
         /\ Cardinality(Alive) \in Nat
<1>1. Sent \subseteq Coros
  <2>1. /\ size \in Nat /\ i \in Nat /\ NumTasks \in Nat
        /\ size <= NumTasks /\ (main = "submit" => i <= size)
    BY Constants DEF TypeOK, Progress
  <2>2. CASE main = "poll"
    BY <2>1, <2>2 DEF Sent, Coros
  <2>3. CASE main = "submit"
    BY <2>1, <2>3 DEF Sent, Coros
  <2> QED BY <2>2, <2>3 DEF Sent
<1>2. Alive \subseteq Coros
  BY <1>1 DEF Alive
<1> QED BY <1>1, <1>2, Constants, FS_Subset, FS_CardinalityType

\* A task that runs moves on, and with it only its core's stack.
LEMMA LocalStep ==
  ASSUME SchedulerInv, TypeOK',
         UNCHANGED <<main, i, size, runs, appVars, inbox>>,
         NEW k \in Cores, stack[k] # <<>>,
         \A l \in Cores : l # k => stack'[l] = stack[l],
         \A c \in Coros :
           \/ pc'[c] = pc[c]
           \/ /\ pc[c] \notin {"none", "added", "yielded"}
              /\ pc[c] \in Pending <=> pc'[c] \in Pending
  PROVE  SchedulerInv'
<1>1. Progress'
  BY DEF SchedulerInv, Progress, appVars
<1>2. MessagesSound'
  <2> SUFFICES ASSUME NEW l \in Cores, NEW n \in Positions(l)
               PROVE  Sound(l, n)'
    BY DEF MessagesSound, Positions
  <2>1. Sound(l, n)
    BY DEF SchedulerInv, MessagesSound
  <2> QED BY <2>1 DEF Sound, appVars
<1>3. ResumedOnce'
  BY DEF SchedulerInv, ResumedOnce, Positions, Resumes
<1>4. Counts'
  <2>1. Sent' = Sent /\ Sent \subseteq Coros
    BY AliveFinite DEF Sent, SchedulerInv
  <2>2. Alive' = Alive
    BY <2>1 DEF Alive
  <2>3. Done' = Done
    BY DEF Done
  <2> QED BY <2>2, <2>3 DEF SchedulerInv, Counts, appVars
<1>5. Phases'
  BY DEF SchedulerInv, Phases, appVars
<1>6. Channels'
  BY DEF SchedulerInv, Channels, appVars
<1>7. ExitOrder'
  BY DEF SchedulerInv, ExitOrder, appVars, Pending
<1> QED BY <1>1, <1>2, <1>3, <1>4, <1>5, <1>6, <1>7 DEF SchedulerInv

\* The frames of the code are frames, and Push and Pop touch one stack.
LEMMA StackType ==
  ASSUME stack \in [Cores -> Seq(Frames)], NEW k \in Cores
  PROVE  /\ stack[k] # <<>> /\ Pop(k) =>
              /\ stack' \in [Cores -> Seq(Frames)]
              /\ \A l \in Cores : l # k => stack'[l] = stack[l]
         /\ \A c \in Coros :
              /\ stack[k] # <<>>
                   /\ stack' = [stack EXCEPT ![k] = <<PushBack(c)>> \o Tail(@)] =>
                   /\ stack' \in [Cores -> Seq(Frames)]
                   /\ \A l \in Cores : l # k => stack'[l] = stack[l]
              /\ Push(k, <<Coroutine(c)>>) =>
                   /\ stack' \in [Cores -> Seq(Frames)]
                   /\ \A l \in Cores : l # k => stack'[l] = stack[l]
              /\ Push(k, <<Coroutine(c), ServiceThreadRun(c)>>) =>
                   /\ stack' \in [Cores -> Seq(Frames)]
                   /\ \A l \in Cores : l # k => stack'[l] = stack[l]
<1>1. stack[k] \in Seq(Frames)
  OBVIOUS
<1>2. stack[k] # <<>> => Tail(stack[k]) \in Seq(Frames)
  BY <1>1, HeadTailProperties
<1>3. ASSUME stack[k] # <<>>, Pop(k)
      PROVE  /\ stack' \in [Cores -> Seq(Frames)]
             /\ \A l \in Cores : l # k => stack'[l] = stack[l]
  BY <1>2, <1>3 DEF Pop
<1>4. ASSUME NEW fs \in Seq(Frames), Push(k, fs)
      PROVE  /\ stack' \in [Cores -> Seq(Frames)]
             /\ \A l \in Cores : l # k => stack'[l] = stack[l]
  <2>1. fs \o stack[k] \in Seq(Frames)
    BY <1>1, ConcatProperties
  <2> QED BY <1>4, <2>1 DEF Push
<1>5. ASSUME NEW c \in Coros
      PROVE  /\ <<Coroutine(c)>> \in Seq(Frames)
             /\ <<Coroutine(c), ServiceThreadRun(c)>> \in Seq(Frames)
             /\ <<PushBack(c)>> \in Seq(Frames)
  <2>1. /\ Coroutine(c) \in Frames /\ ServiceThreadRun(c) \in Frames
        /\ PushBack(c) \in Frames
    BY DEF Coroutine, ServiceThreadRun, PushBack, Frames
  <2> HIDE DEF Coroutine, ServiceThreadRun, PushBack, Frames
  <2> QED BY <2>1
<1>6. ASSUME NEW c \in Coros, stack[k] # <<>>,
             stack' = [stack EXCEPT ![k] = <<PushBack(c)>> \o Tail(@)]
      PROVE  /\ stack' \in [Cores -> Seq(Frames)]
             /\ \A l \in Cores : l # k => stack'[l] = stack[l]
  <2>1. <<PushBack(c)>> \o Tail(stack[k]) \in Seq(Frames)
    BY <1>2, <1>5, <1>6, ConcatProperties
  <2> QED BY <1>6, <2>1
<1> QED BY <1>3, <1>4, <1>5, <1>6

\* A parked task is off the stack and still alive.
LEMMA ParkKeeps ==
  ASSUME SchedulerInv, NEW k \in Cores, NEW c \in Coros, Park(k, c)
  PROVE  SchedulerInv'
<1>1. TypeOK'
  <2>1. stack' \in [Cores -> Seq(Frames)]
    BY StackType DEF Park, Executes, Top, SchedulerInv, TypeOK
  <2>2. awaits' \in [Coros -> 0 .. MaxAwaits]
    <3>1. awaits \in [Coros -> 0 .. MaxAwaits] /\ MaxAwaits \in Nat
      BY SchedulerAssumption DEF SchedulerInv, TypeOK
    <3> QED BY <3>1 DEF Park, CountAwait
  <2>3. pc' \in [Coros -> PcValues]
    BY DEF Park, SchedulerInv, TypeOK, PcValues
  <2> QED BY <2>1, <2>2, <2>3 DEF Park, SchedulerInv, TypeOK, mainVars, appVars
<1>2. stack[k] # <<>> /\ \A l \in Cores : l # k => stack'[l] = stack[l]
  BY StackType DEF Park, Executes, Top, SchedulerInv, TypeOK
<1>3. \A d \in Coros : \/ pc'[d] = pc[d]
                       \/ /\ pc[d] \notin {"none", "added", "yielded"}
                          /\ pc[d] \in Pending <=> pc'[d] \in Pending
  BY DEF Park, Executes, SchedulerInv, TypeOK, Pending, Started
<1>4. UNCHANGED <<main, i, size, runs, appVars, inbox>>
  BY DEF Park, mainVars
<1> QED BY <1>1, <1>2, <1>3, <1>4, LocalStep

\* The task that unlock() or notify() resumes runs on top of the caller.
LEMMA UnparkKeeps ==
  ASSUME SchedulerInv, NEW k \in Cores, NEW c \in Coros, NEW d \in Coros,
         Unpark(k, c, d)
  PROVE  SchedulerInv'
<1>1. TypeOK'
  <2>1. stack' \in [Cores -> Seq(Frames)]
    BY StackType DEF Unpark, SchedulerInv, TypeOK
  <2>2. pc' \in [Coros -> PcValues]
    BY DEF Unpark, SchedulerInv, TypeOK, PcValues
  <2> QED BY <2>1, <2>2 DEF Unpark, SchedulerInv, TypeOK, mainVars, appVars
<1>2. stack[k] # <<>> /\ \A l \in Cores : l # k => stack'[l] = stack[l]
  BY StackType DEF Unpark, Executes, Top, SchedulerInv, TypeOK
<1>3. \A e \in Coros : \/ pc'[e] = pc[e]
                       \/ /\ pc[e] \notin {"none", "added", "yielded"}
                          /\ pc[e] \in Pending <=> pc'[e] \in Pending
  BY DEF Unpark, Executes, SchedulerInv, TypeOK, Pending, Started
<1>4. UNCHANGED <<main, i, size, runs, appVars, inbox>>
  BY DEF Unpark, mainVars
<1> QED BY <1>1, <1>2, <1>3, <1>4, LocalStep

\* A task that has sent its task_done no longer counts as alive.
LEMMA MarkDoneKeeps ==
  ASSUME SchedulerInv, NEW k \in Cores, NEW c \in Coros, MarkDone(k, c)
  PROVE  SchedulerInv'
<1>1. TypeOK'
  BY DEF MarkDone, SchedulerInv, TypeOK, PcValues, mainVars, appVars
<1>2. stack[k] # <<>> /\ \A l \in Cores : l # k => stack'[l] = stack[l]
  BY DEF MarkDone, Executes, Top
<1>3. \A d \in Coros : \/ pc'[d] = pc[d]
                       \/ /\ pc[d] \notin {"none", "added", "yielded"}
                          /\ pc[d] \in Pending <=> pc'[d] \in Pending
  BY DEF MarkDone, Executes, SchedulerInv, TypeOK, Pending, Started
<1>4. UNCHANGED <<main, i, size, runs, appVars, inbox>>
  BY DEF MarkDone, mainVars
<1> QED BY <1>1, <1>2, <1>3, <1>4, LocalStep

\* A finished coroutine is popped from the stack.
LEMMA FinalSuspendKeeps ==
  ASSUME SchedulerInv, NEW k \in Cores, NEW c \in Coros, FinalSuspend(k, c)
  PROVE  SchedulerInv'
<1>1. TypeOK'
  <2>1. stack' \in [Cores -> Seq(Frames)]
    BY StackType DEF FinalSuspend, Executes, Top, SchedulerInv, TypeOK
  <2>2. /\ pc' \in [Coros -> PcValues]
        /\ fault' \in {"none", "null handle", "closed desc", "destroyed frame"}
    BY DEF FinalSuspend, SchedulerInv, TypeOK, PcValues
  <2> QED BY <2>1, <2>2 DEF FinalSuspend, SchedulerInv, TypeOK, mainVars, appVars
<1>2. stack[k] # <<>> /\ \A l \in Cores : l # k => stack'[l] = stack[l]
  BY StackType DEF FinalSuspend, Executes, Top, SchedulerInv, TypeOK
<1>3. \A d \in Coros : \/ pc'[d] = pc[d]
                       \/ /\ pc[d] \notin {"none", "added", "yielded"}
                          /\ pc[d] \in Pending <=> pc'[d] \in Pending
  BY DEF FinalSuspend, Executes, SchedulerInv, TypeOK, Pending, Started
<1>4. UNCHANGED <<main, i, size, runs, appVars, inbox>>
  BY DEF FinalSuspend, mainVars
<1> QED BY <1>1, <1>2, <1>3, <1>4, LocalStep

\* service_thread_run() replaces its frame by that of push_back(), or pops it.
LEMMA CheckDoneKeeps ==
  ASSUME SchedulerInv, NEW k \in Cores, NEW c \in Coros, CheckDone(k, c)
  PROVE  SchedulerInv'
<1>1. /\ stack' \in [Cores -> Seq(Frames)]
      /\ stack[k] # <<>> /\ \A l \in Cores : l # k => stack'[l] = stack[l]
  BY StackType DEF CheckDone, Top, SchedulerInv, TypeOK
<1>2. TypeOK'
  <2>1. /\ frame' \in [Coros -> {"none", "live", "destroyed"}]
        /\ wrapper_tasks' \in [next : [Entries -> Entries], last : Entries]
    <3>1. c \in Entries /\ End \in Entries
      BY Constants DEF Coros, Entries, End
    <3>2. /\ frame \in [Coros -> {"none", "live", "destroyed"}]
          /\ wrapper_tasks \in [next : [Entries -> Entries], last : Entries]
      BY DEF SchedulerInv, TypeOK
    <3>3. CASE UNCHANGED wrapper_tasks
      BY <3>2, <3>3 DEF CheckDone
    <3>4. CASE wrapper_tasks' =
            [wrapper_tasks EXCEPT !.next = [@ EXCEPT ![wrapper_tasks.last] = c,
                                                     ![c] = End]]
      BY <3>1, <3>2, <3>4 DEF CheckDone
    <3> QED BY <3>3, <3>4 DEF CheckDone
  <2> QED BY <1>1, <2>1 DEF CheckDone, SchedulerInv, TypeOK, mainVars, appVars
<1>3. \A d \in Coros : pc'[d] = pc[d]
  BY DEF CheckDone
<1>4. UNCHANGED <<main, i, size, runs, appVars, inbox>>
  BY DEF CheckDone, mainVars
<1> QED BY <1>1, <1>2, <1>3, <1>4, LocalStep

\* The end of push_back() pops its frame.
LEMMA PushBackEndsKeeps ==
  ASSUME SchedulerInv, NEW k \in Cores, NEW c \in Coros, PushBackEnds(k, c)
  PROVE  SchedulerInv'
<1>1. /\ stack' \in [Cores -> Seq(Frames)]
      /\ stack[k] # <<>> /\ \A l \in Cores : l # k => stack'[l] = stack[l]
  BY StackType DEF PushBackEnds, Top, SchedulerInv, TypeOK
<1>2. TypeOK'
  <2>1. wrapper_tasks' \in [next : [Entries -> Entries], last : Entries]
    <3>1. c \in Entries
      BY Constants DEF Coros, Entries
    <3> QED BY <3>1 DEF PushBackEnds, SchedulerInv, TypeOK
  <2> QED BY <1>1, <2>1 DEF PushBackEnds, SchedulerInv, TypeOK, mainVars, appVars
<1>3. \A d \in Coros : pc'[d] = pc[d]
  BY DEF PushBackEnds
<1>4. UNCHANGED <<main, i, size, runs, appVars, inbox>>
  BY DEF PushBackEnds, mainVars
<1> QED BY <1>1, <1>2, <1>3, <1>4, LocalStep

-----------------------------------------------------------------------------
(***************************************************************************)
(* Steps of a task that send a message.                                    *)
(***************************************************************************)

\* Task code runs between the start of its thread and the shutdown, on a core
\* that has its channel.
LEMMA BodyRuns ==
  ASSUME SchedulerInv, NEW k \in Cores, NEW c \in Coros, Executes(k, c, "body")
  PROVE  /\ ~stopping /\ main \in {"submit", "poll"} /\ desc
         /\ channels[k] = "open" /\ channels[0] = "open"
         /\ c < size /\ c \in Sent /\ stack[k] # <<>> /\ pc[c] = "body"
<1>1. stack[k] # <<>> /\ pc[c] = "body"
  BY DEF Executes, Top
<1>2. c \in Nat /\ size \in Nat /\ i \in Nat
  BY Constants DEF SchedulerInv, TypeOK
<1>3. c < size
  <2>1. ~(c >= size)
    BY <1>1 DEF SchedulerInv, Progress
  <2> QED BY <1>2, <2>1
<1>4. ~stopping
  BY <1>1, <1>3 DEF SchedulerInv, ExitOrder, Started
<1>5. main \in {"submit", "poll"}
  BY <1>1 DEF SchedulerInv, Phases, TypeOK
<1>6. desc
  BY <1>4, <1>5 DEF SchedulerInv, Phases
<1>7. channels[k] = "open" /\ channels[0] = "open"
  BY <1>1, <1>4, <1>5, Constants DEF SchedulerInv, Channels
<1>8. c \in Sent
  <2>1. CASE main = "poll"
    BY <1>2, <1>3, <2>1 DEF Sent
  <2>2. CASE main = "submit"
    <3>1. ~(c >= i)
      BY <1>1, <1>3, <2>2 DEF SchedulerInv, Progress
    <3> QED BY <1>2, <2>2, <3>1 DEF Sent
  <2> QED BY <1>5, <2>1, <2>2
<1> QED BY <1>1, <1>3, <1>4, <1>5, <1>6, <1>7, <1>8

\* What a message sent or taken means for the number of task_done messages.
LEMMA DoneSteps ==
  ASSUME inbox \in [Cores -> Seq(Messages)], NEW k \in Cores
  PROVE  /\ Cardinality(Done) \in Nat
         /\ \A m \in Messages : Send(k, m) =>
              Cardinality(Done)' = IF k = 0 /\ m.fn = "task_done"
                                   THEN Cardinality(Done) + 1
                                   ELSE Cardinality(Done)
         /\ inbox[k] # <<>> /\ inbox'[0] = Rest(k)[0] =>
              Cardinality(Done)' = IF k = 0 /\ inbox[k][1].fn = "task_done"
                                   THEN Cardinality(Done) - 1
                                   ELSE Cardinality(Done)
<1>1. inbox[0] \in Seq(Messages)
  BY Constants
<1>2. Cardinality(Done) \in Nat
  BY <1>1, DoneCount DEF Done
<1>3. ASSUME NEW m \in Messages, Send(k, m)
      PROVE  Cardinality(Done)' = IF k = 0 /\ m.fn = "task_done"
                                  THEN Cardinality(Done) + 1
                                  ELSE Cardinality(Done)
  <2>1. CASE k = 0
    <3>1. inbox'[0] = Append(inbox[0], m)
      BY <1>3, <2>1, Constants DEF Send
    <3> QED BY <1>1, <2>1, <3>1, DoneCount DEF Done
  <2>2. CASE k # 0
    <3>1. inbox'[0] = inbox[0]
      BY <1>3, <2>2, Constants DEF Send
    <3> QED BY <2>2, <3>1 DEF Done
  <2> QED BY <2>1, <2>2
<1>4. ASSUME inbox[k] # <<>>, inbox'[0] = Rest(k)[0]
      PROVE  Cardinality(Done)' = IF k = 0 /\ inbox[k][1].fn = "task_done"
                                  THEN Cardinality(Done) - 1
                                  ELSE Cardinality(Done)
  <2>1. CASE k = 0
    <3>1. inbox'[0] = Tail(inbox[0])
      BY <1>4, <2>1, Constants DEF Rest
    <3>2. Tail(inbox[0]) \in Seq(Messages)
      BY <1>1, <1>4, <2>1, HeadTailProperties
    <3>3. Cardinality(DoneIn(Tail(inbox[0]))) \in Nat
      BY <3>2, DoneCount
    <3>4. Cardinality(DoneIn(inbox[0])) =
            IF inbox[0][1].fn = "task_done"
            THEN Cardinality(DoneIn(Tail(inbox[0]))) + 1
            ELSE Cardinality(DoneIn(Tail(inbox[0])))
      BY <1>1, <1>4, <2>1, DoneCount
    <3>5. /\ Cardinality(Done)' = Cardinality(DoneIn(Tail(inbox[0])))
          /\ Cardinality(Done) = Cardinality(DoneIn(inbox[0]))
      BY <3>1 DEF Done
    <3> QED BY <2>1, <3>3, <3>4, <3>5
  <2>2. CASE k # 0
    <3>1. inbox'[0] = inbox[0]
      BY <1>4, <2>2, Constants DEF Rest
    <3> QED BY <2>2, <3>1 DEF Done
  <2> QED BY <2>1, <2>2
<1> QED BY <1>2, <1>3, <1>4

\* yield() replaces the task on the stack by the one message that resumes it.
LEMMA YieldKeeps ==
  ASSUME SchedulerInv, NEW k \in Cores, NEW c \in Coros, Yield(k, c)
  PROVE  SchedulerInv'
<1> DEFINE m == Msg("service_thread_run_yield", c)
<1>1. /\ m \in Messages /\ m.fn = "service_thread_run_yield" /\ m.arg = c
      /\ Send(k, m) /\ Executes(k, c, "body") /\ Pop(k)
      /\ pc' = [pc EXCEPT ![c] = "yielded"]
      /\ UNCHANGED <<mainVars, appVars, handle, frame, wrapper_tasks, fault>>
  BY MessageTypes DEF Yield, Handlers
<1> HIDE DEF m
<1>2. /\ ~stopping /\ main \in {"submit", "poll"} /\ desc
      /\ channels[k] = "open" /\ channels[0] = "open"
      /\ c < size /\ c \in Sent /\ stack[k] # <<>> /\ pc[c] = "body"
  BY <1>1, BodyRuns
<1>3. inbox \in [Cores -> Seq(Messages)]
  BY DEF SchedulerInv, TypeOK
<1>4. /\ stack' \in [Cores -> Seq(Frames)]
      /\ \A l \in Cores : l # k => stack'[l] = stack[l]
  BY <1>1, <1>2, StackType DEF SchedulerInv, TypeOK
<1>5. TypeOK'
  <2>1. inbox' \in [Cores -> Seq(Messages)]
    BY <1>1, <1>3, SendQueue
  <2>2. awaits' \in [Coros -> 0 .. MaxAwaits]
    <3>1. awaits \in [Coros -> 0 .. MaxAwaits] /\ MaxAwaits \in Nat
      BY SchedulerAssumption DEF SchedulerInv, TypeOK
    <3> QED BY <3>1 DEF Yield, CountAwait
  <2>3. pc' \in [Coros -> PcValues]
    BY <1>1 DEF SchedulerInv, TypeOK, PcValues
  <2> QED BY <1>1, <1>4, <2>1, <2>2, <2>3 DEF SchedulerInv, TypeOK, mainVars, appVars
<1>6. Progress'
  BY <1>1, <1>2 DEF SchedulerInv, Progress, TypeOK, mainVars
<1>7. MessagesSound'
  <2> SUFFICES ASSUME NEW l \in Cores, NEW n \in Positions(l)'
               PROVE  Sound(l, n)'
    BY DEF MessagesSound
  <2>1. CASE n \in Positions(l) /\ inbox'[l][n] = inbox[l][n]
    <3>1. Sound(l, n)
      BY <2>1 DEF SchedulerInv, MessagesSound
    <3> QED BY <1>1, <1>2, <2>1, <3>1 DEF Sound, appVars, mainVars, SchedulerInv, TypeOK
  <2>2. CASE inbox'[l][n] = m
    BY <1>1, <2>2 DEF Sound, SchedulerInv, TypeOK
  <2> QED BY <1>1, <1>3, <2>1, <2>2, SentPlace
<1>8. ResumedOnce'
  <2>1. \A l \in Cores : \A n \in Positions(l) : inbox[l][n] # m
    BY <1>1, <1>2 DEF SchedulerInv, MessagesSound, Sound
  <2> QED BY <1>1, <1>3, <2>1, SendOnce DEF SchedulerInv
<1>9. Counts'
  <2>1. Alive' = Alive
    <3>1. Sent' = Sent /\ Sent \subseteq Coros
      BY <1>1, AliveFinite DEF Sent, SchedulerInv, mainVars
    <3>2. \A d \in Coros : pc'[d] \in Pending <=> pc[d] \in Pending
      BY <1>1, <1>2 DEF SchedulerInv, TypeOK, Pending, Started
    <3> QED BY <3>1, <3>2 DEF Alive
  <2>2. Cardinality(Done)' = Cardinality(Done)
    BY <1>1, <1>3, DoneSteps
  <2> QED BY <1>1, <2>1, <2>2 DEF SchedulerInv, Counts, mainVars, appVars
<1>10. Phases'
  BY <1>1, <1>2 DEF SchedulerInv, Phases, mainVars, appVars
<1>11. Channels'
  <2>1. \A l \in Cores : l # k => inbox'[l] = inbox[l]
    BY <1>1, <1>3, SendQueue
  <2> QED BY <1>1, <1>2, <1>4, <2>1 DEF SchedulerInv, Channels, mainVars, appVars
<1>12. ExitOrder'
  BY <1>1, <1>2 DEF ExitOrder, appVars
<1> QED
  BY <1>5, <1>6, <1>7, <1>8, <1>9, <1>10, <1>11, <1>12 DEF SchedulerInv

\* A task that returns is replaced in the count by its task_done message.
LEMMA TaskReturnKeeps ==
  ASSUME SchedulerInv, NEW k \in Cores, NEW c \in Coros, TaskReturn(k, c)
  PROVE  SchedulerInv'
<1> DEFINE m == Msg("task_done", 0)
<1>1. /\ m \in Messages /\ m.fn = "task_done"
      /\ Send(0, m) /\ Executes(k, c, "body")
      /\ pc' = [pc EXCEPT ![c] = "ending"]
      /\ UNCHANGED <<mainVars, appVars, handle, stack, awaits, frame,
                     wrapper_tasks, fault>>
  BY MessageTypes, Constants DEF TaskReturn, Handlers
<1> HIDE DEF m
<1>2. /\ ~stopping /\ main \in {"submit", "poll"} /\ desc
      /\ channels[k] = "open" /\ channels[0] = "open"
      /\ c < size /\ c \in Sent /\ stack[k] # <<>> /\ pc[c] = "body"
  BY <1>1, BodyRuns
<1>3. inbox \in [Cores -> Seq(Messages)] /\ 0 \in Cores
  BY Constants DEF SchedulerInv, TypeOK
<1>5. TypeOK'
  <2>1. inbox' \in [Cores -> Seq(Messages)]
    BY <1>1, <1>3, SendQueue
  <2>2. pc' \in [Coros -> PcValues]
    BY <1>1 DEF SchedulerInv, TypeOK, PcValues
  <2> QED BY <1>1, <2>1, <2>2 DEF SchedulerInv, TypeOK, mainVars, appVars
<1>6. Progress'
  BY <1>1, <1>2 DEF SchedulerInv, Progress, TypeOK, mainVars
<1>7. MessagesSound'
  <2> SUFFICES ASSUME NEW l \in Cores, NEW n \in Positions(l)'
               PROVE  Sound(l, n)'
    BY DEF MessagesSound
  <2>1. CASE n \in Positions(l) /\ inbox'[l][n] = inbox[l][n]
    <3>1. Sound(l, n)
      BY <2>1 DEF SchedulerInv, MessagesSound
    <3> QED BY <1>1, <1>2, <2>1, <3>1 DEF Sound, appVars, mainVars, SchedulerInv, TypeOK
  <2>2. CASE l = 0 /\ inbox'[l][n] = m
    BY <1>1, <2>2 DEF Sound
  <2> QED BY <1>1, <1>3, <2>1, <2>2, SentPlace
<1>8. ResumedOnce'
  <2>1. ~Resumes(m)
    BY <1>1 DEF Resumes
  <2> QED BY <1>1, <1>3, <2>1, SendOnce DEF SchedulerInv
<1>9. Counts'
  <2>1. Alive' = Alive \ {c} /\ c \in Alive
    <3>1. Sent' = Sent /\ Sent \subseteq Coros
      BY <1>1, AliveFinite DEF Sent, SchedulerInv, mainVars
    <3>2. /\ \A d \in Coros : pc'[d] \in Pending <=> d # c /\ pc[d] \in Pending
          /\ pc[c] \in Pending
      BY <1>1, <1>2 DEF SchedulerInv, TypeOK, Pending, Started
    <3> QED BY <1>2, <3>1, <3>2 DEF Alive
  <2>2. /\ Cardinality(Alive') = Cardinality(Alive) - 1
        /\ Cardinality(Alive) \in Nat
    BY <2>1, AliveFinite, FS_RemoveElement DEF SchedulerInv
  <2>3. Cardinality(Done)' = Cardinality(Done) + 1 /\ Cardinality(Done) \in Nat
    BY <1>1, <1>3, DoneSteps
  <2>4. /\ Counts /\ main' = main /\ i' = i /\ alive_tasks' = alive_tasks
    BY <1>1 DEF SchedulerInv, mainVars, appVars
  <2>5. Cardinality(Alive)' + Cardinality(Done)' = Cardinality(Alive) + Cardinality(Done)
    BY <2>2, <2>3
  <2> QED BY <2>4, <2>5 DEF Counts
<1>10. Phases'
  BY <1>1, <1>2 DEF SchedulerInv, Phases, mainVars, appVars
<1>11. Channels'
  <2>1. \A l \in Cores : l # 0 => inbox'[l] = inbox[l]
    BY <1>1, <1>3, SendQueue
  <2> QED BY <1>1, <1>2, <2>1 DEF SchedulerInv, Channels, mainVars, appVars
<1>12. ExitOrder'
  BY <1>1, <1>2 DEF ExitOrder, appVars
<1> QED
  BY <1>5, <1>6, <1>7, <1>8, <1>9, <1>10, <1>11, <1>12 DEF SchedulerInv

-----------------------------------------------------------------------------
(***************************************************************************)
(* The main thread in scheduler_init().                                    *)
(***************************************************************************)

\* run() starts with nothing under way; tasks of the last run() only are new.
LEMMA RunKeeps ==
  ASSUME OnlyLastRunHasTasks, SchedulerInv, Run
  PROVE  SchedulerInv'
<1>1. /\ main = "app" /\ runs < Len(TaskCounts) /\ size' = TaskCounts[runs + 1]
      /\ runs' = runs + 1 /\ main' = "create" /\ i' = 0 /\ alive_tasks' = 0
      /\ desc' = TRUE /\ stopping' = FALSE
      /\ UNCHANGED <<channels, inbox, stack, awaits, frame, wrapper_tasks, fault>>
  BY DEF Run
<1>2. size = 0
  BY <1>1 DEF SchedulerInv, Progress
<1>3. runs \in Nat /\ Len(TaskCounts) \in Nat /\ runs + 1 \in 1 .. Len(TaskCounts)
  <2>1. runs \in 0 .. Len(TaskCounts) /\ Len(TaskCounts) \in Nat
    BY SchedulerAssumption, LenProperties DEF SchedulerInv, TypeOK
  <2> QED BY <1>1, <2>1
<1>4. size' \in 0 .. NumTasks
  <2>1. TaskCounts \in [1 .. Len(TaskCounts) -> 0 .. NumTasks]
    BY SchedulerAssumption, LenProperties
  <2> QED BY <1>1, <1>3, <2>1
<1>5. /\ handle' = [c \in Coros |-> handle[c] \/ c \in 0 .. (size' - 1)]
      /\ pc' = [c \in Coros |-> IF c \in 0 .. (size' - 1) THEN "added" ELSE pc[c]]
  BY <1>1, <1>2 DEF Run
<1>6. \A k \in Cores : inbox[k] = <<>> /\ stack[k] = <<>> /\ channels[k] # "open"
  BY <1>1 DEF SchedulerInv, Phases
<1>7. TypeOK'
  <2>1. pc' \in [Coros -> PcValues] /\ handle' \in [Coros -> BOOLEAN]
    BY <1>5 DEF SchedulerInv, TypeOK, PcValues
  <2>2. runs' \in 0 .. Len(TaskCounts) /\ size' \in Nat /\ i' \in Nat
    <3>1. NumTasks \in Nat
      BY Constants
    <3>2. size' \in Nat
      BY <1>4, <3>1
    <3> QED BY <1>1, <1>3, <3>2
  <2> QED BY <1>1, <2>1, <2>2 DEF SchedulerInv, TypeOK
<1>8. Progress'
  <2>1. runs' < Len(TaskCounts) => size' = 0
    BY <1>1, <1>3 DEF OnlyLastRunHasTasks
  <2>2. /\ \A c \in Coros : c \in Nat
        /\ size' \in Nat /\ size' <= NumTasks
    <3>1. NumTasks \in Nat /\ Coros \subseteq Nat
      BY Constants
    <3> QED BY <1>4, <3>1
  <2>3. \A c \in Coros : /\ c >= size' => pc'[c] = pc[c]
                         /\ c < size' => pc'[c] = "added"
    <3> SUFFICES ASSUME NEW c \in Coros
                 PROVE  /\ c >= size' => pc'[c] = pc[c]
                        /\ c < size' => pc'[c] = "added"
      OBVIOUS
    <3>1. pc'[c] = IF c \in 0 .. (size' - 1) THEN "added" ELSE pc[c]
      BY <1>5
    <3>2. c \in 0 .. (size' - 1) <=> c < size'
      BY <2>2
    <3>3. c >= size' <=> ~(c < size')
      BY <2>2
    <3> QED BY <3>1, <3>2, <3>3
  <2>4. \A c \in Coros : pc[c] = "none"
    BY <1>2, <2>2 DEF SchedulerInv, Progress
  <2>5. i' < num_threads
    <3>1. num_threads \in Nat \ {0}
      BY Constants
    <3> QED BY <1>1, <3>1
  <2> QED BY <1>1, <2>1, <2>2, <2>3, <2>4, <2>5 DEF Progress
<1>9. \A k \in Cores : Positions(k)' = {}
  BY <1>1, <1>6 DEF Positions
<1>10. MessagesSound' /\ ResumedOnce'
  BY <1>9 DEF MessagesSound, ResumedOnce
<1>11. Counts'
  BY <1>1 DEF Counts
<1>12. Phases'
  BY <1>1, <1>6, Constants DEF Phases
<1>13. Channels'
  <2>1. \A k \in Cores : k >= i'
    BY <1>1, Constants
  <2> QED BY <1>1, <1>6, <2>1 DEF Channels
<1>14. ExitOrder'
  BY <1>1 DEF ExitOrder
<1> QED BY <1>7, <1>8, <1>10, <1>11, <1>12, <1>13, <1>14 DEF SchedulerInv

\* A new thread finds thread_init_get_channel first in its queue.
LEMMA CreateThreadKeeps ==
  ASSUME SchedulerInv, CreateThread
  PROVE  SchedulerInv'
<1> DEFINE m == Msg("thread_init_get_channel", i)
<1>1. /\ main = "create" /\ i \in Nat /\ i < num_threads /\ ~stopping /\ desc
      /\ inbox[0] = <<>> /\ alive_tasks = 0
      /\ \A k \in Cores : /\ stack[k] = <<>>
                          /\ k >= i => inbox[k] = <<>> /\ channels[k] # "open"
  BY DEF CreateThread, SchedulerInv, TypeOK, Progress, Phases
<1>2. i \in Cores /\ 0 \in Cores /\ Cores \subseteq Nat /\ num_threads \in Nat
  BY <1>1, Constants DEF Cores
<1>3. /\ UNCHANGED <<runs, size, handle, desc, alive_tasks, stopping, stack,
                     coroVars, fault>>
      /\ \/ i + 1 = num_threads /\ main' = "submit" /\ i' = 0
         \/ i + 1 # num_threads /\ main' = "create" /\ i' = i + 1
  BY <1>1 DEF CreateThread
<1>4. /\ m \in Messages /\ m.fn = "thread_init_get_channel" /\ m.arg = i
  BY <1>2, MessageTypes DEF Handlers
<1>5. /\ i = 0 => channels' = [channels EXCEPT ![i] = "open"] /\ inbox' = inbox
      /\ i # 0 => Send(i, m) /\ channels' = channels
  BY DEF CreateThread
<1> HIDE DEF m
<1>6. inbox \in [Cores -> Seq(Messages)]
  BY DEF SchedulerInv, TypeOK
<1>7. \A k \in Cores : k # i => inbox'[k] = inbox[k] /\ channels'[k] = channels[k]
  <2>1. CASE i = 0
    BY <1>5, <2>1 DEF SchedulerInv, TypeOK
  <2>2. CASE i # 0
    BY <1>2, <1>4, <1>5, <1>6, <2>2, SendQueue
  <2> QED BY <2>1, <2>2
<1>8. i # 0 => Len(inbox'[i]) = 1 /\ inbox'[i] # <<>> /\ inbox'[i][1] = m
  <2> SUFFICES ASSUME i # 0 PROVE Len(inbox'[i]) = 1 /\ inbox'[i] # <<>> /\ inbox'[i][1] = m
    OBVIOUS
  <2>1. Len(inbox[i]) = 0
    BY <1>1, <1>2
  <2>2. /\ Len(inbox'[i]) = Len(inbox[i]) + 1
        /\ inbox'[i] # <<>> /\ inbox'[i][Len(inbox[i]) + 1] = m
    BY <1>2, <1>4, <1>5, <1>6, SendQueue
  <2> QED BY <2>1, <2>2
<1>9. inbox'[0] = <<>>
  BY <1>1, <1>2, <1>5, <1>7
<1>10. TypeOK'
  <2>1. inbox' \in [Cores -> Seq(Messages)]
    BY <1>2, <1>4, <1>5, <1>6, SendQueue
  <2>2. channels' \in [Cores -> {"none", "open", "put"}]
    BY <1>5 DEF SchedulerInv, TypeOK
  <2>3. main' \in {"app", "create", "submit", "poll"} /\ i' \in Nat
    BY <1>1, <1>3
  <2> QED BY <1>3, <2>1, <2>2, <2>3 DEF SchedulerInv, TypeOK, coroVars
<1>11. Progress'
  <2>1. i' < num_threads /\ i' >= 0 /\ 0 <= size
    <3>1. size \in Nat /\ num_threads \in Nat \ {0}
      BY Constants DEF SchedulerInv, TypeOK
    <3>2. i \in Nat /\ i < num_threads
      BY <1>1
    <3> QED BY <1>3, <3>1, <3>2
  <2>2. \A c \in Coros : c < size => pc[c] = "added"
    BY <1>1 DEF SchedulerInv, Progress
  <2> QED BY <1>1, <1>3, <2>1, <2>2 DEF SchedulerInv, Progress, coroVars
<1>12. ASSUME NEW l \in Cores, NEW n \in Positions(l)'
       PROVE  \/ /\ l # i /\ n \in Positions(l) /\ inbox'[l][n] = inbox[l][n]
                 /\ channels'[l] = channels[l]
              \/ /\ l = i /\ i # 0 /\ n = 1 /\ inbox'[l][n] = m
                 /\ channels'[l] # "open"
  <2>1. CASE l # i
    BY <1>7, <2>1 DEF Positions
  <2>2. CASE l = i
    <3>1. i # 0
      BY <1>9, <2>2 DEF Positions
    <3>2. n = 1
      <4>1. n \in 1 .. Len(inbox'[i])
        BY <2>2 DEF Positions
      <4>2. Len(inbox'[i]) = 1
        BY <1>8, <3>1
      <4> QED BY <4>1, <4>2
    <3> QED BY <1>1, <1>2, <1>5, <1>8, <2>2, <3>1, <3>2
  <2> QED BY <2>1, <2>2
<1>13. ASSUME NEW l \in Cores, NEW n \in Positions(l)
       PROVE  Sound(l, n) /\ ~Resumes(inbox[l][n])
  <2>1. Sound(l, n)
    BY DEF SchedulerInv, MessagesSound
  <2>2. \A c \in Coros : pc[c] # "yielded"
    <3>1. \A c \in Coros : c \in Nat /\ size \in Nat
      BY Constants DEF SchedulerInv, TypeOK
    <3>2. \A c \in Coros : c < size \/ c >= size
      BY <3>1
    <3>3. \A c \in Coros : pc[c] = "added" \/ pc[c] = "none"
      BY <1>1, <3>2 DEF SchedulerInv, Progress
    <3> QED BY <3>3
  <2> QED BY <1>1, <2>1, <2>2 DEF Sound, Resumes
<1>14. MessagesSound'
  <2> SUFFICES ASSUME NEW l \in Cores, NEW n \in Positions(l)'
               PROVE  Sound(l, n)'
    BY DEF MessagesSound
  <2>1. CASE /\ l # i /\ n \in Positions(l) /\ inbox'[l][n] = inbox[l][n]
             /\ channels'[l] = channels[l]
    <3>1. Sound(l, n) /\ ~Resumes(inbox[l][n])
      BY <1>13, <2>1
    <3> QED BY <1>3, <2>1, <3>1 DEF Sound, Resumes
  <2>2. CASE /\ l = i /\ i # 0 /\ n = 1 /\ inbox'[l][n] = m
             /\ channels'[l] # "open"
    BY <1>4, <2>2 DEF Sound
  <2> QED BY <1>12, <2>1, <2>2
<1>15. ResumedOnce'
  <2>1. \A l \in Cores : \A n \in Positions(l)' : ~Resumes(inbox'[l][n])
    BY <1>4, <1>12, <1>13 DEF Resumes
  <2> QED BY <2>1 DEF ResumedOnce, Resumes
<1>16. Counts'
  <2> SUFFICES ASSUME main' = "submit" PROVE Counts'
    BY <1>3 DEF Counts
  <2>1. i' = 0
    BY <1>3
  <2>2. Alive' = {} /\ Done' = {}
    BY <1>9, <2>1 DEF Alive, Sent, Done, DoneIn
  <2>3. Cardinality(Alive)' = 0 /\ Cardinality(Done)' = 0
    BY <2>2, FS_EmptySet
  <2> QED BY <1>1, <1>3, <2>1, <2>3 DEF Counts
<1>17. Phases'
  <2>1. \A k \in Cores : main' = "create" /\ k >= i' => k # i /\ k >= i
    <3> SUFFICES ASSUME NEW k \in Cores, main' = "create", k >= i'
                 PROVE  k # i /\ k >= i
      OBVIOUS
    <3>1. i \in Nat /\ k \in Nat /\ i' = i + 1
      BY <1>1, <1>2, <1>3
    <3> QED BY <3>1
  <2> QED BY <1>1, <1>3, <1>7, <1>9, <2>1 DEF Phases
<1>18. Channels'
  <2> SUFFICES ASSUME NEW k \in Cores, channels'[k] # "open"
               PROVE  /\ stack'[k] = <<>>
                      /\ \/ main' = "create" /\ k >= i'
                         \/ /\ k # 0 /\ inbox'[k] # <<>>
                            /\ inbox'[k][1] = Msg("thread_init_get_channel", k)
    BY DEF Channels
  <2>1. stack'[k] = <<>>
    BY <1>1, <1>3
  <2>2. CASE k = i
    <3>1. i # 0
      BY <1>2, <1>5, <2>2 DEF SchedulerInv, TypeOK
    <3> QED BY <1>8, <2>1, <2>2, <3>1 DEF m
  <2>3. CASE k # i /\ k >= i
    <3>1. k \in Nat /\ k < num_threads /\ i + 1 <= k
      BY <1>1, <2>3, Constants DEF Cores
    <3>2. i + 1 # num_threads
      BY <1>1, <1>2, <3>1
    <3> QED BY <1>1, <1>3, <2>1, <3>1, <3>2
  <2>4. CASE k # i /\ ~(k >= i)
    BY <1>1, <1>7, <2>1, <2>4 DEF SchedulerInv, Channels
  <2> QED BY <2>2, <2>3, <2>4
<1>19. ExitOrder'
  BY <1>1, <1>3 DEF ExitOrder
<1> QED
  BY <1>10, <1>11, <1>14, <1>15, <1>16, <1>17, <1>18, <1>19 DEF SchedulerInv

\* A task is counted in the same step in which its message is sent.
LEMMA SubmitTaskKeeps ==
  ASSUME SchedulerInv, SubmitTask
  PROVE  SchedulerInv'
<1> DEFINE k == i % num_threads
           m == Msg("service_thread_run", i)
<1>1. /\ main = "submit" /\ i < size /\ alive_tasks' = alive_tasks + 1
      /\ Send(k, m) /\ i' = i + 1
      /\ UNCHANGED <<main, runs, size, handle, desc, channels, stopping, stack,
                     coroVars, fault>>
  BY DEF SubmitTask
<1>2. /\ i \in Nat /\ size \in Nat /\ size <= NumTasks /\ ~stopping /\ desc
      /\ alive_tasks \in Nat
  BY <1>1 DEF SchedulerInv, TypeOK, Progress, Phases
<1>3. k \in Cores /\ i \in Coros
  <2>1. NumTasks \in Nat /\ k \in Cores
    BY <1>2, Constants
  <2>2. i \in Coros
    BY <1>1, <1>2, <2>1 DEF Coros
  <2> QED BY <2>1, <2>2
<1>4. m \in Messages /\ m.fn = "service_thread_run" /\ m.arg = i
  BY <1>3, MessageTypes DEF Handlers
<1> HIDE DEF k, m
<1>5. pc[i] = "added"
  <2>1. i >= i
    BY <1>2
  <2> QED BY <1>1, <1>3, <2>1 DEF SchedulerInv, Progress
<1>6. inbox \in [Cores -> Seq(Messages)]
  BY DEF SchedulerInv, TypeOK
<1>7. TypeOK'
  <2>1. inbox' \in [Cores -> Seq(Messages)]
    BY <1>1, <1>3, <1>4, <1>6, SendQueue
  <2>2. i' \in Nat /\ alive_tasks' \in Nat
    BY <1>1, <1>2
  <2> QED BY <1>1, <2>1, <2>2 DEF SchedulerInv, TypeOK, coroVars
<1>8. Progress'
  <2>1. i' <= size
    BY <1>1, <1>2
  <2>2. \A c \in Coros : c >= i' => c >= i
    <3>1. \A c \in Coros : c \in Nat
      BY Constants
    <3> QED BY <1>1, <1>2, <3>1
  <2> QED BY <1>1, <2>1, <2>2 DEF SchedulerInv, Progress, coroVars
<1>9. MessagesSound'
  <2> SUFFICES ASSUME NEW l \in Cores, NEW n \in Positions(l)'
               PROVE  Sound(l, n)'
    BY DEF MessagesSound
  <2>1. CASE n \in Positions(l) /\ inbox'[l][n] = inbox[l][n]
    <3>1. Sound(l, n)
      BY <2>1 DEF SchedulerInv, MessagesSound
    <3>2. inbox[l][n].arg \in Coros /\ inbox[l][n].arg < i => inbox[l][n].arg < i'
      <4>1. \A c \in Coros : c \in Nat
        BY Constants
      <4> QED BY <1>1, <1>2, <4>1
    <3> QED BY <1>1, <2>1, <3>1, <3>2 DEF Sound, coroVars
  <2>2. CASE inbox'[l][n] = m
    <3>1. i < i'
      BY <1>1, <1>2
    <3> QED BY <1>1, <1>3, <1>4, <1>5, <2>2, <3>1 DEF Sound, coroVars
  <2> QED BY <1>1, <1>3, <1>4, <1>6, <2>1, <2>2, SentPlace
<1>10. ResumedOnce'
  <2>1. \A l \in Cores : \A n \in Positions(l) : inbox[l][n] # m
    <3>1. ~(i < i)
      BY <1>2
    <3> QED BY <1>4, <3>1 DEF SchedulerInv, MessagesSound, Sound
  <2> QED BY <1>1, <1>3, <1>4, <1>6, <2>1, SendOnce DEF SchedulerInv
<1>11. Counts'
  <2>1. Sent' = Sent \cup {i} /\ i \notin Sent
    BY <1>1, <1>2 DEF Sent
  <2>2. Alive' = Alive \cup {i} /\ i \notin Alive
    BY <1>1, <1>5, <2>1 DEF Alive, Pending, coroVars
  <2>3. IsFiniteSet(Alive) /\ Cardinality(Alive) \in Nat
    BY AliveFinite DEF SchedulerInv
  <2>4. Cardinality(Alive)' = Cardinality(Alive) + 1
    BY <2>2, <2>3, FS_AddElement
  <2>5. Cardinality(Done)' = Cardinality(Done) /\ Cardinality(Done) \in Nat
    BY <1>1, <1>3, <1>4, <1>6, DoneSteps
  <2>6. alive_tasks = i /\ alive_tasks = Cardinality(Alive) + Cardinality(Done)
    BY <1>1 DEF SchedulerInv, Counts
  <2>7. alive_tasks' = i' /\ alive_tasks' = Cardinality(Alive)' + Cardinality(Done)'
    BY <1>1, <2>3, <2>4, <2>5, <2>6
  <2> QED BY <2>7 DEF Counts
<1>12. Phases'
  BY <1>1, <1>2 DEF SchedulerInv, Phases
<1>13. Channels'
  <2> SUFFICES ASSUME NEW l \in Cores, channels'[l] # "open"
               PROVE  /\ stack'[l] = <<>> /\ l # 0 /\ inbox'[l] # <<>>
                      /\ inbox'[l][1] = Msg("thread_init_get_channel", l)
    BY DEF Channels
  <2>1. /\ stack[l] = <<>> /\ l # 0 /\ inbox[l] # <<>>
        /\ inbox[l][1] = Msg("thread_init_get_channel", l)
    BY <1>1, <1>2 DEF SchedulerInv, Channels
  <2>2. CASE l # k
    BY <1>1, <1>3, <1>4, <1>6, <2>1, <2>2, SendQueue
  <2>3. CASE l = k
    <3>1. 1 \in 1 .. Len(inbox[l])
      <4>1. Len(inbox[l]) \in Nat \ {0}
        BY <1>6, <2>1, RestQueue
      <4> QED BY <4>1
    <3> QED BY <1>1, <1>3, <1>4, <1>6, <2>1, <2>3, <3>1, SendQueue
  <2> QED BY <2>2, <2>3
<1>14. ExitOrder'
  BY <1>1, <1>2 DEF ExitOrder
<1> QED
  BY <1>7, <1>8, <1>9, <1>10, <1>11, <1>12, <1>13, <1>14 DEF SchedulerInv

-----------------------------------------------------------------------------
(***************************************************************************)
(* Shutdown.                                                               *)
(***************************************************************************)

\* Once no task is pending and no task_done under way, the only messages left
\* before the shutdown are those that open channels.
LEMMA OnlyInits ==
  ASSUME SchedulerInv, ~stopping, \A c \in Coros : pc[c] \notin Pending,
         NEW l \in Cores, NEW n \in Positions(l), inbox[l][n].fn # "task_done"
  PROVE  /\ l # 0 /\ n = 1 /\ channels[l] # "open"
         /\ inbox[l][n] = Msg("thread_init_get_channel", l)
<1>1. Sound(l, n)
  BY DEF SchedulerInv, MessagesSound
<1>2. inbox[l][n] \in Messages
  <2>1. inbox[l] \in Seq(Messages)
    BY DEF SchedulerInv, TypeOK
  <2> QED BY <2>1, LenProperties DEF Positions
<1>3. inbox[l][n].fn = "thread_init_get_channel"
  BY <1>1, <1>2 DEF Messages, Handlers, Sound, Pending, Started
<1>4. inbox[l][n] = Msg("thread_init_get_channel", l)
  BY <1>1, <1>2, <1>3 DEF Sound, Messages, Msg
<1> QED BY <1>1, <1>3, <1>4 DEF Sound

\* service_exit(), called when no task is pending.
LEMMA ServiceExitKeeps ==
  ASSUME TypeOK, Progress', NEW box \in [Cores -> Seq(Messages)],
         service_exit(box), main' = "poll", alive_tasks' = 0,
         UNCHANGED <<runs, i, size, handle, stack, coroVars, fault>>,
         \A c \in Coros : pc[c] \notin Pending,
         \A l \in Cores : \A n \in 1 .. Len(box[l]) :
           /\ l # 0 /\ n = 1 /\ channels[l] # "open"
           /\ box[l][n] = Msg("thread_init_get_channel", l)
  PROVE  SchedulerInv'
<1>1. /\ channels' = [channels EXCEPT ![0] = "put"] /\ desc' = FALSE
      /\ stopping' = TRUE
      /\ inbox' = [k \in Cores |-> IF k = 0 THEN box[k]
                                   ELSE Append(box[k], Msg("thread_exit", k))]
  BY DEF service_exit
<1>2. 0 \in Cores
  BY Constants
<1>3. inbox'[0] = <<>>
  <2>1. box[0] \in Seq(Messages) /\ Len(box[0]) \in Nat
    BY <1>2, LenProperties
  <2>2. ~(1 \in 1 .. Len(box[0]))
    BY <1>2
  <2>3. Len(box[0]) = 0
    BY <2>1, <2>2
  <2>4. box[0] = <<>>
    BY <2>1, <2>3, EmptySeq
  <2> QED BY <1>1, <1>2, <2>4
<1>4. ASSUME NEW k \in Cores, k # 0
      PROVE  /\ inbox'[k] \in Seq(Messages) /\ inbox'[k] # <<>>
             /\ Len(box[k]) \in Nat /\ Len(inbox'[k]) = Len(box[k]) + 1
             /\ \A n \in 1 .. Len(box[k]) : inbox'[k][n] = box[k][n]
             /\ inbox'[k][Len(box[k]) + 1] = Msg("thread_exit", k)
  <2>1. inbox'[k] = Append(box[k], Msg("thread_exit", k))
    BY <1>1, <1>4
  <2>2. Msg("thread_exit", k) \in Messages
    BY MessageTypes DEF Handlers
  <2> QED BY <2>1, <2>2, AppendProperties, LenProperties
<1>5. TypeOK'
  <2>1. \A k \in Cores : inbox'[k] \in Seq(Messages)
    BY <1>3, <1>4
  <2>2. inbox' \in [Cores -> Seq(Messages)]
    BY <1>1, <2>1
  <2>3. channels' \in [Cores -> {"none", "open", "put"}]
    BY <1>1 DEF TypeOK
  <2> QED BY <1>1, <2>2, <2>3 DEF TypeOK, coroVars
<1>6. ASSUME NEW l \in Cores, NEW n \in Positions(l)'
      PROVE  /\ l # 0
             /\ \/ /\ n = 1 /\ channels'[l] # "open" /\ n \in 1 .. Len(box[l])
                   /\ inbox'[l][n] = Msg("thread_init_get_channel", l)
                \/ n = Len(box[l]) + 1 /\ inbox'[l][n] = Msg("thread_exit", l)
  <2>1. l # 0
    BY <1>3 DEF Positions
  <2>2. n \in 1 .. Len(box[l]) \/ n = Len(box[l]) + 1
    BY <1>4, <2>1 DEF Positions
  <2>3. CASE n \in 1 .. Len(box[l])
    <3>1. channels'[l] = channels[l]
      BY <1>1, <2>1 DEF TypeOK
    <3>2. inbox'[l][n] = box[l][n]
      BY <1>4, <2>1, <2>3
    <3> QED BY <2>1, <2>3, <3>1, <3>2
  <2>4. CASE n = Len(box[l]) + 1
    BY <1>4, <2>1, <2>4
  <2> QED BY <2>1, <2>2, <2>3, <2>4
<1>7. MessagesSound'
  <2> SUFFICES ASSUME NEW l \in Cores, NEW n \in Positions(l)'
               PROVE  Sound(l, n)'
    BY DEF MessagesSound
  <2>1. CASE /\ n = 1 /\ channels'[l] # "open"
             /\ inbox'[l][n] = Msg("thread_init_get_channel", l)
    <3>1. /\ inbox'[l][n].fn = "thread_init_get_channel"
          /\ inbox'[l][n].arg = l /\ l # 0
      BY <1>6, <2>1, MessageTypes
    <3> QED BY <2>1, <3>1 DEF Sound
  <2>2. CASE inbox'[l][n] = Msg("thread_exit", l)
    <3>1. inbox'[l][n].fn = "thread_exit" /\ inbox'[l][n].arg = l /\ l # 0
      BY <1>6, <2>2, MessageTypes
    <3> QED BY <1>1, <3>1 DEF Sound
  <2> QED BY <1>6, <2>1, <2>2
<1>8. ResumedOnce'
  <2>1. \A l \in Cores : \A n \in Positions(l)' : ~Resumes(inbox'[l][n])
    <3> SUFFICES ASSUME NEW l \in Cores, NEW n \in Positions(l)'
                 PROVE  ~Resumes(inbox'[l][n])
      OBVIOUS
    <3>1. inbox'[l][n].fn \in {"thread_init_get_channel", "thread_exit"}
      BY <1>6, MessageTypes
    <3> QED BY <3>1 DEF Resumes
  <2> QED BY <2>1 DEF ResumedOnce, Resumes
<1>9. Counts'
  <2>1. Sent' \subseteq Coros
    <3>1. Sent' = 0 .. (size' - 1)
      BY DEF Sent
    <3>2. size' \in Nat /\ size' <= NumTasks /\ NumTasks \in Nat
      BY <1>5, Constants DEF TypeOK, Progress
    <3> QED BY <3>1, <3>2 DEF Coros
  <2>2. Alive' = {} /\ Done' = {}
    BY <1>3, <2>1 DEF Alive, Done, DoneIn, coroVars
  <2>3. Cardinality(Alive)' = 0 /\ Cardinality(Done)' = 0
    BY <2>2, FS_EmptySet
  <2> QED BY <2>3 DEF Counts
<1>10. Phases'
  BY <1>1, <1>2 DEF Phases, TypeOK
<1>11. Channels'
  BY <1>1 DEF Channels
<1>12. ExitOrder'
  <2>1. ASSUME NEW k \in Cores \ {0}
        PROVE  /\ inbox'[k] # <<>>
               /\ Last(inbox'[k]) = Msg("thread_exit", k)
               /\ \A n \in 1 .. (Len(inbox'[k]) - 1) :
                    inbox'[k][n] = Msg("thread_init_get_channel", k)
    <3>1. /\ inbox'[k] # <<>> /\ Len(box[k]) \in Nat
          /\ Len(inbox'[k]) = Len(box[k]) + 1
          /\ \A n \in 1 .. Len(box[k]) : inbox'[k][n] = box[k][n]
          /\ inbox'[k][Len(box[k]) + 1] = Msg("thread_exit", k)
      BY <1>4
    <3>2. Len(inbox'[k]) - 1 = Len(box[k])
      BY <3>1
    <3> QED BY <3>1, <3>2 DEF Last
  <2> QED BY <1>3, <2>1 DEF ExitOrder, Pending, coroVars
<1> QED
  BY <1>5, <1>7, <1>8, <1>9, <1>10, <1>11, <1>12 DEF SchedulerInv

\* scheduler_init() stops the application only when nothing was sent.
LEMMA SchedulerInitEndKeeps ==
  ASSUME SchedulerInv, SchedulerInitEnd
  PROVE  SchedulerInv'
<1>1. /\ main = "submit" /\ i = size /\ main' = "poll"
      /\ UNCHANGED <<runs, i, size, handle, alive_tasks, stack, coroVars, fault>>
  BY DEF SchedulerInitEnd
<1>2. Progress'
  BY <1>1 DEF SchedulerInv, Progress, coroVars
<1>3. ~stopping /\ desc
  BY <1>1 DEF SchedulerInv, Phases
<1>4. CASE size = 0
  <2>1. service_exit(inbox)
    BY <1>4 DEF SchedulerInitEnd
  <2>2. \A c \in Coros : pc[c] \notin Pending
    <3>1. \A c \in Coros : c >= size
      BY <1>4, Constants
    <3> QED BY <3>1 DEF SchedulerInv, Progress, Pending, Started
  <2>3. alive_tasks = 0 /\ alive_tasks = Cardinality(Alive) + Cardinality(Done)
    BY <1>1, <1>4 DEF SchedulerInv, Counts
  <2>4. Done = {}
    <3>1. inbox[0] \in Seq(Messages)
      BY Constants DEF SchedulerInv, TypeOK
    <3>2. IsFiniteSet(Done) /\ Cardinality(Done) \in Nat
      BY <3>1, DoneCount DEF Done
    <3>3. Cardinality(Alive) \in Nat
      BY AliveFinite DEF SchedulerInv
    <3>4. Cardinality(Done) = 0
      BY <2>3, <3>2, <3>3
    <3> QED BY <3>2, <3>4, FS_EmptySet
  <2>5. \A l \in Cores : \A n \in 1 .. Len(inbox[l]) :
          /\ l # 0 /\ n = 1 /\ channels[l] # "open"
          /\ inbox[l][n] = Msg("thread_init_get_channel", l)
    <3> SUFFICES ASSUME NEW l \in Cores, NEW n \in Positions(l)
                 PROVE  /\ l # 0 /\ n = 1 /\ channels[l] # "open"
                        /\ inbox[l][n] = Msg("thread_init_get_channel", l)
      BY DEF Positions
    <3>1. inbox[l][n].fn # "task_done"
      BY <2>4 DEF SchedulerInv, MessagesSound, Sound, Done, DoneIn, Positions
    <3> QED BY <1>3, <2>2, <3>1, OnlyInits
  <2>6. TypeOK /\ inbox \in [Cores -> Seq(Messages)]
    BY DEF SchedulerInv, TypeOK
  <2> QED BY <1>1, <1>2, <2>1, <2>2, <2>3, <2>5, <2>6, ServiceExitKeeps
<1>5. CASE size # 0
  <2>1. UNCHANGED <<desc, channels, stopping, inbox>>
    BY <1>5 DEF SchedulerInitEnd
  <2>2. TypeOK'
    BY <1>1, <2>1 DEF SchedulerInv, TypeOK, coroVars
  <2>3. MessagesSound'
    <3> SUFFICES ASSUME NEW l \in Cores, NEW n \in Positions(l)
                 PROVE  Sound(l, n)'
      BY <2>1 DEF MessagesSound, Positions
    <3>1. Sound(l, n)
      BY DEF SchedulerInv, MessagesSound
    <3> QED BY <1>1, <2>1, <3>1 DEF Sound, coroVars
  <2>4. ResumedOnce'
    BY <2>1 DEF SchedulerInv, ResumedOnce, Positions, Resumes
  <2>5. Counts'
    <3>1. Sent' = Sent
      BY <1>1 DEF Sent
    <3>2. Alive' = Alive /\ Done' = Done
      BY <1>1, <2>1, <3>1 DEF Alive, Done, coroVars
    <3> QED BY <1>1, <3>2 DEF SchedulerInv, Counts
  <2>6. Phases' /\ Channels' /\ ExitOrder'
    BY <1>1, <1>3, <2>1 DEF SchedulerInv, Phases, Channels, ExitOrder
  <2> QED BY <1>2, <2>2, <2>3, <2>4, <2>5, <2>6 DEF SchedulerInv
<1> QED BY <1>4, <1>5

\* spdk_app_start() returns once all queues and stacks are empty.
LEMMA AppStartReturnsKeeps ==
  ASSUME SchedulerInv, AppStartReturns
  PROVE  SchedulerInv'
<1>1. /\ main = "poll" /\ stopping /\ main' = "app"
      /\ \A k \in Cores : inbox[k] = <<>> /\ stack[k] = <<>>
      /\ UNCHANGED <<runs, i, size, handle, appVars, inbox, stack, coroVars, fault>>
  BY DEF AppStartReturns
<1>2. TypeOK'
  BY <1>1 DEF SchedulerInv, TypeOK, appVars, coroVars
<1>3. Progress'
  BY <1>1 DEF SchedulerInv, Progress, coroVars
<1>4. \A k \in Cores : Positions(k)' = {}
  BY <1>1 DEF Positions
<1>5. MessagesSound' /\ ResumedOnce'
  BY <1>4 DEF MessagesSound, ResumedOnce
<1>6. Counts' /\ Channels'
  BY <1>1 DEF Counts, Channels
<1>7. Phases'
  <2>1. channels[0] = "put"
    BY <1>1 DEF SchedulerInv, Phases
  <2>2. \A k \in Cores : channels[k] # "open"
    BY <1>1, <2>1 DEF SchedulerInv, ExitOrder
  <2> QED BY <1>1, <2>1, <2>2 DEF Phases, appVars
<1>8. ExitOrder'
  BY <1>1 DEF SchedulerInv, ExitOrder, appVars, coroVars
<1> QED BY <1>2, <1>3, <1>5, <1>6, <1>7, <1>8 DEF SchedulerInv

-----------------------------------------------------------------------------
(***************************************************************************)
(* The messages.                                                           *)
(***************************************************************************)

\* What the message a thread takes says.
LEMMA Taken ==
  ASSUME SchedulerInv, NEW k \in Cores, NEW f, Takes(k, f)
  PROVE  /\ inbox[k] # <<>> /\ stack[k] = <<>> /\ inbox[k][1].fn = f
         /\ Head(inbox[k]) = inbox[k][1] /\ inbox[k][1] \in Messages
         /\ Sound(k, 1) /\ inbox \in [Cores -> Seq(Messages)]
         /\ main # "app" /\ (k = 0 => main = "poll")
         /\ main = "create" => ~(k >= i)
<1>1. inbox[k] # <<>> /\ stack[k] = <<>> /\ Head(inbox[k]).fn = f
  BY DEF Takes
<1>2. inbox \in [Cores -> Seq(Messages)]
  BY DEF SchedulerInv, TypeOK
<1>3. /\ Len(inbox[k]) \in Nat \ {0} /\ Head(inbox[k]) = inbox[k][1]
      /\ Head(inbox[k]) \in Messages
  BY <1>1, <1>2, RestQueue
<1>4. Sound(k, 1)
  <2>1. 1 \in Positions(k)
    BY <1>3 DEF Positions
  <2> QED BY <2>1 DEF SchedulerInv, MessagesSound
<1>5. main # "app" /\ (main = "create" => ~(k >= i))
  BY <1>1 DEF SchedulerInv, Phases
<1> QED BY <1>1, <1>2, <1>3, <1>4, <1>5 DEF Takes

\* A message that stays behind when thread k takes its oldest one.
LEMMA StaysSound ==
  ASSUME SchedulerInv, NEW k \in Cores, inbox[k] # <<>>, inbox' = Rest(k),
         NEW l \in Cores, NEW n \in Positions(l)'
  PROVE  \E o \in Positions(l) :
           /\ Sound(l, o) /\ inbox'[l][n] = inbox[l][o]
           /\ l # k => o = n
           /\ l = k => inbox[l][o].fn # "thread_init_get_channel"
<1>1. inbox \in [Cores -> Seq(Messages)]
  BY DEF SchedulerInv, TypeOK
<1>2. CASE l = k
  <2>1. n + 1 \in Positions(l) /\ inbox'[l][n] = inbox[l][n + 1] /\ n \in Nat \ {0}
    BY <1>1, <1>2, OldPlace
  <2>2. Sound(l, n + 1) /\ n + 1 # 1
    BY <2>1 DEF SchedulerInv, MessagesSound
  <2>3. inbox[l][n + 1].fn # "thread_init_get_channel"
    BY <2>2 DEF Sound
  <2> QED BY <1>2, <2>1, <2>2, <2>3
<1>3. CASE l # k
  <2>1. n \in Positions(l) /\ inbox'[l][n] = inbox[l][n]
    BY <1>1, <1>3, OldPlace
  <2> QED BY <1>3, <2>1 DEF SchedulerInv, MessagesSound
<1> QED BY <1>2, <1>3

\* A message resumes task c, or finds its handle gone: before the shutdown, on a
\* core that has its channel.
LEMMA ResumeKeeps ==
  ASSUME SchedulerInv, TypeOK', NEW k \in Cores,
         NEW f \in {"service_thread_run", "service_thread_run_yield"},
         Takes(k, f), inbox' = Rest(k),
         UNCHANGED <<main, runs, i, size, appVars>>,
         \A l \in Cores : l # k => stack'[l] = stack[l],
         \A d \in Coros : \/ pc'[d] = pc[d]
                          \/ d = inbox[k][1].arg /\ pc'[d] = "body"
  PROVE  SchedulerInv'
<1> DEFINE c == inbox[k][1].arg
<1>1. /\ inbox[k] # <<>> /\ inbox[k][1].fn = f /\ inbox[k][1] \in Messages
      /\ Sound(k, 1) /\ inbox \in [Cores -> Seq(Messages)]
      /\ main # "app" /\ (main = "create" => ~(k >= i))
  BY Taken
<1>2. /\ c \in Coros /\ pc[c] \in {"added", "yielded"}
      /\ f = "service_thread_run" => pc[c] = "added" /\ c < i /\ main # "create"
      /\ f = "service_thread_run_yield" => pc[c] = "yielded"
  BY <1>1 DEF Sound
<1> HIDE DEF c
<1>3. c < size /\ c \in Nat /\ size \in Nat /\ i \in Nat
  <2>1. c \in Nat /\ size \in Nat /\ i \in Nat
    BY <1>2, Constants DEF SchedulerInv, TypeOK
  <2>2. ~(c >= size)
    BY <1>2 DEF SchedulerInv, Progress
  <2> QED BY <2>1, <2>2
<1>4. ~stopping
  BY <1>2, <1>3 DEF SchedulerInv, ExitOrder, Started
<1>5. main # "create"
  BY <1>2, <1>3 DEF SchedulerInv, Progress
<1>6. channels[k] = "open"
  <2> SUFFICES ASSUME channels[k] # "open" PROVE FALSE
    OBVIOUS
  <2>1. inbox[k][1] = Msg("thread_init_get_channel", k)
    BY <1>1, <1>4, <1>5 DEF SchedulerInv, Channels
  <2>2. inbox[k][1].fn = "thread_init_get_channel"
    BY <2>1, MessageTypes
  <2> QED BY <1>1, <2>2
<1>7. Progress'
  <2>1. \A d \in Coros : d >= size => pc'[d] = pc[d]
    BY <1>2 DEF SchedulerInv, Progress, c
  <2>2. \A d \in Coros : d < size /\ main = "submit" /\ d >= i => pc'[d] = pc[d]
    <3>1. main = "submit" /\ c >= i => FALSE
      BY <1>2, <1>3 DEF SchedulerInv, Progress
    <3> QED BY <3>1 DEF c
  <2> QED BY <1>5, <2>1, <2>2 DEF SchedulerInv, Progress
<1>8. /\ ResumedOnce'
      /\ \A l \in Cores : \A n \in Positions(l)' :
           Resumes(inbox'[l][n]) => inbox'[l][n] # inbox[k][1]
  BY <1>1, TakeOnce DEF SchedulerInv
<1>9. MessagesSound'
  <2> SUFFICES ASSUME NEW l \in Cores, NEW n \in Positions(l)'
               PROVE  Sound(l, n)'
    BY DEF MessagesSound
  <2>1. PICK o \in Positions(l) :
          /\ Sound(l, o) /\ inbox'[l][n] = inbox[l][o]
          /\ l # k => o = n
          /\ l = k => inbox[l][o].fn # "thread_init_get_channel"
    BY <1>1, StaysSound
  <2>2. inbox[l][o] \in Messages
    <3>1. inbox[l] \in Seq(Messages)
      BY <1>1
    <3> QED BY <3>1, LenProperties DEF Positions
  <2>3. Resumes(inbox[l][o]) => inbox[l][o].arg # c
    <3> SUFFICES ASSUME Resumes(inbox[l][o]), inbox[l][o].arg = c PROVE FALSE
      OBVIOUS
    <3>1. inbox[l][o].fn = f
      BY <1>2, <2>1 DEF Sound, Resumes
    <3>2. inbox[l][o] = inbox[k][1]
      BY <1>1, <2>2, <3>1, MessageTypes DEF c
    <3> QED BY <1>8, <2>1, <3>2
  <2>4. \A d \in Coros : d # c => pc'[d] = pc[d]
    BY DEF c
  <2> QED BY <2>1, <2>3, <2>4 DEF Sound, Resumes, appVars
<1>10. Counts'
  <2>1. Sent' = Sent /\ Sent \subseteq Coros
    BY AliveFinite DEF Sent, SchedulerInv
  <2>2. Alive' = Alive
    <3>1. \A d \in Coros : pc'[d] \in Pending <=> pc[d] \in Pending
      BY <1>2 DEF Pending, Started, c
    <3> QED BY <2>1, <3>1 DEF Alive
  <2>3. Cardinality(Done)' = Cardinality(Done)
    BY <1>1, DoneSteps
  <2> QED BY <2>2, <2>3 DEF SchedulerInv, Counts, appVars
<1>11. Phases'
  BY <1>1, <1>4, <1>5 DEF SchedulerInv, Phases, appVars
<1>12. Channels'
  <2>1. \A l \in Cores : l # k => inbox'[l] = inbox[l]
    BY <1>1, RestQueue
  <2> QED BY <1>6, <2>1 DEF SchedulerInv, Channels, appVars
<1>13. ExitOrder'
  BY <1>4 DEF ExitOrder, appVars
<1> QED
  BY <1>7, <1>8, <1>9, <1>10, <1>11, <1>12, <1>13 DEF SchedulerInv

\* The first start of a task, on a thread whose channel is open.
LEMMA ServiceThreadRunKeeps ==
  ASSUME SchedulerInv, NEW k \in Cores, service_thread_run(k)
  PROVE  SchedulerInv'
<1> DEFINE c == inbox[k][1].arg
<1>1. /\ Takes(k, "service_thread_run") /\ inbox' = Rest(k)
      /\ UNCHANGED <<mainVars, appVars, awaits, wrapper_tasks>>
  BY DEF service_thread_run
<1>2. /\ inbox[k] # <<>> /\ Head(inbox[k]) = inbox[k][1]
      /\ inbox[k][1].fn = "service_thread_run"
      /\ Sound(k, 1) /\ inbox \in [Cores -> Seq(Messages)]
  BY <1>1, Taken
<1>3. c \in Coros
  BY <1>2 DEF Sound
<1>4. \/ /\ handle' = [handle EXCEPT ![c] = FALSE]
         /\ frame' = [frame EXCEPT ![c] = "live"]
         /\ pc' = [pc EXCEPT ![c] = "body"]
         /\ Push(k, <<Coroutine(c), ServiceThreadRun(c)>>)
         /\ fault' = fault
      \/ fault' = "null handle" /\ UNCHANGED <<handle, frame, pc, stack>>
  BY <1>2 DEF service_thread_run
<1> HIDE DEF c
<1>5. /\ stack' \in [Cores -> Seq(Frames)]
      /\ \A l \in Cores : l # k => stack'[l] = stack[l]
  BY <1>3, <1>4, StackType DEF SchedulerInv, TypeOK
<1>6. TypeOK'
  <2>1. inbox' \in [Cores -> Seq(Messages)]
    BY <1>1, <1>2, RestQueue
  <2>2. /\ handle' \in [Coros -> BOOLEAN]
        /\ fault' \in {"none", "null handle", "closed desc", "destroyed frame"}
        /\ frame' \in [Coros -> {"none", "live", "destroyed"}]
        /\ pc' \in [Coros -> PcValues]
    BY <1>4 DEF SchedulerInv, TypeOK, PcValues
  <2> QED BY <1>1, <1>5, <2>1, <2>2 DEF SchedulerInv, TypeOK, mainVars, appVars
<1>7. \A d \in Coros : pc'[d] = pc[d] \/ (d = inbox[k][1].arg /\ pc'[d] = "body")
  BY <1>3, <1>4 DEF SchedulerInv, TypeOK, c
<1>8. UNCHANGED <<main, runs, i, size, appVars>>
  BY <1>1 DEF mainVars
<1> QED BY <1>1, <1>5, <1>6, <1>7, <1>8, ResumeKeeps

\* A task goes on after yield().
LEMMA ServiceThreadRunYieldKeeps ==
  ASSUME SchedulerInv, NEW k \in Cores, service_thread_run_yield(k)
  PROVE  SchedulerInv'
<1> DEFINE c == inbox[k][1].arg
<1>1. /\ Takes(k, "service_thread_run_yield") /\ inbox' = Rest(k)
      /\ UNCHANGED <<mainVars, handle, appVars, awaits, frame, wrapper_tasks, fault>>
  BY DEF service_thread_run_yield
<1>2. /\ inbox[k] # <<>> /\ Head(inbox[k]) = inbox[k][1]
      /\ inbox[k][1].fn = "service_thread_run_yield"
      /\ Sound(k, 1) /\ inbox \in [Cores -> Seq(Messages)]
  BY <1>1, Taken
<1>3. c \in Coros
  BY <1>2 DEF Sound
<1>4. pc' = [pc EXCEPT ![c] = "body"] /\ Push(k, <<Coroutine(c)>>)
  BY <1>2 DEF service_thread_run_yield
<1> HIDE DEF c
<1>5. /\ stack' \in [Cores -> Seq(Frames)]
      /\ \A l \in Cores : l # k => stack'[l] = stack[l]
  BY <1>3, <1>4, StackType DEF SchedulerInv, TypeOK
<1>6. TypeOK'
  <2>1. inbox' \in [Cores -> Seq(Messages)]
    BY <1>1, <1>2, RestQueue
  <2>2. pc' \in [Coros -> PcValues]
    BY <1>4 DEF SchedulerInv, TypeOK, PcValues
  <2> QED BY <1>1, <1>5, <2>1, <2>2 DEF SchedulerInv, TypeOK, mainVars, appVars
<1>7. \A d \in Coros : pc'[d] = pc[d] \/ (d = inbox[k][1].arg /\ pc'[d] = "body")
  BY <1>3, <1>4 DEF SchedulerInv, TypeOK, c
<1>8. UNCHANGED <<main, runs, i, size, appVars>>
  BY <1>1 DEF mainVars
<1> QED BY <1>1, <1>5, <1>6, <1>7, <1>8, ResumeKeeps

\* thread_init_get_channel opens the channel of its own thread.
LEMMA ThreadInitKeeps ==
  ASSUME SchedulerInv, NEW k \in Cores, thread_init_get_channel(k)
  PROVE  SchedulerInv'
<1>1. /\ Takes(k, "thread_init_get_channel") /\ inbox' = Rest(k)
      /\ UNCHANGED <<mainVars, handle, desc, alive_tasks, stopping, stack,
                     coroVars>>
      /\ fault' \in {"none", "null handle", "closed desc", "destroyed frame"}
  BY DEF thread_init_get_channel
<1>2. /\ inbox[k] # <<>> /\ Head(inbox[k]) = inbox[k][1]
      /\ inbox[k][1].fn = "thread_init_get_channel"
      /\ Sound(k, 1) /\ inbox \in [Cores -> Seq(Messages)]
      /\ main # "app" /\ (main = "create" => ~(k >= i))
  BY <1>1, Taken
<1>3. k # 0 /\ inbox[k][1].arg = k
  BY <1>2 DEF Sound
<1>4. channels' = [channels EXCEPT ![k] = "open"]
  BY <1>2, <1>3 DEF thread_init_get_channel
<1>5. /\ inbox' \in [Cores -> Seq(Messages)]
      /\ \A l \in Cores : l # k => inbox'[l] = inbox[l]
      /\ Len(inbox[k]) \in Nat \ {0}
      /\ Len(inbox'[k]) = Len(inbox[k]) - 1
      /\ \A n \in 1 .. (Len(inbox[k]) - 1) : inbox'[k][n] = inbox[k][n + 1]
  BY <1>1, <1>2, RestQueue
<1>6. \A l \in Cores : l # k => channels'[l] = channels[l]
  BY <1>4 DEF SchedulerInv, TypeOK
<1>7. TypeOK'
  <2>1. channels' \in [Cores -> {"none", "open", "put"}]
    BY <1>4 DEF SchedulerInv, TypeOK
  <2> QED BY <1>1, <1>5, <2>1 DEF SchedulerInv, TypeOK, mainVars, coroVars
<1>8. Progress'
  BY <1>1 DEF SchedulerInv, Progress, mainVars, coroVars
<1>9. ResumedOnce'
  BY <1>1, <1>2, TakeOnce DEF SchedulerInv
<1>10. MessagesSound'
  <2> SUFFICES ASSUME NEW l \in Cores, NEW n \in Positions(l)'
               PROVE  Sound(l, n)'
    BY DEF MessagesSound
  <2>1. PICK o \in Positions(l) :
          /\ Sound(l, o) /\ inbox'[l][n] = inbox[l][o]
          /\ l # k => o = n
          /\ l = k => inbox[l][o].fn # "thread_init_get_channel"
    BY <1>1, <1>2, StaysSound
  <2> QED BY <1>1, <1>6, <2>1 DEF Sound, mainVars, coroVars
<1>11. Counts'
  <2>1. Alive' = Alive
    BY <1>1 DEF Alive, Sent, mainVars, coroVars
  <2>2. Cardinality(Done)' = Cardinality(Done)
    BY <1>1, <1>2, <1>3, DoneSteps
  <2> QED BY <1>1, <2>1, <2>2 DEF SchedulerInv, Counts, mainVars
<1>12. Phases'
  BY <1>1, <1>2, <1>3, <1>5, <1>6, Constants DEF SchedulerInv, Phases, mainVars
<1>13. Channels'
  <2>1. channels'[k] = "open"
    BY <1>4 DEF SchedulerInv, TypeOK
  <2> QED BY <1>1, <1>5, <1>6, <2>1 DEF SchedulerInv, Channels, mainVars
<1>14. ExitOrder'
  <2> SUFFICES ASSUME stopping PROVE ExitOrder'
    BY <1>1 DEF ExitOrder
  <2>1. /\ Last(inbox[k]) = Msg("thread_exit", k)
        /\ \A n \in 1 .. (Len(inbox[k]) - 1) :
             inbox[k][n] = Msg("thread_init_get_channel", k)
    BY <1>2, <1>3 DEF SchedulerInv, ExitOrder
  <2>2. Len(inbox[k]) # 1
    <3>1. inbox[k][1] # Msg("thread_exit", k)
      BY <1>2, MessageTypes
    <3> QED BY <2>1, <3>1 DEF Last
  <2>3. /\ inbox'[k] # <<>> /\ Last(inbox'[k]) = Msg("thread_exit", k)
        /\ \A n \in 1 .. (Len(inbox'[k]) - 1) :
             inbox'[k][n] = Msg("thread_init_get_channel", k)
    <3>1. PICK x \in Nat : Len(inbox[k]) = x + 2
      <4>1. Len(inbox[k]) - 2 \in Nat /\ Len(inbox[k]) = (Len(inbox[k]) - 2) + 2
        <5>1. Len(inbox[k]) \in Nat /\ Len(inbox[k]) # 0 /\ Len(inbox[k]) # 1
          BY <1>5, <2>2
        <5>2. \A y \in Nat : y # 0 /\ y # 1 => y - 2 \in Nat /\ y = (y - 2) + 2
          OBVIOUS
        <5> QED BY <5>1, <5>2, Zenon
      <4> QED BY <4>1
    <3>2. Len(inbox'[k]) = x + 1
      BY <1>5, <3>1
    <3>3. \A n \in 1 .. (x + 1) : inbox'[k][n] = inbox[k][n + 1]
      BY <1>5, <3>1
    <3>4. inbox'[k] # <<>>
      BY <3>2
    <3>5. Last(inbox'[k]) = Msg("thread_exit", k)
      <4>1. inbox'[k][x + 1] = inbox[k][(x + 1) + 1]
        BY <3>3
      <4>2. (x + 1) + 1 = x + 2
        OBVIOUS
      <4> QED BY <2>1, <3>1, <3>2, <4>1, <4>2 DEF Last
    <3>6. ASSUME NEW n \in 1 .. (Len(inbox'[k]) - 1)
          PROVE  inbox'[k][n] = Msg("thread_init_get_channel", k)
      <4>1. n \in 1 .. (x + 1) /\ n + 1 \in 1 .. (Len(inbox[k]) - 1)
        BY <3>1, <3>2
      <4> QED BY <2>1, <3>3, <4>1
    <3> QED BY <3>4, <3>5, <3>6
  <2>4. /\ \A c \in Coros : c < size' => pc'[c] \notin Started \cup {"added"}
        /\ inbox'[0] = <<>>
    BY <1>1, <1>3, <1>5, Constants DEF SchedulerInv, ExitOrder, mainVars, coroVars
  <2>5. ASSUME NEW l \in Cores \ {0}
        PROVE  IF channels'[l] = "open" \/ inbox'[l] # <<>>
               THEN /\ inbox'[l] # <<>>
                    /\ Last(inbox'[l]) = Msg("thread_exit", l)
                    /\ \A n \in 1 .. (Len(inbox'[l]) - 1) :
                         inbox'[l][n] = Msg("thread_init_get_channel", l)
               ELSE channels'[l] = "put" /\ stack'[l] = <<>>
    <3>1. CASE l = k
      BY <2>3, <3>1
    <3>2. CASE l # k
      <4>1. /\ inbox'[l] = inbox[l] /\ channels'[l] = channels[l]
            /\ stack'[l] = stack[l]
        BY <1>1, <1>5, <1>6, <3>2
      <4> QED BY <4>1 DEF SchedulerInv, ExitOrder
    <3> QED BY <3>1, <3>2
  <2> QED BY <2>4, <2>5 DEF ExitOrder
<1> QED
  BY <1>7, <1>8, <1>9, <1>10, <1>11, <1>12, <1>13, <1>14 DEF SchedulerInv

\* thread_exit puts its thread's channel when no task is left to use it.
LEMMA ThreadExitKeeps ==
  ASSUME SchedulerInv, NEW k \in Cores, thread_exit(k)
  PROVE  SchedulerInv'
<1>1. /\ Takes(k, "thread_exit") /\ inbox' = Rest(k)
      /\ UNCHANGED <<mainVars, handle, desc, alive_tasks, stopping, stack,
                     coroVars, fault>>
  BY DEF thread_exit
<1>2. /\ inbox[k] # <<>> /\ Head(inbox[k]) = inbox[k][1] /\ stack[k] = <<>>
      /\ inbox[k][1].fn = "thread_exit"
      /\ Sound(k, 1) /\ inbox \in [Cores -> Seq(Messages)]
      /\ main # "app"
  BY <1>1, Taken
<1>3. k # 0 /\ inbox[k][1].arg = k /\ stopping
  BY <1>2 DEF Sound
<1>4. channels' = [channels EXCEPT ![k] = "put"]
  BY <1>2, <1>3 DEF thread_exit
<1>5. /\ inbox' \in [Cores -> Seq(Messages)]
      /\ \A l \in Cores : l # k => inbox'[l] = inbox[l]
      /\ Len(inbox[k]) \in Nat \ {0}
      /\ Len(inbox'[k]) = Len(inbox[k]) - 1
  BY <1>1, <1>2, RestQueue
<1>6. /\ channels'[k] = "put"
      /\ \A l \in Cores : l # k => channels'[l] = channels[l]
  BY <1>4 DEF SchedulerInv, TypeOK
<1>7. TypeOK'
  <2>1. channels' \in [Cores -> {"none", "open", "put"}]
    BY <1>4 DEF SchedulerInv, TypeOK
  <2> QED BY <1>1, <1>5, <2>1 DEF SchedulerInv, TypeOK, mainVars, coroVars
<1>8. Progress'
  BY <1>1 DEF SchedulerInv, Progress, mainVars, coroVars
<1>9. ResumedOnce'
  BY <1>1, <1>2, TakeOnce DEF SchedulerInv
<1>10. MessagesSound'
  <2> SUFFICES ASSUME NEW l \in Cores, NEW n \in Positions(l)'
               PROVE  Sound(l, n)'
    BY DEF MessagesSound
  <2>1. PICK o \in Positions(l) :
          /\ Sound(l, o) /\ inbox'[l][n] = inbox[l][o]
          /\ l # k => o = n
          /\ l = k => inbox[l][o].fn # "thread_init_get_channel"
    BY <1>1, <1>2, StaysSound
  <2> QED BY <1>1, <1>6, <2>1 DEF Sound, mainVars, coroVars
<1>11. Counts'
  <2>1. Alive' = Alive
    BY <1>1 DEF Alive, Sent, mainVars, coroVars
  <2>2. Cardinality(Done)' = Cardinality(Done)
    BY <1>1, <1>2, <1>3, DoneSteps
  <2> QED BY <1>1, <2>1, <2>2 DEF SchedulerInv, Counts, mainVars
<1>12. Phases'
  BY <1>1, <1>2, <1>3, <1>6, Constants DEF SchedulerInv, Phases, mainVars
<1>13. Channels'
  BY <1>1, <1>3 DEF Channels
<1>14. ExitOrder'
  <2>1. \A n \in 1 .. (Len(inbox[k]) - 1) :
          inbox[k][n] = Msg("thread_init_get_channel", k)
    BY <1>2, <1>3 DEF SchedulerInv, ExitOrder
  <2>2. Len(inbox[k]) = 1
    <3> SUFFICES ASSUME Len(inbox[k]) # 1 PROVE FALSE
      OBVIOUS
    <3>1. 1 \in 1 .. (Len(inbox[k]) - 1)
      <4>1. Len(inbox[k]) \in Nat /\ Len(inbox[k]) # 0 /\ Len(inbox[k]) # 1
        BY <1>5
      <4>2. \A y \in Nat : y # 0 /\ y # 1 => 1 \in 1 .. (y - 1)
        OBVIOUS
      <4> QED BY <4>1, <4>2, Zenon
    <3>2. inbox[k][1].fn = "thread_init_get_channel"
      BY <2>1, <3>1, MessageTypes
    <3> QED BY <1>2, <3>2
  <2>3. inbox'[k] = <<>>
    <3>1. inbox'[k] \in Seq(Messages) /\ Len(inbox'[k]) = 0
      BY <1>5, <2>2
    <3> QED BY <3>1, EmptySeq
  <2>4. /\ \A c \in Coros : c < size' => pc'[c] \notin Started \cup {"added"}
        /\ inbox'[0] = <<>>
    BY <1>1, <1>3, <1>5, Constants DEF SchedulerInv, ExitOrder, mainVars, coroVars
  <2>5. ASSUME NEW l \in Cores \ {0}
        PROVE  IF channels'[l] = "open" \/ inbox'[l] # <<>>
               THEN /\ inbox'[l] # <<>>
                    /\ Last(inbox'[l]) = Msg("thread_exit", l)
                    /\ \A n \in 1 .. (Len(inbox'[l]) - 1) :
                         inbox'[l][n] = Msg("thread_init_get_channel", l)
               ELSE channels'[l] = "put" /\ stack'[l] = <<>>
    <3>1. CASE l = k
      BY <1>1, <1>2, <1>6, <2>3, <3>1
    <3>2. CASE l # k
      <4>1. /\ inbox'[l] = inbox[l] /\ channels'[l] = channels[l]
            /\ stack'[l] = stack[l]
        BY <1>1, <1>5, <1>6, <3>2
      <4> QED BY <1>3, <4>1 DEF SchedulerInv, ExitOrder
    <3> QED BY <3>1, <3>2
  <2> QED BY <2>4, <2>5 DEF ExitOrder
<1> QED
  BY <1>7, <1>8, <1>9, <1>10, <1>11, <1>12, <1>13, <1>14 DEF SchedulerInv

\* The last task_done finds no task alive, and closes the bdev.
LEMMA TaskDoneKeeps ==
  ASSUME SchedulerInv, NEW k \in Cores, task_done(k)
  PROVE  SchedulerInv'
<1>1. /\ Takes(k, "task_done") /\ alive_tasks' = alive_tasks - 1
      /\ UNCHANGED <<mainVars, handle, stack, coroVars, fault>>
  BY DEF task_done
<1>2. /\ inbox[k] # <<>> /\ inbox[k][1].fn = "task_done"
      /\ Sound(k, 1) /\ inbox \in [Cores -> Seq(Messages)]
      /\ (k = 0 => main = "poll")
  BY <1>1, Taken
<1>3. k = 0 /\ main = "poll" /\ ~stopping
  BY <1>2 DEF Sound, SchedulerInv, ExitOrder
<1>4. /\ Rest(k) \in [Cores -> Seq(Messages)]
      /\ \A l \in Cores : l # k => Rest(k)[l] = inbox[l]
      /\ Len(inbox[k]) \in Nat \ {0}
      /\ Len(Rest(k)[k]) = Len(inbox[k]) - 1
      /\ \A n \in 1 .. (Len(inbox[k]) - 1) : Rest(k)[k][n] = inbox[k][n + 1]
  BY <1>2, RestQueue
<1>5. /\ alive_tasks = Cardinality(Alive) + Cardinality(Done)
      /\ Cardinality(Alive) \in Nat /\ IsFiniteSet(Alive) /\ Sent \subseteq Coros
      /\ Cardinality(Done) \in Nat /\ IsFiniteSet(Done) /\ Cardinality(Done) # 0
  <2>1. alive_tasks = Cardinality(Alive) + Cardinality(Done)
    BY <1>3 DEF SchedulerInv, Counts
  <2>2. inbox[0] \in Seq(Messages)
    BY <1>2, <1>3
  <2>3. Cardinality(Done) \in Nat /\ IsFiniteSet(Done)
    BY <2>2, DoneCount DEF Done
  <2>4. 1 \in Done
    BY <1>2, <1>3, <1>4 DEF Done, DoneIn
  <2>5. Cardinality(Done) # 0
    BY <2>3, <2>4, FS_EmptySet
  <2> QED BY <2>1, <2>3, <2>5, AliveFinite DEF SchedulerInv
<1>6. Progress'
  BY <1>1 DEF SchedulerInv, Progress, mainVars, coroVars
<1>7. CASE alive_tasks = 1
  <2>1. service_exit(Rest(k))
    BY <1>7 DEF task_done
  <2>2. Cardinality(Alive) = 0 /\ Cardinality(Done) = 1 /\ alive_tasks' = 0
    BY <1>1, <1>5, <1>7
  <2>3. \A c \in Coros : pc[c] \notin Pending
    <3>1. Alive = {}
      BY <1>5, <2>2, FS_EmptySet
    <3> SUFFICES ASSUME NEW c \in Coros, pc[c] \in Pending PROVE FALSE
      OBVIOUS
    <3>2. c \in Nat /\ size \in Nat
      BY Constants DEF SchedulerInv, TypeOK
    <3>3. ~(c >= size)
      BY DEF SchedulerInv, Progress, Pending, Started
    <3>4. c \in Sent
      BY <1>3, <3>2, <3>3 DEF Sent
    <3> QED BY <3>1, <3>4 DEF Alive
  <2>4. \A n \in Positions(0) : n # 1 => inbox[0][n].fn # "task_done"
    <3>1. \A n \in Done : n = 1
      <4>1. 1 \in Done
        BY <1>2, <1>3, <1>4 DEF Done, DoneIn
      <4>2. Cardinality(Done \ {1}) = 0 /\ IsFiniteSet(Done \ {1})
        BY <1>5, <2>2, <4>1, FS_RemoveElement
      <4>3. Done \ {1} = {}
        BY <4>2, FS_EmptySet
      <4> QED BY <4>3
    <3> QED BY <3>1 DEF Done, DoneIn, Positions
  <2>5. ASSUME NEW l \in Cores, NEW n \in 1 .. Len(Rest(k)[l])
        PROVE  /\ l # 0 /\ n = 1 /\ channels[l] # "open"
               /\ Rest(k)[l][n] = Msg("thread_init_get_channel", l)
    <3>1. CASE l = 0
      <4>1. n \in 1 .. (Len(inbox[0]) - 1)
        BY <1>3, <1>4, <3>1
      <4>2. n + 1 \in Positions(0) /\ n + 1 # 1 /\ n \in Nat
        BY <1>3, <1>4, <4>1 DEF Positions
      <4>3. inbox[0][n + 1].fn # "task_done"
        BY <2>4, <4>2
      <4> QED BY <1>3, <2>3, <3>1, <4>2, <4>3, OnlyInits
    <3>2. CASE l # 0
      <4>1. Rest(k)[l] = inbox[l] /\ n \in Positions(l)
        BY <1>3, <1>4, <3>2 DEF Positions
      <4>2. inbox[l][n].fn # "task_done"
        BY <3>2, <4>1 DEF SchedulerInv, MessagesSound, Sound
      <4> QED BY <1>3, <2>3, <4>1, <4>2, OnlyInits
    <3> QED BY <3>1, <3>2
  <2>6. main' = "poll" /\ UNCHANGED <<runs, i, size, handle, stack, coroVars, fault>>
    BY <1>1, <1>3 DEF mainVars
  <2>7. TypeOK
    BY DEF SchedulerInv
  <2> QED BY <1>4, <1>6, <2>1, <2>2, <2>3, <2>5, <2>6, <2>7, ServiceExitKeeps
<1>8. CASE alive_tasks # 1
  <2>1. inbox' = Rest(k) /\ UNCHANGED <<desc, channels, stopping>>
    BY <1>8 DEF task_done
  <2>2. alive_tasks' \in Nat
    BY <1>1, <1>5
  <2>3. TypeOK'
    BY <1>1, <1>4, <2>1, <2>2 DEF SchedulerInv, TypeOK, mainVars, coroVars
  <2>4. ResumedOnce'
    BY <1>2, <2>1, TakeOnce DEF SchedulerInv
  <2>5. MessagesSound'
    <3> SUFFICES ASSUME NEW l \in Cores, NEW n \in Positions(l)'
                 PROVE  Sound(l, n)'
      BY DEF MessagesSound
    <3>1. PICK o \in Positions(l) :
            /\ Sound(l, o) /\ inbox'[l][n] = inbox[l][o]
            /\ l # k => o = n
            /\ l = k => inbox[l][o].fn # "thread_init_get_channel"
      BY <1>2, <2>1, StaysSound
    <3> QED BY <1>1, <2>1, <3>1 DEF Sound, mainVars, coroVars
  <2>6. Counts'
    <3>1. Alive' = Alive
      BY <1>1 DEF Alive, Sent, mainVars, coroVars
    <3>2. Cardinality(Done)' = Cardinality(Done) - 1
      BY <1>2, <1>3, <2>1, DoneSteps
    <3>3. alive_tasks' = Cardinality(Alive)' + Cardinality(Done)'
      BY <1>1, <1>5, <3>1, <3>2
    <3> QED BY <1>1, <1>3, <3>3 DEF Counts, mainVars
  <2>7. Phases'
    BY <1>1, <1>3, <2>1 DEF SchedulerInv, Phases, mainVars
  <2>8. Channels'
    BY <1>1, <1>3, <1>4, <2>1 DEF SchedulerInv, Channels, mainVars
  <2>9. ExitOrder'
    BY <1>3, <2>1 DEF ExitOrder
  <2> QED
    BY <1>6, <2>3, <2>4, <2>5, <2>6, <2>7, <2>8, <2>9 DEF SchedulerInv
<1> QED BY <1>7, <1>8

-----------------------------------------------------------------------------
(***************************************************************************)
(* The invariant and the theorems.                                         *)
(***************************************************************************)
LEMMA InvInit == Init => SchedulerInv
<1> SUFFICES ASSUME Init PROVE SchedulerInv
  OBVIOUS
<1>1. TypeOK
  <2>1. Len(TaskCounts) \in Nat /\ MaxAwaits \in Nat
    BY SchedulerAssumption, LenProperties
  <2>2. runs \in 0 .. Len(TaskCounts)
    BY <2>1 DEF Init
  <2>3. /\ inbox \in [Cores -> Seq(Messages)] /\ stack \in [Cores -> Seq(Frames)]
    BY DEF Init
  <2>4. /\ pc \in [Coros -> PcValues] /\ awaits \in [Coros -> 0 .. MaxAwaits]
        /\ frame \in [Coros -> {"none", "live", "destroyed"}]
        /\ handle \in [Coros -> BOOLEAN]
        /\ channels \in [Cores -> {"none", "open", "put"}]
    BY <2>1 DEF Init, PcValues
  <2>5. wrapper_tasks \in [next : [Entries -> Entries], last : Entries]
    BY Constants DEF Init, Entries, End
  <2> QED BY <2>2, <2>3, <2>4, <2>5 DEF Init, TypeOK
<1>2. Progress
  BY Constants DEF Init, Progress
<1>3. \A k \in Cores : Positions(k) = {}
  BY DEF Init, Positions
<1>4. MessagesSound /\ ResumedOnce
  BY <1>3 DEF MessagesSound, ResumedOnce
<1>5. Counts /\ Phases /\ Channels /\ ExitOrder
  BY DEF Init, Counts, Phases, Channels, ExitOrder
<1> QED BY <1>1, <1>2, <1>4, <1>5 DEF SchedulerInv

\* Every step keeps the inductive invariant.
LEMMA InvNext ==
  ASSUME OnlyLastRunHasTasks, SchedulerInv, [Next]_vars
  PROVE  SchedulerInv'
<1>1. CASE MainStep
  BY <1>1, RunKeeps, CreateThreadKeeps, SubmitTaskKeeps, SchedulerInitEndKeeps,
     AppStartReturnsKeeps
  DEF MainStep
<1>2. ASSUME NEW k \in Cores, CoreStep(k) PROVE SchedulerInv'
  <2>1. CASE thread_init_get_channel(k)
    BY <2>1, ThreadInitKeeps
  <2>2. CASE service_thread_run(k)
    BY <2>2, ServiceThreadRunKeeps
  <2>3. CASE service_thread_run_yield(k)
    BY <2>3, ServiceThreadRunYieldKeeps
  <2>4. CASE task_done(k)
    BY <2>4, TaskDoneKeeps
  <2>5. CASE thread_exit(k)
    BY <2>5, ThreadExitKeeps
  <2>6. ASSUME NEW c \in Coros,
               \/ Yield(k, c) \/ Park(k, c) \/ \E d \in Coros : Unpark(k, c, d)
               \/ TaskReturn(k, c) \/ MarkDone(k, c) \/ FinalSuspend(k, c)
               \/ CheckDone(k, c) \/ PushBackEnds(k, c)
        PROVE  SchedulerInv'
    BY <2>6, YieldKeeps, ParkKeeps, UnparkKeeps, TaskReturnKeeps, MarkDoneKeeps,
       FinalSuspendKeeps, CheckDoneKeeps, PushBackEndsKeeps
  <2> QED BY <1>2, <2>1, <2>2, <2>3, <2>4, <2>5, <2>6 DEF CoreStep
<1>3. CASE UNCHANGED vars
  <2>1. TypeOK' /\ Progress' /\ ExitOrder'
    <3>1. TypeOK'
      BY <1>3 DEF vars, mainVars, appVars, coroVars, SchedulerInv, TypeOK
    <3>2. Progress'
      BY <1>3 DEF vars, mainVars, coroVars, SchedulerInv, Progress
    <3>3. ExitOrder'
      BY <1>3 DEF vars, mainVars, appVars, coroVars, SchedulerInv, ExitOrder
    <3> QED BY <3>1, <3>2, <3>3
  <2>2. MessagesSound'
    <3> SUFFICES ASSUME NEW l \in Cores, NEW n \in Positions(l)
                 PROVE  Sound(l, n)'
      BY <1>3 DEF MessagesSound, Positions, vars
    <3>1. Sound(l, n)
      BY DEF SchedulerInv, MessagesSound
    <3> QED BY <1>3, <3>1 DEF Sound, vars, mainVars, appVars, coroVars
  <2>3. ResumedOnce'
    BY <1>3 DEF SchedulerInv, ResumedOnce, Positions, Resumes, vars
  <2>4. Counts'
    <3>1. Alive' = Alive /\ Done' = Done
      BY <1>3 DEF Alive, Done, Sent, vars, mainVars, coroVars
    <3> QED BY <1>3, <3>1 DEF SchedulerInv, Counts, vars, mainVars, appVars
  <2>5. Phases' /\ Channels'
    BY <1>3 DEF SchedulerInv, Phases, Channels, vars, mainVars, appVars
  <2> QED BY <2>1, <2>2, <2>3, <2>4, <2>5 DEF SchedulerInv
<1> QED BY <1>1, <1>2, <1>3 DEF Next

\* The inductive invariant holds throughout.
LEMMA SchedulerInvariant ==
  ASSUME OnlyLastRunHasTasks
  PROVE  Spec => []SchedulerInv
<1>1. SchedulerInv /\ [Next]_vars => SchedulerInv'
  BY InvNext
<1> QED BY <1>1, InvInit, PTL DEF Spec

\* A task never finds its core without an I/O channel or the bdev closed:
\* thread_init_get_channel is ahead of the thread's first task, and the last
\* task_done comes after all task code (schedule.cpp).
THEOREM TasksHaveChannel ==
  ASSUME OnlyLastRunHasTasks
  PROVE  Spec => []ChannelOpen
<1>1. SchedulerInv => ChannelOpen
  BY BodyRuns DEF ChannelOpen
<1> QED BY <1>1, SchedulerInvariant, PTL

\* alive_tasks is exact and never negative, whatever the order in which tasks
\* return while scheduler_init() is still sending others.
THEOREM AliveTasksExact ==
  ASSUME OnlyLastRunHasTasks
  PROVE  Spec => []AliveCounts
<1>1. SchedulerInv => AliveCounts
  <2> SUFFICES ASSUME SchedulerInv PROVE AliveCounts
    OBVIOUS
  <2>1. main \in {"submit", "poll"} =>
          alive_tasks = Cardinality(Alive) + Cardinality(Done)
    BY DEF SchedulerInv, Counts
  <2>2. TypeOK
    BY DEF SchedulerInv
  <2> QED BY <2>1, <2>2 DEF AliveCounts, Alive, Done, DoneIn, Pending
<1> QED BY <1>1, SchedulerInvariant, PTL

\* A task that has not started still has its coroutine.
Startable == \A c \in Coros : pc[c] = "added" => handle[c]

\* A task loses its coroutine only when it has started.
LEMMA StartableNext ==
  ASSUME SchedulerInv, Startable, [Next]_vars
  PROVE  Startable'
<1>1. CASE MainStep
  <2>1. CASE Run
    BY <2>1 DEF Run, SchedulerInv, TypeOK, Startable
  <2>2. CASE CreateThread \/ SubmitTask \/ SchedulerInitEnd \/ AppStartReturns
    BY <2>2
    DEF CreateThread, SubmitTask, SchedulerInitEnd, AppStartReturns, coroVars, Startable
  <2> QED BY <1>1, <2>1, <2>2 DEF MainStep
<1>2. ASSUME NEW k \in Cores, CoreStep(k) PROVE Startable'
  <2>1. CASE thread_init_get_channel(k) \/ task_done(k) \/ thread_exit(k)
    BY <2>1 DEF thread_init_get_channel, task_done, thread_exit, coroVars, Startable
  <2>2. CASE service_thread_run(k)
    <3>1. \/ UNCHANGED <<handle, pc>>
          \/ \E c : /\ handle' = [handle EXCEPT ![c] = FALSE]
                    /\ pc' = [pc EXCEPT ![c] = "body"]
      BY <2>2 DEF service_thread_run
    <3> QED BY <3>1 DEF SchedulerInv, TypeOK, Startable
  <2>3. CASE service_thread_run_yield(k)
    BY <2>3 DEF service_thread_run_yield, SchedulerInv, TypeOK, Startable
  <2>4. ASSUME NEW c \in Coros,
               \/ Yield(k, c) \/ Park(k, c) \/ \E d \in Coros : Unpark(k, c, d)
               \/ TaskReturn(k, c) \/ MarkDone(k, c) \/ FinalSuspend(k, c)
               \/ CheckDone(k, c) \/ PushBackEnds(k, c)
        PROVE  Startable'
    <3>1. /\ handle' = handle
          /\ \/ pc' = pc
             \/ \E d \in Coros, v \in PcValues \ {"added"} : pc' = [pc EXCEPT ![d] = v]
      BY <2>4
      DEF Yield, Park, Unpark, TaskReturn, MarkDone, FinalSuspend, CheckDone, PushBackEnds, PcValues
    <3> QED BY <3>1 DEF SchedulerInv, TypeOK, Startable
  <2> QED BY <1>2, <2>1, <2>2, <2>3, <2>4 DEF CoreStep
<1>3. CASE UNCHANGED vars
  BY <1>3 DEF vars, coroVars, Startable
<1> QED BY <1>1, <1>2, <1>3 DEF Next

\* Every task a run() sends has a coroutine to start, so service_thread_run()
\* dereferences no null handle.  Without the assumption on the runs it does.
THEOREM TasksStart ==
  ASSUME OnlyLastRunHasTasks
  PROVE  Spec => []TasksHaveCoroutine
<1>1. Init => Startable
  BY DEF Init, Startable
<1>2. SchedulerInv /\ Startable /\ [Next]_vars => Startable'
  BY StartableNext
<1>3. SchedulerInv /\ Startable => TasksHaveCoroutine
  BY DEF SchedulerInv, MessagesSound, Sound, Positions, Startable, TasksHaveCoroutine
<1> QED BY <1>1, <1>2, <1>3, SchedulerInvariant, PTL DEF Spec

-----------------------------------------------------------------------------
(***************************************************************************)
(* The wrappers.  A wrapper belongs to one frame of service_thread_run()   *)
(* or of its push_back(), and then to the list, or to nothing any more.    *)
(***************************************************************************)
Depths(k) == 1 .. Len(stack[k])
Begun(c) == frame[c] = "live" /\ pc[c] \notin {"none", "added"}

FramesBegun ==
  \A c \in Coros, k \in Cores : \A n \in Depths(k) :
    stack[k][n].of # "coroutine" /\ stack[k][n].arg = c => Begun(c)

OneFrame ==
  \A k, l \in Cores : \A n \in Depths(k), j \in Depths(l) :
    stack[k][n].of # "coroutine" /\ stack[l][j].of # "coroutine"
      /\ stack[k][n].arg = stack[l][j].arg => k = l /\ n = j

\* What is in the list is not what some core may still destroy or push.
Linked ==
  \A d \in Entries, c \in Coros : wrapper_tasks.next[d] = c =>
    /\ Begun(c)
    /\ \A k \in Cores : \A n \in Depths(k) : stack[k][n] # ServiceThreadRun(c)
    /\ \A e \in Entries : wrapper_tasks.next[e] = c => d = e

WrapperInv == FramesBegun /\ OneFrame /\ Linked

\* A frame other than a coroutine's is one that was there before, `moved[l]'
\* places away on core l.
Kept(moved) ==
  \A l \in Cores : \A n \in Depths(l)' :
    stack'[l][n].of # "coroutine" =>
      /\ n + moved[l] \in Depths(l)
      /\ stack'[l][n] = stack[l][n + moved[l]]

\* Pop, and Push of a coroutine, keep the frames that hold a wrapper.
LEMMA PopKept ==
  ASSUME stack \in [Cores -> Seq(Frames)], NEW k \in Cores, stack[k] # <<>>, Pop(k)
  PROVE  Kept([l \in Cores |-> IF l = k THEN 1 ELSE 0])
<1> SUFFICES ASSUME NEW l \in Cores, NEW n \in Depths(l)'
             PROVE  /\ n + (IF l = k THEN 1 ELSE 0) \in Depths(l)
                    /\ stack'[l][n] = stack[l][n + (IF l = k THEN 1 ELSE 0)]
  BY DEF Kept
<1>1. CASE l = k
  <2>1. stack[k] \in Seq(Frames) /\ stack'[k] = Tail(stack[k])
    BY DEF Pop
  <2>2. /\ Len(stack[k]) \in Nat \ {0} /\ Len(stack'[k]) = Len(stack[k]) - 1
        /\ \A j \in 1 .. (Len(stack[k]) - 1) : stack'[k][j] = stack[k][j + 1]
    BY <2>1, HeadTailProperties, LenProperties, EmptySeq
  <2>3. n \in 1 .. (Len(stack[k]) - 1)
    BY <1>1, <2>2 DEF Depths
  <2>4. n + 1 \in 1 .. Len(stack[k])
    BY <2>2, <2>3
  <2> QED BY <1>1, <2>2, <2>3, <2>4 DEF Depths
<1>2. CASE l # k
  <2>1. stack'[l] = stack[l] /\ Len(stack[l]) \in Nat
    BY <1>2, LenProperties DEF Pop
  <2> QED BY <1>2, <2>1 DEF Depths
<1> QED BY <1>1, <1>2

LEMMA PushKept ==
  ASSUME stack \in [Cores -> Seq(Frames)], NEW k \in Cores, NEW c \in Coros,
         Push(k, <<Coroutine(c)>>)
  PROVE  Kept([l \in Cores |-> IF l = k THEN 0 - 1 ELSE 0])
<1> SUFFICES ASSUME NEW l \in Cores, NEW n \in Depths(l)',
                    stack'[l][n].of # "coroutine"
             PROVE  /\ n + (IF l = k THEN 0 - 1 ELSE 0) \in Depths(l)
                    /\ stack'[l][n] = stack[l][n + (IF l = k THEN 0 - 1 ELSE 0)]
  BY DEF Kept
<1>1. CASE l = k
  <2>1. stack[k] \in Seq(Frames) /\ stack'[k] = <<Coroutine(c)>> \o stack[k]
    BY DEF Push
  <2>2. <<Coroutine(c)>> \in Seq(Frames) /\ Len(<<Coroutine(c)>>) = 1
    <3>1. Coroutine(c) \in Frames
      BY DEF Coroutine, Frames
    <3> HIDE DEF Coroutine, Frames
    <3> QED BY <3>1
  <2>3. /\ Len(stack[k]) \in Nat /\ Len(stack'[k]) = 1 + Len(stack[k])
        /\ \A j \in 1 .. (1 + Len(stack[k])) :
             stack'[k][j] = IF j <= 1 THEN <<Coroutine(c)>>[j] ELSE stack[k][j - 1]
    BY <2>1, <2>2, ConcatProperties, LenProperties
  <2>4. n \in 1 .. (1 + Len(stack[k]))
    BY <1>1, <2>3 DEF Depths
  <2>5. n # 1
    <3>1. Coroutine(c).of = "coroutine"
      BY DEF Coroutine
    <3>2. n = 1 => stack'[k][n] = Coroutine(c)
      BY <2>3, <2>4
    <3> QED BY <1>1, <3>1, <3>2
  <2>6. n - 1 \in 1 .. Len(stack[k]) /\ stack'[k][n] = stack[k][n - 1]
    BY <2>3, <2>4, <2>5
  <2>7. n + (0 - 1) = n - 1
    BY <2>4
  <2> QED BY <1>1, <2>6, <2>7 DEF Depths
<1>2. CASE l # k
  <2>1. stack'[l] = stack[l] /\ Len(stack[l]) \in Nat
    BY <1>2, LenProperties DEF Push
  <2> QED BY <1>2, <2>1 DEF Depths
<1> QED BY <1>1, <1>2

\* A step that keeps the frames, and starts and destroys no wrapper that has begun.
LEMMA WrapperKept ==
  ASSUME WrapperInv, NEW moved \in [Cores -> {0 - 1, 0, 1}], Kept(moved),
         \A c \in Coros : Begun(c) => Begun(c)',
         wrapper_tasks'.next = wrapper_tasks.next
  PROVE  WrapperInv'
<1>1. FramesBegun'
  <2> SUFFICES ASSUME NEW c \in Coros, NEW k \in Cores, NEW n \in Depths(k)',
                      stack'[k][n].of # "coroutine", stack'[k][n].arg = c
               PROVE  Begun(c)'
    BY DEF FramesBegun
  <2> QED BY DEF WrapperInv, FramesBegun, Kept
<1>2. OneFrame'
  <2> SUFFICES ASSUME NEW k \in Cores, NEW l \in Cores, NEW n \in Depths(k)',
                      NEW j \in Depths(l)', stack'[k][n].of # "coroutine",
                      stack'[l][j].of # "coroutine",
                      stack'[k][n].arg = stack'[l][j].arg
               PROVE  k = l /\ n = j
    BY DEF OneFrame
  <2>1. k = l /\ n + moved[k] = j + moved[l]
    BY DEF WrapperInv, OneFrame, Kept
  <2>2. n \in Int /\ j \in Int /\ moved[k] \in Int
    BY DEF Depths
  <2> QED BY <2>1, <2>2
<1>3. Linked'
  <2> SUFFICES ASSUME NEW d \in Entries, NEW c \in Coros, wrapper_tasks'.next[d] = c
               PROVE  /\ Begun(c)'
                      /\ \A k \in Cores : \A n \in Depths(k)' :
                           stack'[k][n] # ServiceThreadRun(c)
                      /\ \A e \in Entries : wrapper_tasks'.next[e] = c => d = e
    BY DEF Linked
  <2>1. ASSUME NEW k \in Cores, NEW n \in Depths(k)',
               stack'[k][n] = ServiceThreadRun(c)
        PROVE  FALSE
    <3>1. stack'[k][n].of # "coroutine"
      BY <2>1 DEF ServiceThreadRun
    <3> QED BY <2>1, <3>1 DEF WrapperInv, Linked, Kept
  <2> QED BY <2>1 DEF WrapperInv, Linked
<1> QED BY <1>1, <1>2, <1>3 DEF WrapperInv

LEMMA StillKept ==
  ASSUME UNCHANGED stack
  PROVE  Kept([l \in Cores |-> 0])
<1> SUFFICES ASSUME NEW l \in Cores, NEW n \in Depths(l)
             PROVE  n + 0 \in Depths(l) /\ stack[l][n] = stack[l][n + 0]
  BY DEF Kept, Depths
<1>1. n + 0 = n
  BY DEF Depths
<1> QED BY <1>1

\* service_thread_run() creates a wrapper that nobody has seen.
LEMMA WrapperStarts ==
  ASSUME WrapperInv, SchedulerInv, NEW k \in Cores, service_thread_run(k),
         handle[Head(inbox[k]).arg]
  PROVE  WrapperInv'
<1>1. PICK c \in Coros : c = Head(inbox[k]).arg /\ pc[c] = "added"
  <2>1. Takes(k, "service_thread_run")
    BY DEF service_thread_run
  <2> QED BY <2>1, Taken DEF Sound
<1>2. /\ stack[k] = <<>> /\ UNCHANGED wrapper_tasks
      /\ frame' = [frame EXCEPT ![c] = "live"] /\ pc' = [pc EXCEPT ![c] = "body"]
      /\ Push(k, <<Coroutine(c), ServiceThreadRun(c)>>)
  BY <1>1 DEF service_thread_run, Takes
<1>3. /\ stack \in [Cores -> Seq(Frames)] /\ pc \in [Coros -> PcValues]
      /\ frame \in [Coros -> {"none", "live", "destroyed"}]
  BY DEF SchedulerInv, TypeOK
<1>5. ~Begun(c) /\ Begun(c)' /\ \A d \in Coros : d # c => (Begun(d) <=> Begun(d)')
  <2>1. ~Begun(c)
    BY <1>1 DEF Begun
  <2>2. pc'[c] = "body" /\ frame'[c] = "live"
    BY <1>2, <1>3
  <2>3. \A d \in Coros : d # c => pc'[d] = pc[d] /\ frame'[d] = frame[d]
    BY <1>2, <1>3
  <2>4. Begun(c)'
    BY <2>2 DEF Begun
  <2>5. \A d \in Coros : d # c => (Begun(d) <=> Begun(d)')
    BY <2>3 DEF Begun
  <2> QED BY <2>1, <2>4, <2>5
<1>6. /\ \A l \in Cores : l # k => stack'[l] = stack[l]
      /\ Len(stack'[k]) = 2 /\ stack'[k][1] = Coroutine(c)
      /\ stack'[k][2] = ServiceThreadRun(c)
  <2>1. stack'[k] = <<Coroutine(c), ServiceThreadRun(c)>> \o <<>>
    BY <1>2, <1>3 DEF Push
  <2>2. stack'[k] = <<Coroutine(c), ServiceThreadRun(c)>>
    BY <2>1
  <2>3. \A l \in Cores : l # k => stack'[l] = stack[l]
    BY <1>2, <1>3 DEF Push
  <2> HIDE DEF Coroutine, ServiceThreadRun
  <2> QED BY <2>2, <2>3
<1>7. ASSUME NEW l \in Cores, NEW n \in Depths(l)', stack'[l][n].of # "coroutine"
      PROVE  \/ l = k /\ n = 2 /\ stack'[l][n] = ServiceThreadRun(c)
             \/ l # k /\ n \in Depths(l) /\ stack'[l][n] = stack[l][n]
  <2>1. CASE l = k
    <3>1. n \in 1 .. 2
      BY <1>6, <2>1 DEF Depths
    <3>2. n # 1
      BY <1>6, <1>7, <2>1 DEF Coroutine
    <3> QED BY <1>6, <2>1, <3>1, <3>2
  <2>2. CASE l # k
    BY <1>6, <2>2 DEF Depths
  <2> QED BY <2>1, <2>2
<1>8. \A l \in Cores : \A n \in Depths(l) :
        stack[l][n].of # "coroutine" => stack[l][n].arg # c
  BY <1>5 DEF WrapperInv, FramesBegun
<1>9. ServiceThreadRun(c).arg = c
  BY DEF ServiceThreadRun
<1>10. FramesBegun'
  <2> SUFFICES ASSUME NEW d \in Coros, NEW l \in Cores, NEW n \in Depths(l)',
                      stack'[l][n].of # "coroutine", stack'[l][n].arg = d
               PROVE  Begun(d)'
    BY DEF FramesBegun
  <2>1. CASE stack'[l][n] = ServiceThreadRun(c)
    <3>1. d = c
      BY <1>9, <2>1
    <3> QED BY <1>5, <3>1
  <2>2. CASE n \in Depths(l) /\ stack'[l][n] = stack[l][n]
    BY <1>5, <1>8, <2>2 DEF WrapperInv, FramesBegun
  <2> QED BY <1>7, <2>1, <2>2
<1>11. OneFrame'
  <2> SUFFICES ASSUME NEW l \in Cores, NEW j \in Cores, NEW n \in Depths(l)',
                      NEW o \in Depths(j)', stack'[l][n].of # "coroutine",
                      stack'[j][o].of # "coroutine",
                      stack'[l][n].arg = stack'[j][o].arg
               PROVE  l = j /\ n = o
    BY DEF OneFrame
  <2> QED BY <1>7, <1>8, <1>9 DEF WrapperInv, OneFrame
<1>12. Linked'
  <2> SUFFICES ASSUME NEW e \in Entries, NEW d \in Coros, wrapper_tasks.next[e] = d
               PROVE  /\ Begun(d)'
                      /\ \A l \in Cores : \A n \in Depths(l)' :
                           stack'[l][n] # ServiceThreadRun(d)
                      /\ \A o \in Entries : wrapper_tasks.next[o] = d => e = o
    BY <1>2 DEF Linked
  <2>1. Begun(d) /\ d # c
    BY <1>5 DEF WrapperInv, Linked
  <2>2. ASSUME NEW l \in Cores, NEW n \in Depths(l)',
               stack'[l][n] = ServiceThreadRun(d)
        PROVE  FALSE
    <3>1. stack'[l][n].of # "coroutine" /\ stack'[l][n].arg = d
      BY <2>2 DEF ServiceThreadRun
    <3> QED BY <1>7, <1>9, <2>1, <2>2, <3>1 DEF WrapperInv, Linked
  <2> QED BY <1>5, <2>1, <2>2 DEF WrapperInv, Linked
<1> QED BY <1>10, <1>11, <1>12 DEF WrapperInv

\* The frame on top of service_thread_run()'s core is the only one with c's wrapper.
LEMMA OnTop ==
  ASSUME WrapperInv, SchedulerInv, NEW k \in Cores, NEW c \in Coros,
         Top(k, ServiceThreadRun(c))
  PROVE  /\ stack[k] # <<>> /\ 1 \in Depths(k) /\ stack[k][1] = ServiceThreadRun(c)
         /\ Begun(c)
         /\ \A l \in Cores : \A n \in Depths(l) :
              stack[l][n].of # "coroutine" /\ stack[l][n].arg = c => l = k /\ n = 1
         /\ \A d \in Entries : wrapper_tasks.next[d] # c
<1>1. stack[k] \in Seq(Frames) /\ stack[k] # <<>> /\ Head(stack[k]) = ServiceThreadRun(c)
  BY DEF Top, SchedulerInv, TypeOK
<1>2. Len(stack[k]) \in Nat \ {0} /\ Head(stack[k]) = stack[k][1]
  BY <1>1, LenProperties, EmptySeq, HeadTailProperties
<1>3. 1 \in Depths(k) /\ stack[k][1] = ServiceThreadRun(c)
  BY <1>1, <1>2 DEF Depths
<1>4. stack[k][1].of # "coroutine" /\ stack[k][1].arg = c
  BY <1>3 DEF ServiceThreadRun
<1> QED BY <1>1, <1>3, <1>4 DEF WrapperInv, FramesBegun, OneFrame, Linked

LEMMA Cancel == \A x, y, z \in Int : x + z = y + z => x = y
OBVIOUS

\* A wrapper that is done is destroyed, and nobody else has it.
LEMMA WrapperDestroyed ==
  ASSUME WrapperInv, SchedulerInv, NEW k \in Cores, NEW c \in Coros,
         Top(k, ServiceThreadRun(c)), Pop(k),
         frame' = [frame EXCEPT ![c] = "destroyed"],
         UNCHANGED <<pc, wrapper_tasks>>
  PROVE  WrapperInv'
<1> DEFINE moved == [l \in Cores |-> IF l = k THEN 1 ELSE 0]
<1>1. stack \in [Cores -> Seq(Frames)] /\ frame \in [Coros -> {"none", "live", "destroyed"}]
  BY DEF SchedulerInv, TypeOK
<1>2. /\ stack[k] # <<>>
      /\ \A l \in Cores : \A n \in Depths(l) :
           stack[l][n].of # "coroutine" /\ stack[l][n].arg = c => l = k /\ n = 1
      /\ \A d \in Entries : wrapper_tasks.next[d] # c
  BY OnTop
<1>3. Kept(moved)
  BY <1>1, <1>2, PopKept
<1>4. \A d \in Coros : d # c => (Begun(d) => Begun(d)')
  BY <1>1 DEF Begun
<1>5. ASSUME NEW l \in Cores, NEW n \in Depths(l)', stack'[l][n].of # "coroutine"
      PROVE  /\ n + moved[l] \in Depths(l) /\ stack'[l][n] = stack[l][n + moved[l]]
             /\ stack'[l][n].arg # c
  <2>1. n + moved[l] \in Depths(l) /\ stack'[l][n] = stack[l][n + moved[l]]
    BY <1>3, <1>5 DEF Kept
  <2>2. l = k => n + moved[l] # 1
    BY DEF Depths
  <2> QED BY <1>2, <1>5, <2>1, <2>2
<1>6. moved \in [Cores -> {0 - 1, 0, 1}]
  OBVIOUS
<1> HIDE DEF moved
<1>7. FramesBegun'
  <2> SUFFICES ASSUME NEW d \in Coros, NEW l \in Cores, NEW n \in Depths(l)',
                      stack'[l][n].of # "coroutine", stack'[l][n].arg = d
               PROVE  Begun(d)'
    BY DEF FramesBegun
  <2> QED BY <1>4, <1>5 DEF WrapperInv, FramesBegun
<1>8. OneFrame'
  <2> SUFFICES ASSUME NEW l \in Cores, NEW j \in Cores, NEW n \in Depths(l)',
                      NEW o \in Depths(j)', stack'[l][n].of # "coroutine",
                      stack'[j][o].of # "coroutine",
                      stack'[l][n].arg = stack'[j][o].arg
               PROVE  l = j /\ n = o
    BY DEF OneFrame
  <2>1. l = j /\ n + moved[l] = o + moved[j]
    BY <1>5 DEF WrapperInv, OneFrame
  <2>2. n \in Int /\ o \in Int /\ moved[l] \in Int /\ moved[j] = moved[l]
    BY <1>6, <2>1 DEF Depths
  <2> QED BY <2>1, <2>2, Cancel
<1>9. Linked'
  <2> SUFFICES ASSUME NEW e \in Entries, NEW d \in Coros, wrapper_tasks.next[e] = d
               PROVE  /\ Begun(d)'
                      /\ \A l \in Cores : \A n \in Depths(l)' :
                           stack'[l][n] # ServiceThreadRun(d)
                      /\ \A o \in Entries : wrapper_tasks.next[o] = d => e = o
    BY DEF Linked
  <2>1. Begun(d)'
    BY <1>2, <1>4 DEF WrapperInv, Linked
  <2>2. ASSUME NEW l \in Cores, NEW n \in Depths(l)',
               stack'[l][n] = ServiceThreadRun(d)
        PROVE  FALSE
    <3>1. stack'[l][n].of # "coroutine"
      BY <2>2 DEF ServiceThreadRun
    <3> QED BY <1>5, <2>2, <3>1 DEF WrapperInv, Linked
  <2> QED BY <2>1, <2>2 DEF WrapperInv, Linked
<1> QED BY <1>7, <1>8, <1>9 DEF WrapperInv

\* A wrapper that is not done is linked, and no core destroys or pushes it again.
LEMMA WrapperLinked ==
  ASSUME WrapperInv, SchedulerInv, NEW k \in Cores, NEW c \in Coros,
         CheckDone(k, c), pc[c] \notin {"final", "gone"}
  PROVE  WrapperInv'
<1>0. /\ Top(k, ServiceThreadRun(c)) /\ UNCHANGED <<pc, frame>>
      /\ stack' = [stack EXCEPT ![k] = <<PushBack(c)>> \o Tail(@)]
      /\ wrapper_tasks' =
           [wrapper_tasks EXCEPT !.next = [@ EXCEPT ![wrapper_tasks.last] = c,
                                                    ![c] = End]]
  BY DEF CheckDone
<1>1. /\ stack \in [Cores -> Seq(Frames)]
      /\ wrapper_tasks \in [next : [Entries -> Entries], last : Entries]
      /\ c \in Entries /\ End \in Entries /\ End \notin Coros
  <2>1. c \in Entries /\ End \in Entries /\ End \notin Coros
    <3>1. NumTasks \in Nat
      BY Constants
    <3> QED BY <3>1 DEF Coros, Entries, End
  <2> QED BY <2>1 DEF SchedulerInv, TypeOK
<1>2. /\ stack[k] # <<>> /\ 1 \in Depths(k) /\ stack[k][1] = ServiceThreadRun(c)
      /\ Begun(c)
      /\ \A l \in Cores : \A n \in Depths(l) :
           stack[l][n].of # "coroutine" /\ stack[l][n].arg = c => l = k /\ n = 1
      /\ \A d \in Entries : wrapper_tasks.next[d] # c
  BY <1>0, OnTop
<1>3. /\ ServiceThreadRun(c).of # "coroutine" /\ ServiceThreadRun(c).arg = c
      /\ PushBack(c).of # "coroutine" /\ PushBack(c).arg = c
      /\ \A d \in Coros : PushBack(c) # ServiceThreadRun(d)
  BY DEF ServiceThreadRun, PushBack
<1>4. /\ \A l \in Cores : l # k => stack'[l] = stack[l]
      /\ Len(stack'[k]) = Len(stack[k]) /\ stack'[k][1] = PushBack(c)
      /\ \A n \in Depths(k) : n # 1 => stack'[k][n] = stack[k][n]
  <2>1. /\ Tail(stack[k]) \in Seq(Frames) /\ Len(stack[k]) \in Nat \ {0}
        /\ Len(Tail(stack[k])) = Len(stack[k]) - 1
        /\ \A n \in 1 .. (Len(stack[k]) - 1) : Tail(stack[k])[n] = stack[k][n + 1]
    <3>1. stack[k] \in Seq(Frames)
      BY <1>1
    <3> QED BY <1>2, <3>1, HeadTailProperties, LenProperties, EmptySeq
  <2>2. <<PushBack(c)>> \in Seq(Frames) /\ Len(<<PushBack(c)>>) = 1
    <3>1. PushBack(c) \in Frames
      BY DEF PushBack, Frames
    <3> HIDE DEF PushBack, Frames
    <3> QED BY <3>1
  <2>3. stack'[k] = <<PushBack(c)>> \o Tail(stack[k])
    BY <1>0, <1>1
  <2>4. /\ Len(stack'[k]) = 1 + Len(Tail(stack[k]))
        /\ \A n \in 1 .. (1 + Len(Tail(stack[k]))) :
             stack'[k][n] = IF n <= 1 THEN <<PushBack(c)>>[n]
                            ELSE Tail(stack[k])[n - 1]
    BY <2>1, <2>2, <2>3, ConcatProperties
  <2>5. stack'[k][1] = PushBack(c)
    BY <2>1, <2>4
  <2>6. ASSUME NEW n \in Depths(k), n # 1 PROVE stack'[k][n] = stack[k][n]
    <3>1. n \in 1 .. Len(stack[k]) /\ n - 1 \in 1 .. (Len(stack[k]) - 1)
      BY <2>1, <2>6 DEF Depths
    <3>2. stack'[k][n] = Tail(stack[k])[n - 1]
      BY <2>1, <2>4, <2>6, <3>1
    <3> QED BY <2>1, <3>1, <3>2
  <2>7. Len(stack'[k]) = Len(stack[k])
    BY <2>1, <2>4
  <2> QED BY <1>0, <1>1, <2>5, <2>6, <2>7
<1>5. ASSUME NEW l \in Cores, NEW n \in Depths(l)'
      PROVE  /\ n \in Depths(l)
             /\ \/ stack'[l][n] = stack[l][n] /\ ~(l = k /\ n = 1)
                \/ l = k /\ n = 1 /\ stack'[l][n] = PushBack(c)
  BY <1>4 DEF Depths
<1>6. FramesBegun'
  <2> SUFFICES ASSUME NEW d \in Coros, NEW l \in Cores, NEW n \in Depths(l)',
                      stack'[l][n].of # "coroutine", stack'[l][n].arg = d
               PROVE  Begun(d)
    BY <1>0 DEF FramesBegun, Begun
  <2>1. CASE stack'[l][n] = PushBack(c)
    <3>1. d = c
      BY <1>3, <2>1
    <3> QED BY <1>2, <3>1
  <2>2. CASE stack'[l][n] = stack[l][n]
    BY <1>5, <2>2 DEF WrapperInv, FramesBegun
  <2> QED BY <1>5, <2>1, <2>2
<1>7. OneFrame'
  <2> SUFFICES ASSUME NEW l \in Cores, NEW j \in Cores, NEW n \in Depths(l)',
                      NEW o \in Depths(j)', stack'[l][n].of # "coroutine",
                      stack'[j][o].of # "coroutine",
                      stack'[l][n].arg = stack'[j][o].arg
               PROVE  l = j /\ n = o
    BY DEF OneFrame
  <2>1. /\ stack[l][n].of # "coroutine" /\ stack[l][n].arg = stack'[l][n].arg
        /\ n \in Depths(l)
    BY <1>2, <1>3, <1>5
  <2>2. /\ stack[j][o].of # "coroutine" /\ stack[j][o].arg = stack'[j][o].arg
        /\ o \in Depths(j)
    BY <1>2, <1>3, <1>5
  <2> QED BY <2>1, <2>2 DEF WrapperInv, OneFrame
<1>8. Linked'
  <2> SUFFICES ASSUME NEW e \in Entries, NEW d \in Coros, wrapper_tasks'.next[e] = d
               PROVE  /\ Begun(d)
                      /\ \A l \in Cores : \A n \in Depths(l)' :
                           stack'[l][n] # ServiceThreadRun(d)
                      /\ \A o \in Entries : wrapper_tasks'.next[o] = d => e = o
    BY <1>0 DEF Linked, Begun
  <2>1. \A o \in Entries :
          wrapper_tasks'.next[o] = IF o = c THEN End
                                   ELSE IF o = wrapper_tasks.last THEN c
                                   ELSE wrapper_tasks.next[o]
    BY <1>0, <1>1
  <2>2. CASE d = c
    <3>1. Begun(d) /\ \A o \in Entries : wrapper_tasks'.next[o] = d => e = o
      BY <1>1, <1>2, <2>1, <2>2
    <3>2. ASSUME NEW l \in Cores, NEW n \in Depths(l)',
                 stack'[l][n] = ServiceThreadRun(d)
          PROVE  FALSE
      BY <1>2, <1>3, <1>5, <2>2, <3>2
    <3> QED BY <3>1, <3>2
  <2>3. CASE d # c
    <3>1. /\ wrapper_tasks.next[e] = d
          /\ \A o \in Entries : wrapper_tasks'.next[o] = d => wrapper_tasks.next[o] = d
      BY <1>1, <2>1, <2>3
    <3>2. ASSUME NEW l \in Cores, NEW n \in Depths(l)',
                 stack'[l][n] = ServiceThreadRun(d)
          PROVE  FALSE
      BY <1>3, <1>5, <3>1, <3>2 DEF WrapperInv, Linked
    <3> QED BY <3>1, <3>2 DEF WrapperInv, Linked
  <2> QED BY <2>2, <2>3
<1> QED BY <1>6, <1>7, <1>8 DEF WrapperInv

\* Every step keeps the wrappers apart.
LEMMA WrapperNext ==
  ASSUME SchedulerInv, WrapperInv, [Next]_vars
  PROVE  WrapperInv'
<1>1. /\ stack \in [Cores -> Seq(Frames)] /\ pc \in [Coros -> PcValues]
      /\ frame \in [Coros -> {"none", "live", "destroyed"}]
  BY DEF SchedulerInv, TypeOK
<1>2. ASSUME UNCHANGED <<frame, wrapper_tasks>>,
             NEW moved \in [Cores -> {0 - 1, 0, 1}], Kept(moved),
             \A c \in Coros : Begun(c) => pc'[c] \notin {"none", "added"}
      PROVE  WrapperInv'
  BY <1>2, WrapperKept DEF Begun
<1>3. ASSUME UNCHANGED <<stack, frame, wrapper_tasks>>,
             \A c \in Coros : Begun(c) => pc'[c] \notin {"none", "added"}
      PROVE  WrapperInv'
  <2>1. Kept([l \in Cores |-> 0])
    BY <1>3, StillKept
  <2> QED BY <1>2, <1>3, <2>1
<1>4. ASSUME NEW k \in Cores, Pop(k), stack[k] # <<>>,
             UNCHANGED frame, wrapper_tasks'.next = wrapper_tasks.next,
             \A c \in Coros : Begun(c) => pc'[c] \notin {"none", "added"}
      PROVE  WrapperInv'
  <2>1. Kept([l \in Cores |-> IF l = k THEN 1 ELSE 0])
    BY <1>1, <1>4, PopKept
  <2>2. [l \in Cores |-> IF l = k THEN 1 ELSE 0] \in [Cores -> {0 - 1, 0, 1}]
    OBVIOUS
  <2>3. \A c \in Coros : Begun(c) => Begun(c)'
    BY <1>4 DEF Begun
  <2> QED BY <1>4, <2>1, <2>2, <2>3, WrapperKept
<1>5. ASSUME NEW k \in Cores, NEW c \in Coros, Push(k, <<Coroutine(c)>>),
             UNCHANGED <<frame, wrapper_tasks>>,
             \A d \in Coros : Begun(d) => pc'[d] \notin {"none", "added"}
      PROVE  WrapperInv'
  <2>1. Kept([l \in Cores |-> IF l = k THEN 0 - 1 ELSE 0])
    BY <1>1, <1>5, PushKept
  <2>2. [l \in Cores |-> IF l = k THEN 0 - 1 ELSE 0] \in [Cores -> {0 - 1, 0, 1}]
    OBVIOUS
  <2> QED BY <1>2, <1>5, <2>1, <2>2
<1>6. ASSUME NEW c \in Coros, NEW v, v \notin {"none", "added"},
             pc' = [pc EXCEPT ![c] = v]
      PROVE  \A d \in Coros : Begun(d) => pc'[d] \notin {"none", "added"}
  BY <1>1, <1>6 DEF Begun
<1>7. pc' = pc => \A d \in Coros : Begun(d) => pc'[d] \notin {"none", "added"}
  BY DEF Begun
<1>8. CASE MainStep
  <2>1. CASE Run
    <3>1. size \in Nat /\ \A c \in Coros : c >= size => pc[c] = "none"
      BY DEF SchedulerInv, Progress, TypeOK
    <3>2. \A c \in Coros : Begun(c) => pc'[c] \notin {"none", "added"}
      <4>1. SUFFICES ASSUME NEW c \in Coros, Begun(c)
                     PROVE  pc'[c] = pc[c]
        BY DEF Begun
      <4>2. c \notin size .. (TaskCounts[runs + 1] - 1)
        BY <3>1, <4>1 DEF Begun
      <4> QED BY <2>1, <4>2 DEF Run
    <3> QED BY <1>3, <2>1, <3>2 DEF Run
  <2>2. CASE CreateThread \/ SubmitTask \/ SchedulerInitEnd \/ AppStartReturns
    BY <1>3, <1>7, <2>2
    DEF CreateThread, SubmitTask, SchedulerInitEnd, AppStartReturns, coroVars
  <2> QED BY <1>8, <2>1, <2>2 DEF MainStep
<1>9. ASSUME NEW k \in Cores, CoreStep(k) PROVE WrapperInv'
  <2>1. CASE thread_init_get_channel(k) \/ task_done(k) \/ thread_exit(k)
    BY <1>3, <1>7, <2>1
    DEF thread_init_get_channel, task_done, thread_exit, coroVars
  <2>2. CASE service_thread_run(k)
    <3>1. CASE handle[Head(inbox[k]).arg]
      BY <2>2, <3>1, WrapperStarts
    <3>2. CASE ~handle[Head(inbox[k]).arg]
      BY <1>3, <1>7, <2>2, <3>2 DEF service_thread_run
    <3> QED BY <3>1, <3>2
  <2>3. CASE service_thread_run_yield(k)
    <3>1. Takes(k, "service_thread_run_yield")
      BY <2>3 DEF service_thread_run_yield
    <3>2. PICK c \in Coros : c = Head(inbox[k]).arg
      BY <3>1, Taken DEF Sound
    <3>3. /\ pc' = [pc EXCEPT ![c] = "body"] /\ Push(k, <<Coroutine(c)>>)
          /\ UNCHANGED <<frame, wrapper_tasks>>
      BY <2>3, <3>2 DEF service_thread_run_yield
    <3> QED BY <1>5, <1>6, <3>3
  <2>4. ASSUME NEW c \in Coros, Yield(k, c) \/ Park(k, c) \/ FinalSuspend(k, c)
        PROVE  WrapperInv'
    <3>1. /\ Pop(k) /\ stack[k] # <<>> /\ UNCHANGED <<frame, wrapper_tasks>>
          /\ \E v : v \notin {"none", "added"} /\ pc' = [pc EXCEPT ![c] = v]
      BY <2>4 DEF Yield, Park, FinalSuspend, Executes, Top
    <3> QED BY <1>4, <1>6, <3>1
  <2>5. ASSUME NEW c \in Coros, NEW d \in Coros, Unpark(k, c, d) PROVE WrapperInv'
    <3>1. /\ pc' = [pc EXCEPT ![d] = "body"] /\ Push(k, <<Coroutine(d)>>)
          /\ UNCHANGED <<frame, wrapper_tasks>>
      BY <2>5 DEF Unpark
    <3> QED BY <1>5, <1>6, <3>1
  <2>6. ASSUME NEW c \in Coros, TaskReturn(k, c) \/ MarkDone(k, c)
        PROVE  WrapperInv'
    <3>1. /\ UNCHANGED <<stack, frame, wrapper_tasks>>
          /\ \E v : v \notin {"none", "added"} /\ pc' = [pc EXCEPT ![c] = v]
      BY <2>6 DEF TaskReturn, MarkDone
    <3> QED BY <1>3, <1>6, <3>1
  <2>7. ASSUME NEW c \in Coros, CheckDone(k, c) PROVE WrapperInv'
    <3>1. Top(k, ServiceThreadRun(c)) /\ UNCHANGED pc
      BY <2>7 DEF CheckDone
    <3>2. CASE /\ frame' = [frame EXCEPT ![c] = "destroyed"] /\ Pop(k)
               /\ UNCHANGED wrapper_tasks
      BY <3>1, <3>2, WrapperDestroyed
    <3>3. CASE pc[c] \notin {"final", "gone"}
      BY <2>7, <3>3, WrapperLinked
    <3> QED BY <2>7, <3>2, <3>3 DEF CheckDone
  <2>8. ASSUME NEW c \in Coros, PushBackEnds(k, c) PROVE WrapperInv'
    <3>1. /\ Pop(k) /\ stack[k] # <<>> /\ UNCHANGED <<frame, pc>>
          /\ wrapper_tasks'.next = wrapper_tasks.next
      BY <2>8 DEF PushBackEnds, Top, SchedulerInv, TypeOK
    <3> QED BY <1>4, <1>7, <3>1
  <2> QED
    BY <1>9, <2>1, <2>2, <2>3, <2>4, <2>5, <2>6, <2>7, <2>8 DEF CoreStep
<1>10. CASE UNCHANGED vars
  BY <1>3, <1>7, <1>10 DEF vars, coroVars
<1> QED BY <1>8, <1>9, <1>10 DEF Next

-----------------------------------------------------------------------------
(***************************************************************************)
(* The shutdown.                                                           *)
(***************************************************************************)

\* Every thread gets a task in every run().  A thread without one may still have
\* to open its channel when service_exit() closes desc (SchedulerEmpty.cfg).
EveryThreadHasTask ==
  \/ num_threads = 1
  \/ \A r \in 1 .. Len(TaskCounts) : TaskCounts[r] >= num_threads

\* Task k is the first one of thread k and starts after the channel is open.
OwnThread ==
  \A k \in Cores : \A n \in Positions(k) :
    inbox[k][n].fn = "service_thread_run" => inbox[k][n].arg % num_threads = k

FirstTaskWaits ==
  main # "app" /\ ~stopping =>
    \A k \in Cores \ {0} : channels[k] # "open" => pc[k] = "added"

AllHaveTasks == main # "app" => num_threads = 1 \/ num_threads <= size

\* After spdk_app_stop() every other thread has thread_exit to handle, or has.
ThreadsStop ==
  stopping =>
    \A k \in Cores \ {0} :
      \/ channels[k] = "open" /\ inbox[k] = <<Msg("thread_exit", k)>>
      \/ channels[k] = "put" /\ inbox[k] = <<>> /\ stack[k] = <<>>

ExitInv == AllHaveTasks /\ OwnThread /\ FirstTaskWaits /\ ThreadsStop

\* run() has a task for every thread, and scheduler_init() keeps them.
LEMMA AllHaveTasksNext ==
  ASSUME EveryThreadHasTask, SchedulerInv, AllHaveTasks, [Next]_vars
  PROVE  AllHaveTasks'
<1>1. CASE Run
  <2>1. /\ runs < Len(TaskCounts) /\ size' = TaskCounts[runs + 1]
        /\ runs \in 0 .. Len(TaskCounts) /\ Len(TaskCounts) \in Nat
    BY <1>1, SchedulerAssumption, LenProperties DEF Run, SchedulerInv, TypeOK
  <2>2. runs + 1 \in 1 .. Len(TaskCounts)
    BY <2>1
  <2>3. num_threads = 1 \/ size' >= num_threads
    BY <2>1, <2>2 DEF EveryThreadHasTask
  <2> QED BY <2>3 DEF AllHaveTasks
<1>2. CASE ~Run
  <2>1. size' = size /\ (main' # "app" => main # "app")
    <3>1. CASE MainStep
      BY <1>2, <3>1
      DEF MainStep, CreateThread, SubmitTask, SchedulerInitEnd, AppStartReturns
    <3>2. ASSUME NEW k \in Cores, CoreStep(k) PROVE UNCHANGED <<main, size>>
      BY <3>2
      DEF CoreStep, thread_init_get_channel, service_thread_run,
          service_thread_run_yield, task_done, thread_exit, Yield, Park, Unpark,
          TaskReturn, MarkDone, FinalSuspend, CheckDone, PushBackEnds, mainVars
    <3>3. CASE UNCHANGED vars
      BY <3>3 DEF vars, mainVars
    <3> QED BY <3>1, <3>2, <3>3 DEF Next
  <2> QED BY <2>1 DEF AllHaveTasks
<1> QED BY <1>1, <1>2

\* A message sent, taken, or sent by service_exit(), to start with another box.
LEMMA OwnSent ==
  ASSUME TypeOK, OwnThread, NEW k \in Cores, NEW m \in Messages, Send(k, m),
         m.fn = "service_thread_run" => m.arg % num_threads = k
  PROVE  OwnThread'
<1> SUFFICES ASSUME NEW l \in Cores, NEW n \in Positions(l)',
                    inbox'[l][n].fn = "service_thread_run"
             PROVE  inbox'[l][n].arg % num_threads = l
  BY DEF OwnThread
<1>1. \/ n \in Positions(l) /\ inbox'[l][n] = inbox[l][n]
      \/ l = k /\ inbox'[l][n] = m
  <2>1. inbox \in [Cores -> Seq(Messages)]
    BY DEF TypeOK
  <2> QED BY <2>1, SentPlace
<1> QED BY <1>1 DEF OwnThread

LEMMA OwnTaken ==
  ASSUME TypeOK, OwnThread, NEW k \in Cores, inbox[k] # <<>>
  PROVE  /\ \A l \in Cores : \A n \in 1 .. Len(Rest(k)[l]) :
              Rest(k)[l][n].fn = "service_thread_run" =>
                Rest(k)[l][n].arg % num_threads = l
         /\ inbox' = Rest(k) => OwnThread'
<1>1. ASSUME NEW l \in Cores, NEW n \in 1 .. Len(Rest(k)[l])
      PROVE  \E o \in Positions(l) : Rest(k)[l][n] = inbox[l][o]
  <2>1. /\ Len(inbox[k]) \in Nat \ {0} /\ Len(Rest(k)[k]) = Len(inbox[k]) - 1
        /\ \A j \in 1 .. (Len(inbox[k]) - 1) : Rest(k)[k][j] = inbox[k][j + 1]
        /\ l # k => Rest(k)[l] = inbox[l]
    <3>1. inbox \in [Cores -> Seq(Messages)]
      BY DEF TypeOK
    <3> QED BY <3>1, RestQueue
  <2>2. CASE l = k
    <3>1. n + 1 \in Positions(l) /\ Rest(k)[l][n] = inbox[l][n + 1]
      BY <2>1, <2>2 DEF Positions
    <3> QED BY <3>1
  <2>3. CASE l # k
    BY <2>1, <2>3 DEF Positions
  <2> QED BY <2>2, <2>3
<1>2. \A l \in Cores : \A n \in 1 .. Len(Rest(k)[l]) :
        Rest(k)[l][n].fn = "service_thread_run" =>
          Rest(k)[l][n].arg % num_threads = l
  BY <1>1 DEF OwnThread
<1> QED BY <1>2 DEF OwnThread, Positions

LEMMA OwnExit ==
  ASSUME NEW box \in [Cores -> Seq(Messages)], service_exit(box),
         \A l \in Cores : \A n \in 1 .. Len(box[l]) :
           box[l][n].fn = "service_thread_run" => box[l][n].arg % num_threads = l
  PROVE  OwnThread'
<1> SUFFICES ASSUME NEW l \in Cores, NEW n \in Positions(l)',
                    inbox'[l][n].fn = "service_thread_run"
             PROVE  inbox'[l][n].arg % num_threads = l
  BY DEF OwnThread
<1>1. inbox'[l] = IF l = 0 THEN box[l] ELSE Append(box[l], Msg("thread_exit", l))
  BY DEF service_exit
<1>2. CASE l = 0
  BY <1>1, <1>2 DEF Positions
<1>3. CASE l # 0
  <2>1. Msg("thread_exit", l) \in Messages /\ Msg("thread_exit", l).fn = "thread_exit"
    BY MessageTypes DEF Handlers
  <2>2. /\ Len(inbox'[l]) = Len(box[l]) + 1 /\ Len(box[l]) \in Nat
        /\ \A j \in 1 .. Len(box[l]) : inbox'[l][j] = box[l][j]
        /\ inbox'[l][Len(box[l]) + 1] = Msg("thread_exit", l)
    BY <1>1, <1>3, <2>1, AppendProperties, LenProperties
  <2>3. n \in 1 .. Len(box[l])
    BY <2>1, <2>2 DEF Positions
  <2> QED BY <2>2, <2>3
<1> QED BY <1>2, <1>3

\* scheduler_init() sends task i to thread i % num_threads, and nobody else sends
\* one.
LEMMA OwnThreadNext ==
  ASSUME SchedulerInv, OwnThread, [Next]_vars
  PROVE  OwnThread'
<1>1. TypeOK
  BY DEF SchedulerInv
<1>2. ASSUME UNCHANGED inbox PROVE OwnThread'
  BY <1>2 DEF OwnThread, Positions
<1>3. CASE MainStep
  <2>1. CASE Run \/ AppStartReturns
    BY <1>2, <2>1 DEF Run, AppStartReturns
  <2>2. CASE CreateThread
    <3>1. CASE UNCHANGED inbox
      BY <1>2, <3>1
    <3>2. CASE i # 0 /\ Send(i, Msg("thread_init_get_channel", i))
      <4>1. i \in Cores
        <5>1. i \in Nat /\ i < num_threads /\ num_threads \in Nat
          BY <1>1, <2>2, Constants DEF CreateThread, SchedulerInv, Progress, TypeOK
        <5> QED BY <5>1 DEF Cores
      <4>2. /\ Msg("thread_init_get_channel", i) \in Messages
            /\ Msg("thread_init_get_channel", i).fn = "thread_init_get_channel"
        BY <4>1, MessageTypes DEF Handlers
      <4> QED BY <1>1, <3>2, <4>1, <4>2, OwnSent
    <3> QED BY <2>2, <3>1, <3>2 DEF CreateThread
  <2>3. CASE SubmitTask
    <3>1. i \in Coros /\ i \in Nat
      <4>1. /\ i \in Nat /\ i < size /\ size \in Nat /\ size <= NumTasks
            /\ NumTasks \in Nat
        BY <1>1, <2>3, Constants DEF SubmitTask, SchedulerInv, Progress, TypeOK
      <4> QED BY <4>1 DEF Coros
    <3>2. i % num_threads \in Cores
      BY <3>1, Constants
    <3>3. /\ Msg("service_thread_run", i) \in Messages
          /\ Msg("service_thread_run", i).arg = i
      BY <3>1, MessageTypes DEF Handlers
    <3>4. Send(i % num_threads, Msg("service_thread_run", i))
      BY <2>3 DEF SubmitTask
    <3> QED BY <1>1, <3>2, <3>3, <3>4, OwnSent
  <2>4. CASE SchedulerInitEnd
    <3>1. CASE UNCHANGED inbox
      BY <1>2, <3>1
    <3>2. CASE service_exit(inbox)
      BY <1>1, <3>2, OwnExit DEF TypeOK, OwnThread, Positions
    <3> QED BY <2>4, <3>1, <3>2 DEF SchedulerInitEnd
  <2> QED BY <1>3, <2>1, <2>2, <2>3, <2>4 DEF MainStep
<1>4. ASSUME NEW k \in Cores, CoreStep(k) PROVE OwnThread'
  <2>1. ASSUME NEW f, Takes(k, f), inbox' = Rest(k) PROVE OwnThread'
    BY <1>1, <2>1, OwnTaken DEF Takes
  <2>2. CASE \/ thread_init_get_channel(k) \/ service_thread_run(k)
             \/ service_thread_run_yield(k) \/ thread_exit(k)
    BY <2>1, <2>2
    DEF thread_init_get_channel, service_thread_run, service_thread_run_yield,
        thread_exit
  <2>3. CASE task_done(k)
    <3>1. Takes(k, "task_done") /\ inbox[k] # <<>>
      BY <2>3 DEF task_done, Takes
    <3>2. CASE service_exit(Rest(k))
      <4>1. Rest(k) \in [Cores -> Seq(Messages)]
        BY <1>1, <3>1, RestQueue DEF TypeOK
      <4> QED BY <1>1, <3>1, <3>2, <4>1, OwnTaken, OwnExit
    <3> QED BY <2>1, <2>3, <3>1, <3>2 DEF task_done
  <2>4. ASSUME NEW c \in Coros, NEW l \in Cores, NEW m \in Messages, Send(l, m),
               m.fn # "service_thread_run"
        PROVE  OwnThread'
    BY <1>1, <2>4, OwnSent
  <2>5. ASSUME NEW c \in Coros, Yield(k, c) \/ TaskReturn(k, c) PROVE OwnThread'
    <3>1. /\ Msg("service_thread_run_yield", c) \in Messages
          /\ Msg("task_done", 0) \in Messages /\ 0 \in Cores
          /\ Msg("service_thread_run_yield", c).fn = "service_thread_run_yield"
          /\ Msg("task_done", 0).fn = "task_done"
      BY Constants, MessageTypes DEF Handlers
    <3> QED BY <2>4, <2>5, <3>1 DEF Yield, TaskReturn
  <2>6. ASSUME NEW c \in Coros,
               \/ Park(k, c) \/ \E d \in Coros : Unpark(k, c, d) \/ MarkDone(k, c)
               \/ FinalSuspend(k, c) \/ CheckDone(k, c) \/ PushBackEnds(k, c)
        PROVE  UNCHANGED inbox
    BY <2>6 DEF Park, Unpark, MarkDone, FinalSuspend, CheckDone, PushBackEnds
  <2> QED BY <1>2, <1>4, <2>2, <2>3, <2>5, <2>6 DEF CoreStep
<1>5. CASE UNCHANGED vars
  BY <1>2, <1>5 DEF vars
<1> QED BY <1>3, <1>4, <1>5 DEF Next

\* A task has not started while its thread's channel is not open.
LEMMA FirstTaskWaitsNext ==
  ASSUME OnlyLastRunHasTasks, SchedulerInv, SchedulerInv', AllHaveTasks',
         OwnThread, FirstTaskWaits, [Next]_vars
  PROVE  FirstTaskWaits'
<1> SUFFICES ASSUME main' # "app", ~stopping', NEW j \in Cores \ {0},
                    channels'[j] # "open"
             PROVE  pc'[j] = "added"
  BY DEF FirstTaskWaits
<1>1. j < size' /\ j \in Coros /\ j \in Nat
  <2>1. /\ num_threads \in Nat \ {0} /\ NumTasks \in Nat
        /\ size' <= NumTasks /\ size' \in Nat
    BY Constants DEF SchedulerInv, Progress, TypeOK
  <2>2. j \in Nat /\ j < num_threads /\ num_threads # 1
    BY <2>1 DEF Cores
  <2> QED BY <2>1, <2>2 DEF AllHaveTasks, Coros
<1>2. CASE main' = "create"
  BY <1>1, <1>2 DEF SchedulerInv, Progress
<1>3. ASSUME main # "app", ~stopping, channels[j] = channels'[j],
             pc[j] = "added" => pc'[j] = "added"
      PROVE  pc'[j] = "added"
  BY <1>3 DEF FirstTaskWaits
<1>4. CASE MainStep
  <2>1. CASE Run
    BY <1>2, <2>1 DEF Run
  <2>2. CASE AppStartReturns
    BY <2>2 DEF AppStartReturns
  <2>3. CASE CreateThread
    <3>1. main # "app" /\ ~stopping /\ pc' = pc
      BY <2>3 DEF CreateThread, coroVars
    <3>2. channels'[j] = channels[j]
      BY <2>3, Constants DEF CreateThread, SchedulerInv, TypeOK
    <3> QED BY <1>3, <3>1, <3>2
  <2>4. CASE SubmitTask \/ SchedulerInitEnd
    <3>1. main # "app" /\ ~stopping /\ pc' = pc /\ channels' = channels
      BY <2>4 DEF SubmitTask, SchedulerInitEnd, service_exit, coroVars
    <3> QED BY <1>3, <3>1
  <2> QED BY <1>4, <2>1, <2>2, <2>3, <2>4 DEF MainStep
<1>5. ASSUME NEW k \in Cores, CoreStep(k) PROVE pc'[j] = "added"
  <2>1. main # "app" /\ main' = main
    <3>1. stack[k] # <<>> \/ inbox[k] # <<>>
      BY <1>5
      DEF CoreStep, thread_init_get_channel, service_thread_run,
          service_thread_run_yield, task_done, thread_exit, Yield, Park, Unpark,
          TaskReturn, MarkDone, FinalSuspend, CheckDone, PushBackEnds, Takes,
          Executes, Top
    <3>2. main' = main
      BY <1>5
      DEF CoreStep, thread_init_get_channel, service_thread_run,
          service_thread_run_yield, task_done, thread_exit, Yield, Park, Unpark,
          TaskReturn, MarkDone, FinalSuspend, CheckDone, PushBackEnds, mainVars
    <3> QED BY <3>1, <3>2 DEF SchedulerInv, Phases
  <2>2. CASE thread_init_get_channel(k)
    <3>1. /\ pc' = pc /\ stopping' = stopping /\ Head(inbox[k]).arg = k
          /\ channels' = [channels EXCEPT ![Head(inbox[k]).arg] = "open"]
      <4>1. Takes(k, "thread_init_get_channel")
        BY <2>2 DEF thread_init_get_channel
      <4>2. Head(inbox[k]).arg = k
        BY <4>1, Taken DEF Sound
      <4> QED BY <2>2, <4>2 DEF thread_init_get_channel, coroVars
    <3>2. channels'[j] = channels[j]
      BY <3>1 DEF SchedulerInv, TypeOK
    <3> QED BY <1>3, <2>1, <3>1, <3>2
  <2>3. CASE service_thread_run(k)
    <3>1. Takes(k, "service_thread_run") /\ channels' = channels /\ ~stopping
      BY <2>3 DEF service_thread_run, appVars
    <3> DEFINE c == inbox[k][1].arg
    <3>2. /\ inbox[k][1].fn = "service_thread_run" /\ 1 \in Positions(k)
          /\ Head(inbox[k]) = inbox[k][1]
      <4>1. /\ inbox[k][1].fn = "service_thread_run" /\ Head(inbox[k]) = inbox[k][1]
            /\ inbox[k] # <<>> /\ inbox \in [Cores -> Seq(Messages)]
        BY <3>1, Taken
      <4>2. Len(inbox[k]) \in Nat \ {0}
        BY <4>1, RestQueue
      <4> QED BY <4>1, <4>2 DEF Positions
    <3>3. c % num_threads = k
      BY <3>2 DEF OwnThread
    <3>4. channels[k] = "open"
      <4>1. stack[k] = <<>> /\ (main = "create" => ~(k >= i))
        BY <3>1, Taken
      <4>2. inbox[k][1] # Msg("thread_init_get_channel", k)
        BY <3>2 DEF Msg
      <4> QED BY <2>1, <3>1, <4>1, <4>2 DEF SchedulerInv, Channels
    <3>5. j % num_threads = j
      <4>1. j \in Nat /\ num_threads \in Nat \ {0} /\ j < num_threads
        BY <1>1, Constants DEF Cores
      <4> QED BY <4>1
    <3>6. c # j
      BY <3>1, <3>3, <3>4, <3>5
    <3>7. pc'[j] = pc[j]
      <4>1. pc' = pc \/ pc' = [pc EXCEPT ![c] = "body"]
        BY <2>3, <3>2 DEF service_thread_run
      <4>2. pc \in [Coros -> PcValues]
        BY DEF SchedulerInv, TypeOK
      <4> QED BY <1>1, <3>6, <4>1, <4>2
    <3> QED BY <1>3, <2>1, <3>1, <3>7
  <2>4. CASE service_thread_run_yield(k)
    <3>1. Takes(k, "service_thread_run_yield") /\ channels' = channels /\ ~stopping
      BY <2>4 DEF service_thread_run_yield, appVars
    <3>2. pc[Head(inbox[k]).arg] = "yielded"
      BY <3>1, Taken DEF Sound
    <3>3. pc[j] = "added" => pc'[j] = "added"
      <4>1. pc' = [pc EXCEPT ![Head(inbox[k]).arg] = "body"]
        BY <2>4 DEF service_thread_run_yield
      <4>2. pc \in [Coros -> PcValues]
        BY DEF SchedulerInv, TypeOK
      <4> QED BY <1>1, <3>2, <4>1, <4>2
    <3> QED BY <1>3, <2>1, <3>1, <3>3
  <2>5. CASE task_done(k)
    <3>1. pc' = pc /\ ~stopping /\ channels' = channels
      BY <2>5 DEF task_done, service_exit, coroVars
    <3> QED BY <1>3, <2>1, <3>1
  <2>6. CASE thread_exit(k)
    <3>1. Takes(k, "thread_exit") /\ stopping' = stopping
      BY <2>6 DEF thread_exit
    <3>2. stopping
      BY <3>1, Taken DEF Sound
    <3> QED BY <3>1, <3>2
  <2>7. ASSUME NEW c \in Coros,
               \/ Yield(k, c) \/ Park(k, c) \/ \E d \in Coros : Unpark(k, c, d)
               \/ TaskReturn(k, c) \/ MarkDone(k, c) \/ FinalSuspend(k, c)
               \/ CheckDone(k, c) \/ PushBackEnds(k, c)
        PROVE  pc'[j] = "added"
    <3>1. /\ channels' = channels /\ ~stopping
          /\ \/ pc' = pc
             \/ \E d \in Coros :
                  pc[d] # "added" /\ \E v : pc' = [pc EXCEPT ![d] = v]
      <4>1. UNCHANGED <<channels, stopping>>
        <5>1. CASE \/ Yield(k, c) \/ Park(k, c) \/ TaskReturn(k, c) \/ MarkDone(k, c)
                   \/ FinalSuspend(k, c)
          BY <5>1 DEF Yield, Park, TaskReturn, MarkDone, FinalSuspend, appVars
        <5>2. CASE \/ \E d \in Coros : Unpark(k, c, d)
                   \/ CheckDone(k, c) \/ PushBackEnds(k, c)
          BY <5>2 DEF Unpark, CheckDone, PushBackEnds, appVars
        <5> QED BY <2>7, <5>1, <5>2
      <4>2. CASE \/ Yield(k, c) \/ Park(k, c) \/ TaskReturn(k, c) \/ MarkDone(k, c)
                 \/ FinalSuspend(k, c)
        <5>1. pc[c] # "added" /\ \E v : pc' = [pc EXCEPT ![c] = v]
          BY <4>2 DEF Yield, Park, TaskReturn, MarkDone, FinalSuspend, Executes
        <5> QED BY <4>1, <5>1
      <4>3. ASSUME NEW d \in Coros, Unpark(k, c, d)
            PROVE  pc[d] # "added" /\ pc' = [pc EXCEPT ![d] = "body"]
        BY <4>3 DEF Unpark
      <4>4. CASE CheckDone(k, c) \/ PushBackEnds(k, c)
        BY <4>1, <4>4 DEF CheckDone, PushBackEnds
      <4> QED BY <2>7, <4>1, <4>2, <4>3, <4>4
    <3>2. pc[j] = "added" => pc'[j] = "added"
      <4>1. pc \in [Coros -> PcValues]
        BY DEF SchedulerInv, TypeOK
      <4> QED BY <1>1, <3>1, <4>1
    <3> QED BY <1>3, <2>1, <3>1, <3>2
  <2> QED BY <1>5, <2>2, <2>3, <2>4, <2>5, <2>6, <2>7 DEF CoreStep
<1>6. CASE UNCHANGED vars
  BY <1>3, <1>6 DEF vars, mainVars, appVars, coroVars
<1> QED BY <1>4, <1>5, <1>6 DEF Next

\* Nothing but thread_exit is left to do for another thread.
LEMMA ThreadsStopNext ==
  ASSUME SchedulerInv, SchedulerInv', AllHaveTasks', FirstTaskWaits, ThreadsStop,
         [Next]_vars
  PROVE  ThreadsStop'
<1> SUFFICES ASSUME stopping', NEW j \in Cores \ {0}
             PROVE  \/ /\ channels'[j] = "open"
                       /\ inbox'[j] = <<Msg("thread_exit", j)>>
                    \/ /\ channels'[j] = "put" /\ inbox'[j] = <<>>
                       /\ stack'[j] = <<>>
  BY DEF ThreadsStop
<1>1. /\ \A c \in Coros : c < size' => pc'[c] \notin Pending
      /\ IF channels'[j] = "open" \/ inbox'[j] # <<>>
         THEN /\ inbox'[j] # <<>>
              /\ Last(inbox'[j]) = Msg("thread_exit", j)
              /\ \A n \in 1 .. (Len(inbox'[j]) - 1) :
                   inbox'[j][n] = Msg("thread_init_get_channel", j)
         ELSE channels'[j] = "put" /\ stack'[j] = <<>>
  BY DEF SchedulerInv, ExitOrder, Pending
<1>2. CASE ~stopping
  <2>1. /\ main # "app" /\ main' # "app" /\ channels'[j] = channels[j] /\ pc' = pc
    <3>1. CASE SchedulerInitEnd
      BY <1>2, <3>1
      DEF SchedulerInitEnd, service_exit, coroVars, SchedulerInv, TypeOK
    <3>2. ASSUME NEW k \in Cores, task_done(k)
          PROVE  /\ main # "app" /\ main' # "app" /\ channels'[j] = channels[j]
                 /\ pc' = pc
      <4>1. main # "app"
        BY <3>2, Taken DEF task_done
      <4> QED
        BY <1>2, <3>2, <4>1
        DEF task_done, service_exit, mainVars, coroVars, SchedulerInv, TypeOK
    <3>3. CASE Run
      BY <3>3 DEF Run
    <3>4. CASE CreateThread \/ SubmitTask \/ AppStartReturns
      BY <1>2, <3>4 DEF CreateThread, SubmitTask, AppStartReturns
    <3>5. ASSUME NEW k \in Cores, CoreStep(k), ~task_done(k) PROVE FALSE
      BY <1>2, <3>5
      DEF CoreStep, thread_init_get_channel, service_thread_run,
          service_thread_run_yield, thread_exit, Yield, Park, Unpark,
          TaskReturn, MarkDone, FinalSuspend, CheckDone, PushBackEnds, appVars
    <3>6. CASE UNCHANGED vars
      BY <1>2, <3>6 DEF vars, appVars
    <3> QED BY <3>1, <3>2, <3>3, <3>4, <3>5, <3>6 DEF Next, MainStep
  <2>2. channels'[j] = "open"
    <3>1. j < size' /\ j \in Coros
      <4>1. /\ num_threads \in Nat \ {0} /\ NumTasks \in Nat
            /\ size' <= NumTasks /\ size' \in Nat
        BY Constants DEF SchedulerInv, Progress, TypeOK
      <4>2. j \in Nat /\ j < num_threads /\ num_threads # 1
        BY <4>1 DEF Cores
      <4> QED BY <2>1, <4>1, <4>2 DEF AllHaveTasks, Coros
    <3>2. pc[j] # "added"
      BY <1>1, <2>1, <3>1 DEF Pending
    <3> QED BY <1>2, <2>1, <3>2 DEF FirstTaskWaits
  <2>3. inbox'[j] = <<Msg("thread_exit", j)>>
    <3>1. /\ inbox'[j] \in Seq(Messages) /\ inbox'[j] # <<>>
          /\ Last(inbox'[j]) = Msg("thread_exit", j)
      BY <1>1, <2>2 DEF SchedulerInv, TypeOK
    <3>2. Len(inbox'[j]) \in Nat \ {0}
      BY <3>1, LenProperties, EmptySeq
    <3>3. ASSUME Len(inbox'[j]) # 1 PROVE FALSE
      <4>1. 1 \in 1 .. (Len(inbox'[j]) - 1) /\ 1 \in 1 .. Len(inbox'[j])
        <5> DEFINE L == Len(inbox'[j])
        <5>1. L \in Nat /\ L # 0 /\ L # 1
          BY <3>2, <3>3
        <5> HIDE DEF L
        <5>2. 1 \in 1 .. (L - 1) /\ 1 \in 1 .. L
          BY <5>1
        <5> QED BY <5>2 DEF L
      <4>2. inbox'[j][1].fn = "thread_init_get_channel"
        BY <1>1, <2>2, <4>1 DEF Msg
      <4>3. Sound(j, 1)'
        BY <4>1 DEF SchedulerInv, MessagesSound, Positions
      <4> QED BY <2>2, <4>2, <4>3 DEF Sound
    <3>4. inbox'[j][1] = Msg("thread_exit", j)
      BY <3>1, <3>3 DEF Last
    <3> QED BY <3>1, <3>3, <3>4
  <2> QED BY <2>2, <2>3
<1>3. CASE stopping
  <2>1. \/ inbox'[j] = inbox[j] /\ channels'[j] = channels[j]
        \/ inbox'[j] = <<>> /\ channels'[j] = "put"
    <3>1. CASE MainStep
      BY <1>3, <3>1
      DEF MainStep, Run, CreateThread, SubmitTask, SchedulerInitEnd, AppStartReturns,
          appVars, SchedulerInv, Phases
    <3>2. ASSUME NEW k \in Cores, NEW f, Takes(k, f)
          PROVE  /\ f = "thread_exit" /\ Head(inbox[k]).arg = k
                 /\ Rest(k)[k] = <<>> /\ (j # k => Rest(k)[j] = inbox[j])
      <4>1. /\ inbox[k] # <<>> /\ Head(inbox[k]).fn = f
            /\ inbox \in [Cores -> Seq(Messages)]
        BY <3>2 DEF Takes, SchedulerInv, TypeOK
      <4>2. inbox[k] = <<Msg("thread_exit", k)>>
        BY <1>3, <4>1 DEF SchedulerInv, ExitOrder, ThreadsStop
      <4>3. Rest(k)[k] = <<>> /\ (j # k => Rest(k)[j] = inbox[j])
        <5>1. /\ Rest(k)[k] = Tail(inbox[k])
              /\ \A l \in Cores : l # k => Rest(k)[l] = inbox[l]
          BY <4>1, RestQueue
        <5>2. Tail(<<Msg("thread_exit", k)>>) = <<>>
          OBVIOUS
        <5> QED BY <4>2, <5>1, <5>2
      <4> QED BY <4>1, <4>2, <4>3 DEF Msg
    <3>3. ASSUME NEW k \in Cores, thread_exit(k)
          PROVE  \/ inbox'[j] = inbox[j] /\ channels'[j] = channels[j]
                 \/ inbox'[j] = <<>> /\ channels'[j] = "put"
      <4>1. /\ Takes(k, "thread_exit") /\ inbox' = Rest(k)
            /\ channels' = [channels EXCEPT ![Head(inbox[k]).arg] = "put"]
            /\ channels \in [Cores -> {"none", "open", "put"}]
        BY <3>3 DEF thread_exit, SchedulerInv, TypeOK
      <4> QED BY <3>2, <4>1
    <3>4. ASSUME NEW k \in Cores,
                 \/ thread_init_get_channel(k) \/ service_thread_run(k)
                 \/ service_thread_run_yield(k) \/ task_done(k)
          PROVE  FALSE
      <4>1. \/ Takes(k, "thread_init_get_channel") \/ Takes(k, "service_thread_run")
            \/ Takes(k, "service_thread_run_yield") \/ Takes(k, "task_done")
        BY <3>4
        DEF thread_init_get_channel, service_thread_run, service_thread_run_yield,
            task_done
      <4> QED BY <3>2, <4>1
    <3>5. ASSUME NEW k \in Cores, NEW c \in Coros,
                 \/ Yield(k, c) \/ Park(k, c) \/ \E d \in Coros : Unpark(k, c, d)
                 \/ TaskReturn(k, c)
          PROVE  FALSE
      BY <1>3, <3>5, BodyRuns DEF Yield, Park, Unpark, TaskReturn
    <3>6. ASSUME NEW k \in Cores, NEW c \in Coros,
                 \/ MarkDone(k, c) \/ FinalSuspend(k, c) \/ CheckDone(k, c)
                 \/ PushBackEnds(k, c)
          PROVE  UNCHANGED <<inbox, channels>>
      BY <3>6 DEF MarkDone, FinalSuspend, CheckDone, PushBackEnds, appVars
    <3>7. CASE UNCHANGED vars
      BY <3>7 DEF vars, appVars
    <3> QED BY <3>1, <3>3, <3>4, <3>5, <3>6, <3>7 DEF Next, CoreStep
  <2>2. CASE inbox'[j] = <<>> /\ channels'[j] # "open"
    BY <1>1, <2>2
  <2> QED BY <1>1, <1>3, <2>1, <2>2 DEF ThreadsStop
<1> QED BY <1>2, <1>3

\* The two invariants above hold throughout.
LEMMA ExitInvariant ==
  ASSUME OnlyLastRunHasTasks, EveryThreadHasTask
  PROVE  Spec => [](SchedulerInv /\ ExitInv /\ WrapperInv)
<1>1. Init => SchedulerInv /\ ExitInv /\ WrapperInv
  <2> SUFFICES ASSUME Init PROVE SchedulerInv /\ ExitInv /\ WrapperInv
    OBVIOUS
  <2>1. \A k \in Cores : Positions(k) = {} /\ Depths(k) = {}
    BY DEF Init, Positions, Depths
  <2>2. ExitInv
    BY <2>1
    DEF Init, ExitInv, AllHaveTasks, OwnThread, FirstTaskWaits, ThreadsStop
  <2>3. WrapperInv
    <3>1. FramesBegun /\ OneFrame
      BY <2>1 DEF FramesBegun, OneFrame
    <3>2. \A d \in Entries : wrapper_tasks.next[d] = End /\ End \notin Coros
      BY Constants DEF Init, End, Coros
    <3> QED BY <3>1, <3>2 DEF WrapperInv, Linked
  <2> QED BY <2>2, <2>3, InvInit
<1>2. SchedulerInv /\ ExitInv /\ WrapperInv /\ [Next]_vars
        => (SchedulerInv /\ ExitInv /\ WrapperInv)'
  <2> SUFFICES ASSUME SchedulerInv, ExitInv, WrapperInv, [Next]_vars
               PROVE  (SchedulerInv /\ ExitInv /\ WrapperInv)'
    OBVIOUS
  <2>1. SchedulerInv' /\ WrapperInv'
    BY InvNext, WrapperNext
  <2>2. AllHaveTasks' /\ OwnThread'
    BY AllHaveTasksNext, OwnThreadNext DEF ExitInv
  <2>3. FirstTaskWaits' /\ ThreadsStop'
    BY <2>1, <2>2, FirstTaskWaitsNext, ThreadsStopNext DEF ExitInv
  <2> QED BY <2>1, <2>2, <2>3 DEF ExitInv
<1> QED BY <1>1, <1>2, PTL DEF Spec

\* The shutdown is clean: desc is closed (schedule.cpp:78) when every thread has
\* taken its channel from it (schedule.cpp:116), no task and no message is lost,
\* every channel is put once, as its thread's last act, and the list that
\* wrapper_tasks is after unsynchronised insertions can be destroyed.
THEOREM ShutdownClean ==
  ASSUME OnlyLastRunHasTasks, EveryThreadHasTask
  PROVE  Spec => []CleanExit
<1>1. SchedulerInv /\ ExitInv /\ WrapperInv => CleanExit
  <2> SUFFICES ASSUME SchedulerInv, ExitInv, WrapperInv, stopping PROVE CleanExit
    BY DEF CleanExit
  <2>1. /\ \A c \in Coros : c < size => pc[c] \notin Started \cup {"added"}
        /\ inbox[0] = <<>>
    BY DEF SchedulerInv, ExitOrder
  <2>2. \A k \in Cores \ {0} :
          \/ channels[k] = "open" /\ inbox[k] = <<Msg("thread_exit", k)>>
          \/ channels[k] = "put" /\ inbox[k] = <<>> /\ stack[k] = <<>>
    BY DEF ExitInv, ThreadsStop
  <2>3. WrappersOnce
    <3> SUFFICES ASSUME NEW d \in Entries, wrapper_tasks.next[d] # End
                 PROVE  /\ frame[wrapper_tasks.next[d]] = "live"
                        /\ \A e \in Entries :
                             wrapper_tasks.next[e] = wrapper_tasks.next[d] => d = e
      BY DEF WrappersOnce
    <3>1. wrapper_tasks.next[d] \in Entries
      BY DEF SchedulerInv, TypeOK
    <3>2. NumTasks \in Nat
      BY Constants
    <3>3. wrapper_tasks.next[d] \in Coros
      BY <3>1, <3>2 DEF Entries, End, Coros
    <3> QED BY <3>3 DEF WrapperInv, Linked, Begun
  <2> QED BY <2>1, <2>2, <2>3 DEF CleanExit
<1> QED BY <1>1, ExitInvariant, PTL

=============================================================================
