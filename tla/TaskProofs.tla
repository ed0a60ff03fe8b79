----------------------------- MODULE TaskProofs -----------------------------
(***************************************************************************)
(* Proofs about module Task, for any set of frames, any number of cores    *)
(* and any bounds: every frame is destroyed exactly once, and the chains   *)
(* of parents and children are intact.                                     *)
(***************************************************************************)
EXTENDS Task, FiniteSetTheorems, TLAPS

Started == {"running", "awaiting", "suspended"}

\* Where the handles of a frame may be: in a task object only while it is a
\* frame, in a coroutine's own task object only before it is started, in an
\* Awaiter only after; and only a coroutine that has started and not returned
\* holds any.
HandlesPlaced ==
  /\ \A o \in Owners : \A f \in tasks[o] : state[f] # "free"
  /\ \A o \in Frames : \A f \in tasks[o] :
       state[f] = "initial" /\ state[o] \in Started
  /\ \A o \in Frames : awaiter[o] # None <=> state[o] = "awaiting"
  /\ \A o \in Frames : awaiter[o] # None =>
       /\ state[awaiter[o]] \in Started \cup {"final"}
       /\ _caller[awaiter[o]] = o

\* No frame has two handles.
HandlesUnique ==
  /\ \A o, p \in Owners : \A f \in tasks[o] : f \in tasks[p] => o = p
  /\ \A o \in Owners, p \in Frames : awaiter[p] \notin tasks[o]

\* Every frame has a handle, in a task object or in an Awaiter.
Held(f) ==
  \/ \E o \in Owners : f \in tasks[o]
  \/ \E p \in Frames : awaiter[p] = f

HandlesExist == \A f \in Frames : state[f] # "free" => Held(f)

\* A frame that returns to another one is in that one's Awaiter.
CallersAwait ==
  \A f \in Frames : state[f] # "free" /\ _caller[f] # None =>
    awaiter[_caller[f]] = f

\* A core executes a running coroutine or goes on with a parent whose child has
\* returned, no two cores the same one, and every running one has a core.
OnCores ==
  /\ \A k \in Cores : current[k] # None =>
       \/ state[current[k]] = "running"
       \/ /\ state[current[k]] = "awaiting"
          /\ state[awaiter[current[k]]] = "final"
  /\ \A j, k \in Cores : current[j] # None /\ current[j] = current[k] => j = k
  /\ \A f \in Frames : state[f] = "running" => \E k \in Cores : current[k] = f

\* A coroutine that has returned has its value.
ValuesSet == \A f \in Frames : state[f] = "final" => _value[f] = TRUE

\* The inductive invariant.
TaskInv ==
  /\ TypeOK /\ HandlesPlaced /\ HandlesUnique /\ HandlesExist
  /\ CallersAwait /\ OnCores /\ ValuesSet

-----------------------------------------------------------------------------
\* Nothing has been called: every part holds.
LEMMA TaskInvInit == Init => TaskInv
BY TaskAssumption DEF Init, TaskInv, TypeOK, HandlesPlaced, HandlesUnique,
   HandlesExist, CallersAwait, OnCores, ValuesSet, Owners, Started

\* A call makes a frame with one handle, in its caller's hands.
LEMMA CallInv ==
  ASSUME TaskInv, NEW k \in Cores, NEW o \in Owners, NEW f \in Frames,
         Call(k, o, f)
  PROVE  TaskInv'
<1> USE TaskAssumption DEF TaskInv, Owners, Started
<1>1. TypeOK'
  BY DEF TypeOK, HandlesPlaced, Call, Executing, Runs
<1>2. HandlesPlaced'
  BY DEF TypeOK, HandlesPlaced, HandlesUnique, CallersAwait, OnCores, Call,
     Executing, Runs
<1>3. HandlesUnique'
  <2>1. \A w \in Owners : f \notin tasks[w]
    BY DEF TypeOK, HandlesPlaced, Call
  <2>2. \A p \in Frames : awaiter[p] # f
    BY DEF TypeOK, HandlesPlaced, Call
  <2>3. \A w \in Owners :
          tasks'[w] = IF w = o THEN tasks[w] \cup {f} ELSE tasks[w]
    BY DEF TypeOK, Call
  <2> QED BY <2>1, <2>2, <2>3 DEF HandlesUnique, Call
<1>4. HandlesExist'
  <2> SUFFICES ASSUME NEW g \in Frames, state'[g] # "free" PROVE Held(g)'
    BY DEF HandlesExist
  <2>1. CASE g = f
    BY <2>1 DEF Held, TypeOK, Call
  <2>2. CASE g # f
    <3>1. \A w \in Owners : g \in tasks[w] => g \in tasks'[w]
      BY DEF TypeOK, Call
    <3>2. Held(g)
      BY <2>2 DEF HandlesExist, TypeOK, Call
    <3> QED BY <3>1, <3>2 DEF Held, Call
  <2> QED BY <2>1, <2>2
<1>5. CallersAwait'
  BY DEF TypeOK, HandlesPlaced, HandlesUnique, CallersAwait, Call, Executing,
     Runs
<1>6. OnCores'
  BY DEF TypeOK, HandlesPlaced, HandlesUnique, CallersAwait, OnCores, Call,
     Executing, Runs
<1>7. ValuesSet'
  BY DEF TypeOK, ValuesSet, Call, Executing, Runs
<1> QED BY <1>1, <1>2, <1>3, <1>4, <1>5, <1>6, <1>7

\* A move takes the handle out of one task object into another.
LEMMA MoveTaskInv ==
  ASSUME TaskInv, NEW k \in Cores, NEW o \in Frames, NEW f \in Frames,
         MoveTask(k, o, f)
  PROVE  TaskInv'
<1> USE TaskAssumption DEF TaskInv, Owners, Started
<1>1. TypeOK'
  BY DEF TypeOK, HandlesPlaced, MoveTask, Runs
<1>2. HandlesPlaced'
  <2>1. /\ \A w \in Frames : tasks'[w] \subseteq tasks[w]
        /\ \A w \in Owners : \A g \in tasks'[w] : g = f \/ g \in tasks[w]
        /\ UNCHANGED <<state, _caller, awaiter>>
    BY DEF TypeOK, MoveTask, Runs
  <2>2. state[f] # "free"
    BY DEF HandlesPlaced, MoveTask
  <2> QED BY <2>1, <2>2 DEF HandlesPlaced
<1>3. HandlesUnique'
  <2>1. \A w \in Owners : f \in tasks[w] => w = o
    BY DEF HandlesUnique, MoveTask
  <2>2. \A w \in Owners, g \in Frames :
          g \in tasks'[w] <=> IF g = f THEN w = Main ELSE g \in tasks[w]
    BY <2>1 DEF TypeOK, MoveTask
  <2>3. \A w \in Owners : tasks'[w] \subseteq Frames
    BY <1>1 DEF TypeOK
  <2>4. \A p \in Frames : awaiter'[p] = awaiter[p] /\ awaiter[p] # f
    BY DEF HandlesUnique, MoveTask
  <2>5. \A u, w \in Owners : \A g \in tasks'[u] : g \in tasks'[w] => u = w
    BY <2>2, <2>3 DEF HandlesUnique
  <2>6. \A w \in Owners, p \in Frames : awaiter'[p] \notin tasks'[w]
    BY <2>2, <2>3, <2>4 DEF HandlesUnique
  <2> QED BY <2>5, <2>6 DEF HandlesUnique
<1>4. HandlesExist'
  <2> SUFFICES ASSUME NEW g \in Frames, state'[g] # "free" PROVE Held(g)'
    BY DEF HandlesExist
  <2>1. Held(g)
    BY DEF HandlesExist, MoveTask
  <2>2. CASE g = f
    <3>1. f \in tasks'[Main]
      BY DEF TypeOK, MoveTask
    <3> QED BY <2>2, <3>1 DEF Held
  <2>3. CASE g # f
    <3>1. \A w \in Owners : g \in tasks[w] => g \in tasks'[w]
      BY <2>3 DEF TypeOK, MoveTask
    <3> QED BY <2>1, <3>1 DEF Held, MoveTask
  <2> QED BY <2>2, <2>3
<1>5. CallersAwait'
  BY DEF TypeOK, HandlesPlaced, HandlesUnique, CallersAwait, MoveTask, Runs
<1>6. OnCores'
  BY DEF TypeOK, HandlesPlaced, HandlesUnique, CallersAwait, OnCores,
     MoveTask, Runs
<1>7. ValuesSet'
  BY DEF TypeOK, ValuesSet, MoveTask, Runs
<1> QED BY <1>1, <1>2, <1>3, <1>4, <1>5, <1>6, <1>7

\* ~task() destroys a frame nobody else refers to.
LEMMA DestroyTaskInv ==
  ASSUME TaskInv, NEW k \in Cores, NEW o \in Owners, NEW f \in Frames,
         DestroyTask(k, o, f)
  PROVE  TaskInv'
<1> USE TaskAssumption DEF TaskInv, Owners, Started
<1>1. TypeOK'
  BY DEF TypeOK, HandlesPlaced, DestroyTask, Executing, Runs
<1>2. HandlesPlaced'
  BY DEF TypeOK, HandlesPlaced, HandlesUnique, CallersAwait, OnCores,
     DestroyTask, Executing, Runs
<1>3. HandlesUnique'
  BY DEF TypeOK, HandlesPlaced, HandlesUnique, DestroyTask, Executing, Runs
<1>4. HandlesExist'
  BY DEF TypeOK, HandlesPlaced, HandlesUnique, HandlesExist, Held,
     DestroyTask, Executing, Runs
<1>5. CallersAwait'
  BY DEF TypeOK, HandlesPlaced, HandlesUnique, CallersAwait, DestroyTask,
     Executing, Runs
<1>6. OnCores'
  BY DEF TypeOK, HandlesPlaced, HandlesUnique, CallersAwait, OnCores,
     DestroyTask, Executing, Runs
<1>7. ValuesSet'
  BY DEF TypeOK, ValuesSet, DestroyTask, Executing, Runs
<1> QED BY <1>1, <1>2, <1>3, <1>4, <1>5, <1>6, <1>7

\* start() runs a frame that was on no core.
LEMMA StartInv ==
  ASSUME TaskInv, NEW k \in Cores, NEW f \in Frames, start(k, f)
  PROVE  TaskInv'
<1> USE TaskAssumption DEF TaskInv, Owners, Started
<1>1. TypeOK'
  BY DEF TypeOK, HandlesPlaced, start, Executing
<1>2. HandlesPlaced'
  BY DEF TypeOK, HandlesPlaced, HandlesUnique, CallersAwait, OnCores, start,
     Executing
<1>3. HandlesUnique'
  BY DEF TypeOK, HandlesPlaced, HandlesUnique, start, Executing
<1>4. HandlesExist'
  BY DEF TypeOK, HandlesPlaced, HandlesUnique, HandlesExist, Held, start,
     Executing
<1>5. CallersAwait'
  BY DEF TypeOK, HandlesPlaced, HandlesUnique, CallersAwait, start, Executing
<1>6. OnCores'
  BY DEF TypeOK, HandlesPlaced, HandlesUnique, CallersAwait, OnCores, start,
     Executing
<1>7. ValuesSet'
  BY DEF TypeOK, ValuesSet, start, Executing
<1> QED BY <1>1, <1>2, <1>3, <1>4, <1>5, <1>6, <1>7

\* co_await moves the only handle of the child into the parent's Awaiter.
LEMMA AwaitInv ==
  ASSUME TaskInv, NEW k \in Cores, NEW o \in Frames, NEW f \in Frames,
         co_await(k, o, f)
  PROVE  TaskInv'
<1> USE TaskAssumption DEF TaskInv, Owners, Started
<1>1. TypeOK'
  BY DEF TypeOK, HandlesPlaced, co_await, MayAwait, Runs
<1>2. HandlesPlaced'
  <2>0. /\ o # f /\ state[o] = "running" /\ state[f] = "initial"
        /\ awaiter[o] = None /\ awaiter[f] = None
    BY DEF HandlesPlaced, TypeOK, co_await, MayAwait, Runs
  <2>1. \A p \in Frames : awaiter[p] # f
    BY DEF HandlesUnique, co_await, MayAwait
  <2>2. \A g \in Frames :
          /\ state'[g] = IF g = f THEN "running"
                         ELSE IF g = o THEN "awaiting" ELSE state[g]
          /\ awaiter'[g] = IF g = o THEN f ELSE awaiter[g]
          /\ _caller'[g] = IF g = f THEN o ELSE _caller[g]
    BY <2>0 DEF TypeOK, co_await, MayAwait
  <2>3. \A w \in Owners : tasks'[w] = tasks[w] \ {f}
    BY DEF co_await, MayAwait
  <2>4. \A w \in Owners : \A g \in tasks'[w] :
          /\ state'[g] # "free"
          /\ w \in Frames => state'[g] = "initial" /\ state'[w] \in Started
    <3> SUFFICES ASSUME NEW w \in Owners, NEW g \in tasks'[w]
                 PROVE  /\ state'[g] # "free"
                        /\ w \in Frames => state'[g] = "initial" /\ state'[w] \in Started
      OBVIOUS
    <3>1. g \in Frames /\ g # f /\ g \in tasks[w]
      BY <2>3 DEF TypeOK
    <3>2. w \in Frames => g # o
      BY <2>0, <3>1 DEF HandlesPlaced
    <3> QED BY <2>0, <2>2, <3>1, <3>2 DEF HandlesPlaced
  <2>5. \A p \in Frames : awaiter'[p] # None <=> state'[p] = "awaiting"
    BY <2>0, <2>2 DEF HandlesPlaced
  <2>6. ASSUME NEW p \in Frames, awaiter'[p] # None
        PROVE  /\ state'[awaiter'[p]] \in Started \cup {"final"}
               /\ _caller'[awaiter'[p]] = p
    <3>1. CASE p = o
      BY <2>0, <2>2, <3>1
    <3>2. CASE p # o
      <4>1. awaiter'[p] = awaiter[p] /\ awaiter[p] \in Frames /\ awaiter[p] # f
        BY <2>1, <2>2, <2>6, <3>2 DEF TypeOK
      <4> QED BY <2>2, <3>2, <4>1 DEF HandlesPlaced
    <3> QED BY <3>1, <3>2
  <2> QED BY <2>4, <2>5, <2>6 DEF HandlesPlaced
<1>3. HandlesUnique'
  BY DEF TypeOK, HandlesPlaced, HandlesUnique, co_await, MayAwait, Runs
<1>4. HandlesExist'
  <2> SUFFICES ASSUME NEW g \in Frames, state'[g] # "free" PROVE Held(g)'
    BY DEF HandlesExist
  <2>1. CASE g = f
    <3>1. awaiter'[o] = f
      BY DEF TypeOK, co_await, MayAwait
    <3> QED BY <2>1, <3>1 DEF Held
  <2>2. CASE g # f
    <3>1. \A w \in Owners : g \in tasks[w] => g \in tasks'[w]
      BY <2>2 DEF TypeOK, co_await, MayAwait
    <3>2. \A p \in Frames : awaiter[p] = g => awaiter'[p] = g
      BY <2>2 DEF HandlesPlaced, TypeOK, co_await, MayAwait, Runs
    <3>3. Held(g)
      BY <2>2 DEF HandlesExist, TypeOK, co_await, MayAwait, Runs
    <3> QED BY <3>1, <3>2, <3>3 DEF Held
  <2> QED BY <2>1, <2>2
<1>5. CallersAwait'
  BY DEF TypeOK, HandlesPlaced, HandlesUnique, CallersAwait, co_await, MayAwait, Runs
<1>6. OnCores'
  <2>0. /\ o # f /\ state[o] = "running" /\ state[f] = "initial"
        /\ current[k] = o
    BY DEF co_await, MayAwait, Runs
  <2>1. \A p \in Frames : awaiter[p] # f
    BY DEF HandlesUnique, co_await, MayAwait
  <2>2. \A g \in Frames :
          /\ state'[g] = IF g = f THEN "running"
                         ELSE IF g = o THEN "awaiting" ELSE state[g]
          /\ awaiter'[g] = IF g = o THEN f ELSE awaiter[g]
    BY <2>0 DEF TypeOK, co_await, MayAwait
  <2>3. \A j \in Cores : current'[j] = IF j = k THEN f ELSE current[j]
    BY DEF TypeOK, co_await, MayAwait
  <2>4. \A j \in Cores : current[j] # f /\ (current[j] = o => j = k)
    BY <2>0 DEF OnCores, TypeOK
  <2>5. ASSUME NEW j \in Cores, current'[j] # None
        PROVE  \/ state'[current'[j]] = "running"
               \/ /\ state'[current'[j]] = "awaiting"
                  /\ state'[awaiter'[current'[j]]] = "final"
    <3>1. CASE j = k
      BY <2>2, <2>3, <3>1
    <3>2. CASE j # k
      <4> DEFINE g == current[j]
      <4>1. g \in Frames /\ g # f /\ g # o /\ current'[j] = g
        BY <2>3, <2>4, <2>5, <3>2 DEF TypeOK
      <4>2. state'[g] = state[g] /\ awaiter'[g] = awaiter[g]
        BY <2>2, <4>1
      <4>3. state[g] = "awaiting" => awaiter[g] \in Frames \ {o, f} \/ awaiter[g] = o
        BY <2>1, <4>1 DEF HandlesPlaced, TypeOK
      <4> QED BY <2>0, <2>2, <4>1, <4>2, <4>3 DEF OnCores
    <3> QED BY <3>1, <3>2
  <2>6. \A i, j \in Cores : current'[i] # None /\ current'[i] = current'[j] => i = j
    BY <2>3, <2>4 DEF OnCores
  <2>7. ASSUME NEW g \in Frames, state'[g] = "running"
        PROVE  \E j \in Cores : current'[j] = g
    <3>1. CASE g = f
      BY <2>3, <3>1
    <3>2. CASE g # f
      BY <2>0, <2>2, <2>3, <2>7, <3>2 DEF OnCores
    <3> QED BY <3>1, <3>2
  <2> QED BY <2>5, <2>6, <2>7 DEF OnCores
<1>7. ValuesSet'
  BY DEF TypeOK, ValuesSet, co_await, MayAwait, Runs
<1> QED BY <1>1, <1>2, <1>3, <1>4, <1>5, <1>6, <1>7

\* A leaf suspension frees the core.
LEMMA LeafSuspendInv ==
  ASSUME TaskInv, NEW k \in Cores, NEW f \in Frames, LeafSuspend(k, f)
  PROVE  TaskInv'
<1> USE TaskAssumption DEF TaskInv, Owners, Started
<1>1. TypeOK'
  BY DEF TypeOK, HandlesPlaced, LeafSuspend, Runs
<1>2. HandlesPlaced'
  BY DEF TypeOK, HandlesPlaced, HandlesUnique, CallersAwait, OnCores,
     LeafSuspend, Runs
<1>3. HandlesUnique'
  BY DEF TypeOK, HandlesPlaced, HandlesUnique, LeafSuspend, Runs
<1>4. HandlesExist'
  BY DEF TypeOK, HandlesPlaced, HandlesUnique, HandlesExist, Held,
     LeafSuspend, Runs
<1>5. CallersAwait'
  BY DEF TypeOK, HandlesPlaced, HandlesUnique, CallersAwait, LeafSuspend, Runs
<1>6. OnCores'
  BY DEF TypeOK, HandlesPlaced, HandlesUnique, CallersAwait, OnCores,
     LeafSuspend, Runs
<1>7. ValuesSet'
  BY DEF TypeOK, ValuesSet, LeafSuspend, Runs
<1> QED BY <1>1, <1>2, <1>3, <1>4, <1>5, <1>6, <1>7

\* resume() runs a suspended frame.
LEMMA ResumeInv ==
  ASSUME TaskInv, NEW k \in Cores, NEW f \in Frames, resume(k, f)
  PROVE  TaskInv'
<1> USE TaskAssumption DEF TaskInv, Owners, Started
<1>1. TypeOK'
  BY DEF TypeOK, HandlesPlaced, resume, Executing
<1>2. HandlesPlaced'
  BY DEF TypeOK, HandlesPlaced, HandlesUnique, CallersAwait, OnCores, resume,
     Executing
<1>3. HandlesUnique'
  BY DEF TypeOK, HandlesPlaced, HandlesUnique, resume, Executing
<1>4. HandlesExist'
  BY DEF TypeOK, HandlesPlaced, HandlesUnique, HandlesExist, Held, resume,
     Executing
<1>5. CallersAwait'
  BY DEF TypeOK, HandlesPlaced, HandlesUnique, CallersAwait, resume, Executing
<1>6. OnCores'
  BY DEF TypeOK, HandlesPlaced, HandlesUnique, CallersAwait, OnCores, resume,
     Executing
<1>7. ValuesSet'
  BY DEF TypeOK, ValuesSet, resume, Executing
<1> QED BY <1>1, <1>2, <1>3, <1>4, <1>5, <1>6, <1>7

\* co_return destroys the frame's own tasks, none of which was started, and hands
\* the core to the parent.
LEMMA ReturnInv ==
  ASSUME TaskInv, NEW k \in Cores, NEW f \in Frames, co_return(k, f)
  PROVE  TaskInv'
<1> USE TaskAssumption DEF TaskInv, Owners, Started
<1>1. TypeOK'
  BY DEF TypeOK, HandlesPlaced, co_return, Runs
<1>2. HandlesPlaced'
  BY DEF TypeOK, HandlesPlaced, HandlesUnique, CallersAwait, OnCores,
     co_return, Runs
<1>3. HandlesUnique'
  BY DEF TypeOK, HandlesPlaced, HandlesUnique, co_return, Runs
<1>4. HandlesExist'
  BY DEF TypeOK, HandlesPlaced, HandlesUnique, HandlesExist, Held, co_return,
     Runs
<1>5. CallersAwait'
  BY DEF TypeOK, HandlesPlaced, HandlesUnique, CallersAwait, co_return, Runs
<1>6. OnCores'
  BY DEF TypeOK, HandlesPlaced, HandlesUnique, CallersAwait, OnCores,
     co_return, Runs
<1>7. ValuesSet'
  BY DEF TypeOK, ValuesSet, co_return, Runs
<1> QED BY <1>1, <1>2, <1>3, <1>4, <1>5, <1>6, <1>7

\* await_resume() destroys the child, which has returned.
LEMMA AwaitResumeInv ==
  ASSUME TaskInv, NEW k \in Cores, NEW o \in Frames, await_resume(k, o)
  PROVE  TaskInv'
<1> USE TaskAssumption DEF TaskInv, Owners, Started
<1>1. TypeOK'
  BY DEF TypeOK, HandlesPlaced, await_resume
<1>2. HandlesPlaced'
  <2> DEFINE g == awaiter[o]
  <2>1. /\ g \in Frames /\ g # o /\ _caller[g] = o /\ state[g] = "final"
        /\ state[o] = "awaiting"
    BY DEF TypeOK, HandlesPlaced, OnCores, await_resume
  <2>2. /\ \A w \in Owners : g \notin tasks[w]
        /\ tasks[g] = {} /\ awaiter[g] = None
    BY <2>1 DEF TypeOK, HandlesPlaced, HandlesUnique
  <2>3. /\ \A f \in Frames : state'[f] = IF f = g THEN "free"
                                       ELSE IF f = o THEN "running" ELSE state[f]
        /\ \A f \in Frames : awaiter'[f] = IF f = o THEN None ELSE awaiter[f]
        /\ UNCHANGED <<tasks, _caller>>
    BY <2>1 DEF TypeOK, await_resume
  <2>4. \A w \in Owners : tasks[w] \subseteq Frames
    BY DEF TypeOK
  <2> HIDE DEF g
  <2>5. \A w \in Owners : \A f \in tasks[w] : state'[f] # "free"
    BY <2>2, <2>3, <2>4 DEF HandlesPlaced
  <2>6. \A w \in Frames : \A f \in tasks[w] :
          state'[f] = "initial" /\ state'[w] \in Started
    BY <2>1, <2>2, <2>3, <2>4 DEF HandlesPlaced
  <2>7. \A w \in Frames : awaiter'[w] # None <=> state'[w] = "awaiting"
    BY <2>1, <2>2, <2>3 DEF HandlesPlaced
  <2>8. ASSUME NEW w \in Frames, awaiter'[w] # None
        PROVE  /\ state'[awaiter'[w]] \in Started \cup {"final"}
               /\ _caller'[awaiter'[w]] = w
    <3>1. w # o /\ awaiter'[w] = awaiter[w] /\ awaiter[w] \in Frames
      BY <2>3, <2>8 DEF TypeOK
    <3>2. state[awaiter[w]] \in Started \cup {"final"} /\ _caller[awaiter[w]] = w
      BY <2>8, <3>1 DEF HandlesPlaced
    <3>3. awaiter[w] # g
      BY <2>1, <3>1, <3>2
    <3> QED BY <2>3, <3>1, <3>2, <3>3
  <2> QED BY <2>3, <2>5, <2>6, <2>7, <2>8 DEF HandlesPlaced
<1>3. HandlesUnique'
  BY DEF TypeOK, HandlesPlaced, HandlesUnique, await_resume
<1>4. HandlesExist'
  BY DEF TypeOK, HandlesPlaced, HandlesUnique, HandlesExist, Held,
     await_resume
<1>5. CallersAwait'
  BY DEF TypeOK, HandlesPlaced, HandlesUnique, CallersAwait, await_resume
<1>6. OnCores'
  BY DEF TypeOK, HandlesPlaced, HandlesUnique, CallersAwait, OnCores,
     await_resume
<1>7. ValuesSet'
  BY DEF TypeOK, ValuesSet, await_resume
<1> QED BY <1>1, <1>2, <1>3, <1>4, <1>5, <1>6, <1>7

-----------------------------------------------------------------------------
\* The invariant is inductive.
LEMMA TaskInvNext == TaskInv /\ [Next]_vars => TaskInv'
<1> SUFFICES ASSUME TaskInv, [Next]_vars PROVE TaskInv'
  OBVIOUS
<1>1. ASSUME NEW k \in Cores, CoroStep(k) PROVE TaskInv'
  BY <1>1, CallInv, MoveTaskInv, DestroyTaskInv, AwaitInv, LeafSuspendInv,
     ReturnInv, AwaitResumeInv DEF CoroStep, Owners
<1>2. ASSUME NEW k \in Cores, MainStep(k) PROVE TaskInv'
  BY <1>2, CallInv, StartInv, DestroyTaskInv DEF MainStep, Owners
<1>3. CASE UNCHANGED vars
  BY <1>3 DEF vars, TaskInv, TypeOK, HandlesPlaced, HandlesUnique, HandlesExist,
     Held, CallersAwait, OnCores, ValuesSet
<1> QED
  BY <1>1, <1>2, <1>3, ResumeInv DEF Next, Poll

\* The invariant holds in every reachable state.
LEMMA TaskInvariance == Spec => []TaskInv
BY TaskInvInit, TaskInvNext, PTL DEF Spec

\* A live frame has exactly one owning handle.
LEMMA OneHandle ==
  ASSUME TaskInv, NEW f \in Frames, f \in Live
  PROVE  Cardinality(OwningHandles(f)) = 1
<1> USE TaskAssumption DEF TaskInv, Owners, Live
<1>1. Held(f)
  BY DEF HandlesExist
<1>2. CASE \E o \in Owners : f \in tasks[o]
  <2> PICK o \in Owners : f \in tasks[o]
    BY <1>2
  <2>1. o \in Live \cup {Main}
    BY DEF HandlesPlaced, Started
  <2>2. \A g \in Live : awaiter[g] # f
    BY DEF HandlesUnique
  <2>3. \A w \in Live \cup {Main} : f \in tasks[w] => w = o
    BY DEF HandlesUnique
  <2>4. OwningHandles(f) = {o}
    BY <2>1, <2>2, <2>3 DEF OwningHandles
  <2> QED BY <2>4, FS_Singleton
<1>3. CASE \E p \in Frames : awaiter[p] = f
  <2> PICK p \in Frames : awaiter[p] = f
    BY <1>3
  <2>1. p \in Live /\ _caller[f] = p
    BY DEF HandlesPlaced
  <2>2. \A g \in Live : awaiter[g] = f => g = p
    BY <2>1 DEF HandlesPlaced
  <2>3. \A w \in Live \cup {Main} : f \notin tasks[w]
    BY DEF HandlesUnique
  <2>4. OwningHandles(f) = {<<p>>}
    BY <2>1, <2>2, <2>3 DEF OwningHandles
  <2> QED BY <2>4, FS_Singleton
<1> QED BY <1>1, <1>2, <1>3 DEF Held

\* A destroyed frame has none.
LEMMA NoHandle ==
  ASSUME TaskInv, NEW f \in Frames, f \notin Live
  PROVE  Cardinality(OwningHandles(f)) = 0
<1> USE TaskAssumption DEF TaskInv, Owners, Live
<1>1. \A w \in Live \cup {Main} : f \notin tasks[w]
  BY DEF HandlesPlaced
<1>2. \A g \in Live : awaiter[g] # f
  BY DEF HandlesPlaced, Started
<1>3. OwningHandles(f) = {}
  BY <1>1, <1>2 DEF OwningHandles
<1> QED BY <1>3, FS_EmptySet

\* Frames are destroyed exactly once, and never executed or returned to after
\* that, whatever the coroutines and the code outside do with their tasks.
THEOREM DestroyedOnce == Spec => []OwnedOnce
<1>1. TaskInv => OwnedOnce
  <2> SUFFICES ASSUME TaskInv PROVE OwnedOnce
    OBVIOUS
  <2>1. \A f \in Frames :
          Cardinality(OwningHandles(f)) = IF f \in Live THEN 1 ELSE 0
    BY OneHandle, NoHandle
  <2>2. \A k \in Cores : current[k] # None => current[k] \in Live
    BY DEF TaskInv, OnCores, TypeOK, Live
  <2>3. \A f \in Live : _caller[f] # None => _caller[f] \in Live
    BY TaskAssumption DEF TaskInv, CallersAwait, HandlesPlaced, TypeOK, Live
  <2> QED BY <2>1, <2>2, <2>3 DEF OwnedOnce, TaskInv
<1> QED BY <1>1, TaskInvariance, PTL

\* Parents and children agree, and a parent goes on only when its child has
\* returned with a value.
THEOREM ChainsIntact == Spec => []ChainIntact
<1>1. TaskInv => ChainIntact
  <2> SUFFICES ASSUME TaskInv PROVE ChainIntact
    OBVIOUS
  <2> USE TaskAssumption DEF TaskInv, Live
  <2>1. \A f \in Live : state[f] = "awaiting" <=> awaiter[f] # None
    BY DEF HandlesPlaced
  <2>2. \A f \in Live : awaiter[f] # None =>
          _caller[awaiter[f]] = f /\ state[awaiter[f]] # "initial"
    BY DEF HandlesPlaced, Started
  <2>3. \A f \in Live : _caller[f] # None => awaiter[_caller[f]] = f
    BY DEF CallersAwait
  <2>4. ASSUME NEW f \in Live, state[f] = "running"
        PROVE  Cardinality({k \in Cores : current[k] = f}) = 1
    <3> PICK k \in Cores : current[k] = f
      BY <2>4 DEF OnCores
    <3>1. {j \in Cores : current[j] = f} = {k}
      BY DEF OnCores
    <3> QED BY <3>1, FS_Singleton
  <2>5. ASSUME NEW k \in Cores, current[k] # None, state[current[k]] = "awaiting"
        PROVE  state[awaiter[current[k]]] = "final" /\ _value[awaiter[current[k]]]
    <3>1. current[k] \in Frames /\ awaiter[current[k]] \in Frames
      BY <2>5 DEF HandlesPlaced, TypeOK
    <3>2. state[awaiter[current[k]]] = "final"
      BY <2>5 DEF OnCores
    <3>3. _value[awaiter[current[k]]] = TRUE
      BY <3>1, <3>2 DEF ValuesSet
    <3> QED BY <3>2, <3>3
  <2> QED BY <2>1, <2>2, <2>3, <2>4, <2>5 DEF ChainIntact
<1> QED BY <1>1, TaskInvariance, PTL

=============================================================================
