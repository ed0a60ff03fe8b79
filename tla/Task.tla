-------------------------------- MODULE Task --------------------------------
(***************************************************************************)
(* include/task.hpp: coroutine frames, the task objects that own them, and *)
(* the way control passes between parents and children.  A call of a       *)
(* coroutine makes a suspended frame; co_await moves its handle into an    *)
(* Awaiter, notes the parent as _caller and transfers control to it; a     *)
(* leaf awaiter suspends the innermost frame and returns to the reactor,   *)
(* which later resumes that frame, on any core; final_suspend transfers to *)
(* the parent, whose await_resume takes the value and destroys the child.  *)
(*                                                                         *)
(* Bodies are those that keep the contract of a lazy task: at any point    *)
(* they may call, await, drop or give away tasks, suspend, or return, but  *)
(* a task is started or awaited at most once (MayAwait), and only outside  *)
(* code (Main: the scheduler, or a test) calls start().  It also calls     *)
(* tasks, and destroys its task objects before start() or when done()      *)
(* holds.  task<T> and task<void> differ in the value only.                *)
(***************************************************************************)
EXTENDS Naturals, FiniteSets

CONSTANTS
  Frames,       \* addresses of coroutine frames
  Cores,
  Main,         \* owner of the task objects outside every coroutine
  None,         \* a null handle; as a _caller, noop_coroutine()
  MaxCalls,     \* bound on the coroutines called
  MaxSuspends   \* bound on the leaf suspensions

ASSUME TaskAssumption ==
  /\ Main \notin Frames /\ None \notin Frames \cup {Main}
  /\ MaxCalls \in Nat /\ MaxSuspends \in Nat

VARIABLES
  state,    \* state[f]: where frame f is, "free" when it is no frame
  _caller,  \* _caller[f], of f's promise
  _value,   \* _value[f]: the optional in f's promise has a value
  tasks,    \* tasks[o]: frames in the _h of a task object that o holds
  awaiter,  \* awaiter[f]: the _h of the Awaiter that f is suspended in
  current,  \* current[k]: the coroutine core k executes
  calls, suspends

vars == <<state, _caller, _value, tasks, awaiter, current, calls, suspends>>

Owners == Frames \cup {Main}
Live == {f \in Frames : state[f] # "free"}

Init ==
  /\ state = [f \in Frames |-> "free"]
  /\ _caller = [f \in Frames |-> None]
  /\ _value = [f \in Frames |-> FALSE]
  /\ tasks = [o \in Owners |-> {}]
  /\ awaiter = [f \in Frames |-> None]
  /\ current = [k \in Cores |-> None]
  /\ calls = 0
  /\ suspends = 0

\* Core k executes the body of f.
Runs(k, f) == current[k] = f /\ state[f] = "running"

\* Whoever executes on core k: a coroutine's body, or code outside.
Executing(k, o) == IF o = Main THEN current[k] = None ELSE Runs(k, o)

-----------------------------------------------------------------------------
\* A call of a coroutine function: its frame, suspended at initial_suspend, and
\* the task object get_return_object() gives the caller.
Call(k, o, f) ==
  /\ Executing(k, o)
  /\ calls < MaxCalls
  /\ state[f] = "free"
  /\ state' = [state EXCEPT ![f] = "initial"]
  /\ _caller' = [_caller EXCEPT ![f] = None]
  /\ _value' = [_value EXCEPT ![f] = FALSE]
  /\ tasks' = [tasks EXCEPT ![o] = @ \cup {f}]
  /\ calls' = calls + 1
  /\ UNCHANGED <<awaiter, current, suspends>>

\* task(task&&): o gives a task object away, as add_task() does.
MoveTask(k, o, f) ==
  /\ Runs(k, o)
  /\ f \in tasks[o]
  /\ tasks' = [tasks EXCEPT ![o] = @ \ {f}, ![Main] = @ \cup {f}]
  /\ UNCHANGED <<state, _caller, _value, awaiter, current, calls, suspends>>

\* ~task() of an object whose coroutine has not been started, or is done.
DestroyTask(k, o, f) ==
  /\ Executing(k, o)
  /\ f \in tasks[o]
  /\ state[f] \in {"initial", "final"}
  /\ tasks' = [tasks EXCEPT ![o] = @ \ {f}]
  /\ state' = [state EXCEPT ![f] = "free"]
  /\ UNCHANGED <<_caller, _value, awaiter, current, calls, suspends>>

\* start().
start(k, f) ==
  /\ Executing(k, Main)
  /\ f \in tasks[Main]
  /\ state[f] = "initial"
  /\ state' = [state EXCEPT ![f] = "running"]
  /\ current' = [current EXCEPT ![k] = f]
  /\ UNCHANGED <<_caller, _value, tasks, awaiter, calls, suspends>>

\* The contract of co_await, which the code does not check: await_ready() is
\* always false and await_suspend() resumes whatever handle it has.  To await a
\* task that runs or has ended, which the comment on await_ready() (task.hpp:75)
\* considers, is undefined: it resumes a coroutine that is not suspended, or one
\* at its final suspend point.
MayAwait(o, f) == f \in tasks[o] \cup tasks[Main] /\ state[f] = "initial"

\* Mutant: the task object keeps the handle.
co_await_KeepsHandle(k, o, f) ==
  /\ Runs(k, o)
  /\ MayAwait(o, f)
  /\ awaiter' = [awaiter EXCEPT ![o] = f]
  /\ _caller' = [_caller EXCEPT ![f] = o]
  /\ state' = [state EXCEPT ![o] = "awaiting", ![f] = "running"]
  /\ current' = [current EXCEPT ![k] = f]
  /\ UNCHANGED <<_value, tasks, calls, suspends>>

\* Mutant: await_suspend() does not note the parent.
co_await_NoCaller(k, o, f) ==
  /\ Runs(k, o)
  /\ MayAwait(o, f)
  /\ tasks' = [w \in Owners |-> tasks[w] \ {f}]
  /\ awaiter' = [awaiter EXCEPT ![o] = f]
  /\ state' = [state EXCEPT ![o] = "awaiting", ![f] = "running"]
  /\ current' = [current EXCEPT ![k] = f]
  /\ UNCHANGED <<_caller, _value, calls, suspends>>

\* co_await of a task of its own, or through a pointer (task_run): the handle
\* moves into the Awaiter, the parent suspends, the child runs.
co_await(k, o, f) ==
  /\ Runs(k, o)
  /\ MayAwait(o, f)
  /\ tasks' = [w \in Owners |-> tasks[w] \ {f}]
  /\ awaiter' = [awaiter EXCEPT ![o] = f]
  /\ _caller' = [_caller EXCEPT ![f] = o]
  /\ state' = [state EXCEPT ![o] = "awaiting", ![f] = "running"]
  /\ current' = [current EXCEPT ![k] = f]
  /\ UNCHANGED <<_value, calls, suspends>>

\* co_await of something that is not a task (a lock, a yield, an I/O): resume()
\* returns to the code outside.
LeafSuspend(k, f) ==
  /\ Runs(k, f)
  /\ suspends < MaxSuspends
  /\ state' = [state EXCEPT ![f] = "suspended"]
  /\ current' = [current EXCEPT ![k] = None]
  /\ suspends' = suspends + 1
  /\ UNCHANGED <<_caller, _value, tasks, awaiter, calls>>

\* A callback resumes the innermost frame, on any core.
resume(k, f) ==
  /\ Executing(k, Main)
  /\ state[f] = "suspended"
  /\ state' = [state EXCEPT ![f] = "running"]
  /\ current' = [current EXCEPT ![k] = f]
  /\ UNCHANGED <<_caller, _value, tasks, awaiter, calls, suspends>>

\* Mutant: final_suspend returns to the resumer.
co_return_ToResumer(k, f) ==
  /\ Runs(k, f)
  /\ _value' = [_value EXCEPT ![f] = TRUE]
  /\ state' = [g \in Frames |-> IF g = f THEN "final"
                                ELSE IF g \in tasks[f] THEN "free" ELSE state[g]]
  /\ tasks' = [tasks EXCEPT ![f] = {}]
  /\ current' = [current EXCEPT ![k] = None]
  /\ UNCHANGED <<_caller, awaiter, calls, suspends>>

\* co_return: return_value(), the destructors of f's locals, and final_suspend,
\* which passes control to the parent.
co_return(k, f) ==
  /\ Runs(k, f)
  /\ _value' = [_value EXCEPT ![f] = TRUE]
  /\ state' = [g \in Frames |-> IF g = f THEN "final"
                                ELSE IF g \in tasks[f] THEN "free" ELSE state[g]]
  /\ tasks' = [tasks EXCEPT ![f] = {}]
  /\ current' = [current EXCEPT ![k] = _caller[f]]
  /\ UNCHANGED <<_caller, awaiter, calls, suspends>>

\* The parent resumes in await_resume(): take the value, destroy the child.
await_resume(k, o) ==
  /\ current[k] = o /\ state[o] = "awaiting"
  /\ state' = [state EXCEPT ![o] = "running", ![awaiter[o]] = "free"]
  /\ awaiter' = [awaiter EXCEPT ![o] = None]
  /\ UNCHANGED <<_caller, _value, tasks, current, calls, suspends>>

-----------------------------------------------------------------------------
\* What a core that executes a coroutine may do next.
CoroStep(k) ==
  \E o \in Frames :
    \/ LeafSuspend(k, o) \/ co_return(k, o) \/ await_resume(k, o)
    \/ \E f \in Frames : Call(k, o, f) \/ MoveTask(k, o, f)
                         \/ DestroyTask(k, o, f) \/ co_await(k, o, f)

MainStep(k) ==
  \E f \in Frames : Call(k, Main, f) \/ start(k, f) \/ DestroyTask(k, Main, f)

\* The reactors poll, whether or not there is something to do.
Poll == (\A k \in Cores : current[k] = None) /\ UNCHANGED vars

Next ==
  \/ \E k \in Cores : CoroStep(k) \/ MainStep(k) \/ \E f \in Frames : resume(k, f)
  \/ Poll

\* Cores run what they execute, bodies come to an end, and what a frame waits
\* for happens.
Fairness ==
  /\ \A k \in Cores, f \in Frames : WF_vars(co_return(k, f))
  /\ \A k \in Cores, f \in Frames : WF_vars(await_resume(k, f))
  /\ \A f \in Frames : SF_vars(\E k \in Cores : resume(k, f))

Spec == Init /\ [][Next]_vars /\ Fairness

-----------------------------------------------------------------------------
\* Every variable has its type, and only a coroutine that has returned has a
\* value: the assertion in return_value() (task.hpp:38) holds.
TypeOK ==
  /\ state \in [Frames -> {"free", "initial", "running", "awaiting",
                           "suspended", "final"}]
  /\ _caller \in [Frames -> Frames \cup {None}]
  /\ _value \in [Frames -> BOOLEAN]
  /\ tasks \in [Owners -> SUBSET Frames]
  /\ awaiter \in [Frames -> Frames \cup {None}]
  /\ current \in [Cores -> Frames \cup {None}]
  /\ calls \in 0 .. MaxCalls /\ suspends \in 0 .. MaxSuspends
  /\ \A f \in Frames : _value[f] => state[f] \in {"final", "free"}

\* The handles through which frame f will be destroyed: task objects of live
\* owners, and Awaiters.
OwningHandles(f) ==
  {o \in Live \cup {Main} : f \in tasks[o]} \cup
  {<<o>> : o \in {g \in Live : awaiter[g] = f}}

\* Every frame is destroyed exactly once: a live frame has one owning handle,
\* whatever was awaited, moved or dropped, and a destroyed one has none.  Nor is
\* a destroyed frame executed, or returned to.
OwnedOnce ==
  /\ TypeOK
  /\ \A f \in Frames :
       Cardinality(OwningHandles(f)) = IF f \in Live THEN 1 ELSE 0
  /\ \A k \in Cores : current[k] # None => current[k] \in Live
  /\ \A f \in Live :
       state[f] # "final" /\ _caller[f] # None => _caller[f] \in Live

\* Parents and children agree: a coroutine waits for the child that will return
\* to it, so that from every innermost coroutine the _callers lead out, one by
\* one, to a started task; and every running one is on exactly one core.  A
\* parent goes on only when its child has returned, so the value is there: "it
\* is guaranteed that the child has ended at await_resume" (task.hpp:89).
ChainIntact ==
  /\ \A f \in Live : state[f] = "awaiting" <=> awaiter[f] # None
  /\ \A f \in Live : awaiter[f] # None =>
       _caller[awaiter[f]] = f /\ state[awaiter[f]] # "initial"
  /\ \A f \in Live : _caller[f] # None => awaiter[_caller[f]] = f
  /\ \A f \in Live :
       state[f] = "running" => Cardinality({k \in Cores : current[k] = f}) = 1
  /\ \A k \in Cores : current[k] # None /\ state[current[k]] = "awaiting" =>
       LET child == awaiter[current[k]]
       IN  state[child] = "final" /\ _value[child]

\* Control passes "until the outermost coroutine" (task.hpp:24-26): a coroutine
\* that waits for a child, or for an event, goes on to its own end.
Completes ==
  \A f \in Frames : state[f] \in {"running", "awaiting", "suspended"}
                    ~> state[f] \in {"final", "free"}

=============================================================================
