------------------------------ MODULE Service ------------------------------
(***************************************************************************)
(* Asynchronous I/O (src/service.cpp): read() and write() submit a bdev    *)
(* I/O on the current core's channel and return an awaiter; the completion *)
(* callback resumes the coroutine.  When SPDK has no bdev_io left the      *)
(* request goes to the core's only retry_contexts[] and wait_entries[]     *)
(* slot and is submitted again when SPDK frees a bdev_io.                  *)
(*                                                                         *)
(* SPDK is external: submission takes a bdev_io or fails, a poller later   *)
(* calls the completion callback (never from inside the submission), and   *)
(* spdk_bdev_free_io() calls the queued wait entries while there are       *)
(* bdev_ios for them.  The queue of wait entries is intrusive, so an entry *)
(* that is inserted while it is in the queue points to itself and the      *)
(* queue never gets empty again.                                           *)
(***************************************************************************)
EXTENDS Naturals, FiniteSets, SequencesExt

CONSTANTS
  num_threads,   \* SPDK threads, one per core
  NumTasks,      \* tasks that do I/O
  PoolSize,      \* bdev_ios of one channel
  MaxIo,         \* bound: requests of one task
  RetryMayFail,  \* whether a retry may get -ENOMEM again
  None           \* no task

Cores == 0 .. (num_threads - 1)
Coros == 0 .. (NumTasks - 1)
Home(c) == c % num_threads
Ops == {"read", "write"}

ASSUME ServiceAssumption ==
  /\ num_threads \in Nat \ {0}
  /\ NumTasks \in Nat
  /\ PoolSize \in Nat \ {0}
  /\ MaxIo \in Nat
  /\ RetryMayFail \in BOOLEAN
  /\ None \notin Coros

VARIABLES
  free,            \* free[k]: bdev_ios left on core k's channel
  inflight,        \* inflight[k][c]: I/Os of core k whose cb_arg is the result
                   \*   in c's awaiter
  waitq,           \* waitq[k]: the channel's queue of wait entries: "empty",
                   \*   "one" (wait_entries[k]) or "loop" (inserted twice)
  retry_contexts,  \* retry_contexts[k] and the callback of wait_entries[k]
  stack,           \* stack[k]: C++ frames of core k, top first
  res,             \* res[c]: result of c's awaiter
  requests,        \* requests[c]: requests of task c so far
  op,              \* op[c]: operation c asked for last
  pc               \* pc[c]: "ready", "run", "await" or "done"

spdkVars == <<free, inflight, waitq>>
vars ==
  <<spdkVars, retry_contexts, stack, res, requests, op, pc>>

\* A result is not there yet, is the 0 or 1 of a completion, or an error code.
Results == {"none", "status", "rc"}
Coroutine(c) == [of |-> "coroutine", arg |-> c]
CompleteCb(c) == [of |-> "spdk_io_complete_cb", arg |-> c]

\* Every variable has its type; a channel never has more bdev_ios than it was
\* created with.
TypeOK ==
  /\ free \in [Cores -> 0 .. PoolSize]
  /\ inflight \in [Cores -> [Coros -> Nat]]
  /\ waitq \in [Cores -> {"empty", "one", "loop"}]
  /\ retry_contexts \in
       [Cores -> [fn : {"spdk_retry_read", "spdk_retry_write"}, res : Coros]
                   \cup {None}]
  /\ stack \in [Cores -> Seq([of : {"coroutine", "spdk_io_complete_cb"},
                              arg : Coros])]
  /\ res \in [Coros -> Results]
  /\ requests \in [Coros -> 0 .. MaxIo]
  /\ op \in [Coros -> Ops \cup {None}]
  /\ pc \in [Coros -> {"ready", "run", "await", "done"}]

Init ==
  /\ free = [k \in Cores |-> PoolSize]
  /\ inflight = [k \in Cores |-> [c \in Coros |-> 0]]
  /\ waitq = [k \in Cores |-> "empty"]
  /\ retry_contexts = [k \in Cores |-> None]
  /\ stack = [k \in Cores |-> <<>>]
  /\ res = [c \in Coros |-> "none"]
  /\ requests = [c \in Coros |-> 0]
  /\ op = [c \in Coros |-> None]
  /\ pc = [c \in Coros |-> "ready"]

Top(k, f) == stack[k] # <<>> /\ Head(stack[k]) = f

-----------------------------------------------------------------------------
(***************************************************************************)
(* SPDK's side.                                                            *)
(***************************************************************************)

\* What spdk_bdev_read() and spdk_bdev_write() may return.
SubmitResults(k) == {"EINVAL", IF free[k] > 0 THEN "0" ELSE "ENOMEM"}

\* A submission of core k for the result of c returns rc (free, inflight).
spdk_bdev_submit(k, c, rc) ==
  IF rc = "0"
  THEN /\ free' = [free EXCEPT ![k] = @ - 1]
       /\ inflight' = [inflight EXCEPT ![k][c] = @ + 1]
  ELSE UNCHANGED <<free, inflight>>

\* spdk_bdev_queue_io_wait(): insert wait_entries[k] at the tail (waitq).
spdk_bdev_queue_io_wait(k) ==
  waitq' = [waitq EXCEPT ![k] = IF @ = "empty" THEN "one" ELSE "loop"]

-----------------------------------------------------------------------------
(***************************************************************************)
(* Tasks.                                                                  *)
(***************************************************************************)

\* The reactor starts a task.
Start(k, c) ==
  /\ stack[k] = <<>>
  /\ Home(c) = k
  /\ pc[c] = "ready"
  /\ pc' = [pc EXCEPT ![c] = "run"]
  /\ stack' = [stack EXCEPT ![k] = <<Coroutine(c)>>]
  /\ UNCHANGED <<spdkVars, retry_contexts, res, requests, op>>

\* Mutant: write() installs read()'s callback.
RetryFn_AlwaysRead(o) == "spdk_retry_read"

\* The callback that read() and write() put in the core's wait entry.
RetryFn(o) == IF o = "read" THEN "spdk_retry_read" ELSE "spdk_retry_write"

\* Mutant: set_failure() does not make the awaiter ready.
Suspends_Always(rc) == TRUE

\* Whether the coroutine suspends: not after set_failure().
Suspends(rc) == rc # "EINVAL"

\* co_await read(...) or co_await write(...).  A request without a bdev_io
\* fills the core's retry slot; one that fails for good makes the awaiter
\* ready, so the coroutine goes on; otherwise it suspends.
Issue(k, c, o) ==
  /\ Top(k, Coroutine(c))
  /\ requests[c] < MaxIo
  /\ requests' = [requests EXCEPT ![c] = @ + 1]
  /\ op' = [op EXCEPT ![c] = o]
  /\ \E rc \in SubmitResults(k) :
       /\ spdk_bdev_submit(k, c, rc)
       /\ IF rc = "ENOMEM"
          THEN /\ retry_contexts' =
                    [retry_contexts EXCEPT ![k] = [fn |-> RetryFn(o), res |-> c]]
               /\ spdk_bdev_queue_io_wait(k)
          ELSE UNCHANGED <<retry_contexts, waitq>>
       /\ res' = [res EXCEPT ![c] = IF rc = "EINVAL" THEN "rc" ELSE "none"]
       /\ IF Suspends(rc)
          THEN /\ pc' = [pc EXCEPT ![c] = "await"]
               /\ stack' = [stack EXCEPT ![k] = Tail(@)]
          ELSE UNCHANGED <<pc, stack>>

\* The task returns.
Finish(k, c) ==
  /\ Top(k, Coroutine(c))
  /\ pc' = [pc EXCEPT ![c] = "done"]
  /\ stack' = [stack EXCEPT ![k] = Tail(@)]
  /\ UNCHANGED <<spdkVars, retry_contexts, res, requests, op>>

-----------------------------------------------------------------------------
(***************************************************************************)
(* Callbacks.                                                              *)
(***************************************************************************)

\* Mutant: the bdev_io is not freed.
Complete_NoFree(k, c) ==
  /\ stack[k] = <<>>
  /\ inflight[k][c] > 0
  /\ inflight' = [inflight EXCEPT ![k][c] = @ - 1]
  /\ stack' = [stack EXCEPT ![k] = <<CompleteCb(c)>>]
  /\ UNCHANGED <<free, waitq, retry_contexts, res, requests, op, pc>>

\* A poller finds a completed I/O: spdk_io_complete_cb() first frees the
\* bdev_io.
Complete(k, c) ==
  /\ stack[k] = <<>>
  /\ inflight[k][c] > 0
  /\ inflight' = [inflight EXCEPT ![k][c] = @ - 1]
  /\ free' = [free EXCEPT ![k] = @ + 1]
  /\ stack' = [stack EXCEPT ![k] = <<CompleteCb(c)>>]
  /\ UNCHANGED <<waitq, retry_contexts, res, requests, op, pc>>

\* spdk_bdev_free_io() has a bdev_io for a wait entry.
EntryRuns(k) == free[k] > 0 /\ waitq[k] # "empty"

\* It takes the entry off the queue and calls it: spdk_retry_read() or
\* spdk_retry_write() submits the request in the core's context.  -ENOMEM is
\* ignored; any other error resumes the coroutine at once.
Retry(k, c) ==
  /\ Top(k, CompleteCb(c))
  /\ EntryRuns(k)
  /\ waitq' = [waitq EXCEPT ![k] = IF @ = "one" THEN "empty" ELSE @]
  /\ LET d == retry_contexts[k].res
         outcomes == {"0", "EINVAL"} \cup (IF RetryMayFail THEN {"ENOMEM"} ELSE {})
     IN  \E rc \in outcomes :
           /\ spdk_bdev_submit(k, d, rc)
           /\ IF rc = "EINVAL"
              THEN /\ res' = [res EXCEPT ![d] = "rc"]
                   /\ pc' = [pc EXCEPT ![d] = "run"]
                   /\ stack' = [stack EXCEPT ![k] = <<Coroutine(d)>> \o @]
              ELSE UNCHANGED <<res, pc, stack>>
  /\ UNCHANGED <<retry_contexts, requests, op>>

\* Mutant: the coroutine is resumed before the bdev_io is offered to waiters.
ResumeCompleted_First(k, c) ==
  /\ Top(k, CompleteCb(c))
  /\ res' = [res EXCEPT ![c] = "status"]
  /\ pc' = [pc EXCEPT ![c] = "run"]
  /\ stack' = [stack EXCEPT ![k] = <<Coroutine(c)>> \o Tail(@)]
  /\ UNCHANGED <<spdkVars, retry_contexts, requests, op>>

\* The rest of spdk_io_complete_cb(): store the result, resume the coroutine.
ResumeCompleted(k, c) ==
  /\ Top(k, CompleteCb(c))
  /\ ~EntryRuns(k)
  /\ res' = [res EXCEPT ![c] = "status"]
  /\ pc' = [pc EXCEPT ![c] = "run"]
  /\ stack' = [stack EXCEPT ![k] = <<Coroutine(c)>> \o Tail(@)]
  /\ UNCHANGED <<spdkVars, retry_contexts, requests, op>>

-----------------------------------------------------------------------------
\* Steps of the code on core k.
CoreStep(k) ==
  \E c \in Coros :
    \/ Start(k, c)
    \/ \E o \in Ops : Issue(k, c, o)
    \/ Finish(k, c)
    \/ Retry(k, c)
    \/ ResumeCompleted(k, c)

\* A completed I/O of task c is found by core k's poller.
DeviceStep(k, c) == Complete(k, c)

AllDone == \A c \in Coros : pc[c] = "done"

Next ==
  \/ \E k \in Cores : CoreStep(k) \/ \E c \in Coros : DeviceStep(k, c)
  \/ AllDone /\ UNCHANGED vars

\* Reactors poll for ever and the device completes every I/O it accepted.
Fairness ==
  \A k \in Cores :
    WF_vars(CoreStep(k)) /\ \A c \in Coros : SF_vars(DeviceStep(k, c))

Spec == Init /\ [][Next]_vars
FairSpec == Spec /\ Fairness

-----------------------------------------------------------------------------
\* What is under way that will resume c: in-flight I/Os, completion callbacks
\* on a stack, and queued retry contexts that point to its result.
Owed(c) ==
  LET k == Home(c)
  IN  inflight[k][c]
        + Cardinality({n \in 1 .. Len(stack[k]) : stack[k][n] = CompleteCb(c)})
        + (IF waitq[k] # "empty" /\ retry_contexts[k].res = c THEN 1 ELSE 0)

\* A coroutine that awaits an I/O is resumed once and no other is: exactly one
\* in-flight I/O, running callback or queued retry refers to it.  In particular
\* a request that got -ENOMEM is queued for retry (service.cpp:63 and :90,
\* "retry queue io"), whatever else the core submits meanwhile.
EveryAwaitOwed ==
  \A c \in Coros : Owed(c) = IF pc[c] = "await" THEN 1 ELSE 0

\* A coroutine gets what it asked for.  The context and the callback in the slot
\* are those of the request that waits, and a coroutine that runs again finds a
\* result of its request, on whichever of the three ways it comes back.
AnswersOwnRequest ==
  /\ TypeOK
  /\ \A k \in Cores : waitq[k] # "empty" =>
       LET d == retry_contexts[k].res
       IN  /\ Home(d) = k
           /\ pc[d] = "await"
           /\ retry_contexts[k].fn =
                IF op[d] = "read" THEN "spdk_retry_read" ELSE "spdk_retry_write"
  /\ \A c \in Coros : pc[c] = "run" /\ requests[c] > 0 => res[c] # "none"

\* Every request is answered, although a task may always find the channel's
\* bdev_ios in use: -ENOMEM is retried (service.cpp:32 and :47, "retry again").
RequestAnswered == \A c \in Coros : pc[c] = "await" ~> pc[c] # "await"

=============================================================================
