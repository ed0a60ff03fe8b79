------------------------------ MODULE FifoLock ------------------------------
(***************************************************************************)
(* What a coroutine mutex promises, without its implementation: one owner  *)
(* at a time, waiters served strictly in the order they were queued, the   *)
(* lock handed from owner to waiter without ever being free in between,    *)
(* and a free lock only when nobody waits.                                 *)
(***************************************************************************)
EXTENDS Sequences

CONSTANTS Procs, Nobody

VARIABLES
  owner,  \* the process that holds the lock, or Nobody
  queue   \* the processes that wait, longest waiting first

vars == <<owner, queue>>

Init == owner = Nobody /\ queue = <<>>

\* The lock is free: p takes it at once.
Acquire(p) ==
  /\ owner = Nobody
  /\ owner' = p
  /\ UNCHANGED queue

\* The lock is held: p queues up.
Enqueue(p) ==
  /\ owner \notin {Nobody, p}
  /\ \A i \in DOMAIN queue : queue[i] # p
  /\ queue' = Append(queue, p)
  /\ UNCHANGED owner

\* The owner leaves and nobody waits.
Release ==
  /\ owner # Nobody
  /\ queue = <<>>
  /\ owner' = Nobody
  /\ UNCHANGED queue

\* The owner leaves and the longest waiting process owns the lock.
HandOff ==
  /\ owner # Nobody
  /\ queue # <<>>
  /\ owner' = Head(queue)
  /\ queue' = Tail(queue)

Next ==
  \/ \E p \in Procs : Acquire(p) \/ Enqueue(p)
  \/ Release
  \/ HandOff

Spec == Init /\ [][Next]_vars

=============================================================================
