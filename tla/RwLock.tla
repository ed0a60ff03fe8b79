------------------------------- MODULE RwLock -------------------------------
(***************************************************************************)
(* What a readers-writer lock promises, without its implementation.  A     *)
(* writer first enters, which keeps every later reader and writer out, and *)
(* owns the lock once the readers that were already inside have left.      *)
(***************************************************************************)
CONSTANTS Procs, Nobody

VARIABLES
  readers,  \* the processes with shared ownership
  entered,  \* the writer that keeps the others out, or Nobody
  owned     \* that writer has exclusive ownership

vars == <<readers, entered, owned>>

Init == readers = {} /\ entered = Nobody /\ owned = FALSE

\* Shared ownership, as long as no writer has entered.
LockShared(p) ==
  /\ entered = Nobody
  /\ p \notin readers
  /\ readers' = readers \cup {p}
  /\ UNCHANGED <<entered, owned>>

UnlockShared(p) ==
  /\ p \in readers
  /\ readers' = readers \ {p}
  /\ UNCHANGED <<entered, owned>>

\* One writer at a time enters, whether or not there are readers.
Enter(p) ==
  /\ entered = Nobody
  /\ entered' = p
  /\ UNCHANGED <<readers, owned>>

\* The readers are gone: the writer that entered owns the lock.
Own ==
  /\ entered # Nobody
  /\ readers = {}
  /\ owned' = TRUE
  /\ UNCHANGED <<readers, entered>>

\* Entering and owning in one step, when there are no readers.
EnterAndOwn(p) ==
  /\ entered = Nobody
  /\ readers = {}
  /\ entered' = p
  /\ owned' = TRUE
  /\ UNCHANGED readers

Unlock ==
  /\ owned
  /\ entered' = Nobody
  /\ owned' = FALSE
  /\ UNCHANGED readers

Next ==
  \/ \E p \in Procs : LockShared(p) \/ UnlockShared(p)
  \/ \E p \in Procs : Enter(p) \/ EnterAndOwn(p)
  \/ Own
  \/ Unlock

Spec == Init /\ [][Next]_vars

=============================================================================
