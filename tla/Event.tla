------------------------------- MODULE Event -------------------------------
(***************************************************************************)
(* What an event promises, without its implementation: it is signalled or  *)
(* not; a process blocks only while it is not signalled; signalling        *)
(* releases every blocked process, each of which goes on exactly once; and *)
(* resetting the event affects nobody who waits.                           *)
(***************************************************************************)
CONSTANT Procs

VARIABLES
  signalled,
  blocked,   \* processes that wait for the signal
  released   \* processes a signal has released that have not yet gone on

vars == <<signalled, blocked, released>>

Init == signalled = FALSE /\ blocked = {} /\ released = {}

Block(p) ==
  /\ ~signalled
  /\ p \notin blocked \cup released
  /\ blocked' = blocked \cup {p}
  /\ UNCHANGED <<signalled, released>>

Signal ==
  /\ signalled' = TRUE
  /\ blocked' = {}
  /\ released' = released \cup blocked

GoOn(p) ==
  /\ p \in released
  /\ released' = released \ {p}
  /\ UNCHANGED <<signalled, blocked>>

Reset ==
  /\ signalled' = FALSE
  /\ UNCHANGED <<blocked, released>>

Next ==
  \/ \E p \in Procs : Block(p) \/ GoOn(p)
  \/ Signal
  \/ Reset

Spec == Init /\ [][Next]_vars

=============================================================================
