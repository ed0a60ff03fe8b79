---------------------------- MODULE MCScheduler ----------------------------
(***************************************************************************)
(* The programs of the Scheduler runs: how many tasks each run() finds in  *)
(* tasks.                                                                  *)
(***************************************************************************)
EXTENDS Scheduler

\* One run() of three tasks.
ThreeTasks == <<3>>

\* A run() without tasks, as in test/spdk_module.cpp, then one with tasks.
EmptyThenThree == <<0, 3>>

\* A run() without tasks.
NoTasks == <<0>>

\* One run() of two tasks.
OneRun == <<2>>

\* Two tests in one process, as in test/condvar.cpp.
TwoTests == <<1, 2>>

=============================================================================
