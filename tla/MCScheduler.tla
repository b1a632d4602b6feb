---------------------------- MODULE MCScheduler ----------------------------
(* Scheduler for TLC: two workers, two tasks and one restart.              *)
EXTENDS Scheduler
=============================================================================
