-------------------------- MODULE MCSchedulerLock --------------------------
(* Instance of SchedulerLock for TLC: two processes, two overlapping cycles
   each, pools of two connections. *)
EXTENDS SchedulerLock
=============================================================================
