---------------------------- MODULE MCScheduler ----------------------------
(* Instances of Scheduler for TLC: one CPU with main, the idle task and two more. *)
EXTENDS Scheduler

CONSTANTS main, idle, a, b

MCTasks == {main, idle, a, b}
MCNoIdle == {main, a}

============================================================================
