----------------------------- MODULE MCCritical -----------------------------
(* An instance of Critical for TLC: the tasks of one CPU and its handler. *)
EXTENDS Critical, TLC

CONSTANTS a, b, c

MCTasks == {a, b, c}
TaskSymmetry == Permutations(MCTasks)

============================================================================
