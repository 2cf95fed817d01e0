------------------------------- MODULE MCHeap -------------------------------
(* An instance of HeapCalls for TLC. *)
EXTENDS HeapCalls, TLC

CONSTANTS t1, t2, cpu0

MCTasks == {t1, t2}
OneCpu == [t \in MCTasks |-> cpu0]
TaskSymmetry == Permutations(MCTasks)

=============================================================================
