--------------------------- MODULE MCKernelTimer ---------------------------
(* Instances of KernelTimer for TLC: the CPU that ticks and one that does not. *)
EXTENDS KernelTimer

CONSTANTS cpu0, cpu3

MCCPUs == {cpu0, cpu3}

============================================================================
