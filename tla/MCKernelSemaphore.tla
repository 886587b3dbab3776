------------------------- MODULE MCKernelSemaphore --------------------------
(* KernelSemaphore with two tasks. *)
EXTENDS KernelSemaphore, TLC

CONSTANTS t1, t2

TwoTasks == {t1, t2}
=============================================================================
