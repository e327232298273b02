------------------------------ MODULE MCKernel ------------------------------
(* Kernel.tla for TLC: the idle thread and two threads, the first of which  *)
(* owns a wait queue.                                                       *)
EXTENDS Kernel

CONSTANTS idle, a, b, q

MCTasks == {idle, a, b}
MCList == <<idle, a, b>>
MCPriority == [t \in MCTasks |-> IF t = idle THEN -1 ELSE 1]
MCOwner == [w \in {q} |-> a]
=============================================================================
