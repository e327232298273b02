------------------------------- MODULE MCInput -------------------------------
(* Input.tla for TLC: the threads the kernel boots with.                    *)
EXTENDS Input

CONSTANTS idle, keyboard, mouse, gui, kb_wait, mouse_wait

\* The order of task_add in do_it_yourself: tasking, kb, mouse, gui.
BootList == <<idle, keyboard, mouse, gui>>
BootTasks == {idle, keyboard, mouse, gui}
BootPriority == [t \in BootTasks |-> IF t = idle THEN -1 ELSE 1]
BootQueues == {kb_wait, mouse_wait}
BootOwner == [w \in BootQueues |-> IF w = kb_wait THEN keyboard ELSE mouse]
BootWaitOf == [d \in {keyboard, mouse} |-> IF d = keyboard THEN kb_wait ELSE mouse_wait]
BootEvents == [d \in {keyboard} |-> {"send", "zero"}]

\* The same without the mouse.
KeyboardList == <<idle, keyboard, gui>>
KeyboardTasks == {idle, keyboard, gui}
KeyboardPriority == [t \in KeyboardTasks |-> IF t = idle THEN -1 ELSE 1]
KeyboardOwner == [w \in {kb_wait} |-> keyboard]
KeyboardWaitOf == [d \in {keyboard} |-> kb_wait]
KeyEvents == [d \in {keyboard} |-> {"send", "skip"}]
=============================================================================
