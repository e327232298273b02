-------------------------------- MODULE Input --------------------------------
(***************************************************************************)
(* The input path of DiyOS on the kernel of Kernel.tla: device interrupts   *)
(* put scan codes (drivers/kb.c) and packets (drivers/mouse.c) on a device  *)
(* queue and wake the driver's thread, which sends each of them to every    *)
(* listening thread and sleeps on its wait queue; the GUI thread            *)
(* (gui/gui.c, gui_main) reads its messages with interrupts disabled and    *)
(* blocks.                                                                  *)
(*                                                                          *)
(* Every action is a call of Kernel.tla, or a step of the thread's own code *)
(* that leaves the kernel alone.  An event is what the driver makes of it:  *)
(*   "send"  a key or a mouse packet, which is sent on                      *)
(*   "skip"  a scan code convert() turns into 0: not sent                   *)
(*   "zero"  the scan code 0, which queue_remove's caller takes for NULL    *)
(***************************************************************************)
EXTENDS Kernel

CONSTANTS Drivers,      \* the driver threads, keyboard and mouse
          Mice,         \* the driver threads served by mouse_handler
          Gui,          \* the GUI thread
          WaitOf,       \* each driver's wait queue
          Events,       \* the events of each keyboard
          MaxPackets,   \* bound on the packets one mouse interrupt reads
          DeviceSize,   \* capacity of kb_queue (16) and mouse_queue (32)
          BootListen,   \* the threads whose unset t->listen may be found nonzero
          MaxIrqs       \* bound on the number of device interrupts

ASSUME InputAssumption ==
    /\ Drivers \subseteq Tasks \ {Idle}
    /\ Gui \in Tasks \ ({Idle} \cup Drivers)
    /\ WaitOf \in [Drivers -> WaitQueues]
    /\ \A d \in Drivers : Owner[WaitOf[d]] = d
    /\ Mice \subseteq Drivers
    /\ Events \in [Drivers \ Mice -> SUBSET {"send", "skip", "zero"}]
    /\ MaxPackets \in Nat
    /\ DeviceSize \in Nat \ {0}
    /\ BootListen \subseteq Tasks
    /\ MaxIrqs \in Nat
    /\ 0 \in Timeouts

VARIABLES devq,     \* kb_queue and mouse_queue
          listen,   \* the threads with a nonzero t->listen
          step,     \* where each thread is in its own code
          cursor,   \* how far a driver's task_foreach has come
          irqs,     \* device interrupts so far
          unacked   \* the mice whose last interrupt was never acknowledged

ivars == <<devq, listen, step, cursor, irqs, unacked>>
allvars == <<vars, ivars>>

Threads == Drivers \cup {Gui}

Step(t, from, to) == step[t] = from /\ step' = [step EXCEPT ![t] = to]

-----------------------------------------------------------------------------
(* keyboad_task and mouse_task.                                             *)

\* (variant) one event per wake-up: "if" for "while"
driver_take_one(d) ==
    /\ At(d, "run")
    /\ devq[d] # <<>>
    /\ Head(devq[d]) # "zero"
    /\ devq' = [devq EXCEPT ![d] = Tail(@)]
    /\ Step(d, "drain", "sleep")
    /\ UNCHANGED <<vars, listen, cursor, irqs, unacked>>

\* while( ( ... = queue_remove(&...) ) != NULL )
driver_take(d) ==
    /\ At(d, "run")
    /\ devq[d] # <<>>
    /\ Head(devq[d]) # "zero"
    /\ devq' = [devq EXCEPT ![d] = Tail(@)]
    /\ Step(d, "drain", IF Head(devq[d]) = "send" THEN "each" ELSE "drain")
    /\ cursor' = [cursor EXCEPT ![d] = 1]
    /\ UNCHANGED <<vars, listen, irqs, unacked>>

\* queue_remove returned NULL: the queue is empty, or its first word is 0.
driver_drained(d) ==
    /\ At(d, "run")
    /\ \/ devq[d] = <<>> /\ UNCHANGED devq
       \/ devq[d] # <<>> /\ Head(devq[d]) = "zero" /\ devq' = [devq EXCEPT ![d] = Tail(@)]
    /\ Step(d, "drain", "sleep")
    /\ UNCHANGED <<vars, listen, cursor, irqs, unacked>>

\* task_foreach(keyboard_listen, packet).  "t->listen && KEYBOARD" holds for
\* every thread that listens to anything.
Listener(i) == i \in 1..Len(List) /\ List[i] \in listen

driver_send(d) ==
    /\ step[d] = "each"
    /\ \E i \in 1..Len(List) : /\ i >= cursor[d] /\ Listener(i)
                               /\ \A j \in cursor[d] .. i - 1 : ~Listener(j)
                               /\ message_to(d, List[i])
                               /\ cursor' = [cursor EXCEPT ![d] = i + 1]
    /\ UNCHANGED <<devq, listen, step, irqs, unacked>>

driver_sent(d) ==
    /\ At(d, "run")
    /\ \A i \in cursor[d] .. Len(List) : ~Listener(i)
    /\ Step(d, "each", "drain")
    /\ cursor' = [cursor EXCEPT ![d] = 1]
    /\ UNCHANGED <<vars, devq, listen, irqs, unacked>>

\* sleep_on(&kb_wait, NULL)
driver_sleep(d) ==
    /\ sleep_on(d, WaitOf[d], 0)
    /\ Step(d, "sleep", "drain")
    /\ UNCHANGED <<devq, listen, cursor, irqs, unacked>>

Driver(d) == driver_take(d) \/ driver_drained(d) \/ driver_send(d)
             \/ driver_sent(d) \/ driver_sleep(d)

-----------------------------------------------------------------------------
(* gui_main.                                                                *)

\* disable(); ... task_listen( KEYBOARD | MOUSE )
gui_setup ==
    /\ disable(Gui)
    /\ Step(Gui, "boot", "set_up")
    /\ listen' = listen \cup {Gui}
    /\ UNCHANGED <<devq, cursor, irqs, unacked>>

\* gui_draw(); gfx_flip(); enable()
gui_set_up ==
    /\ enable(Gui)
    /\ Step(Gui, "set_up", "top")
    /\ UNCHANGED <<devq, listen, cursor, irqs, unacked>>

gui_top ==
    /\ disable(Gui)
    /\ Step(Gui, "top", "read")
    /\ UNCHANGED <<devq, listen, cursor, irqs, unacked>>

\* while( (msg = message()) != NULL )
gui_read ==
    /\ step[Gui] = "read"
    /\ inbox[Gui] > 0
    /\ message(Gui)
    /\ UNCHANGED ivars

\* message() returned NULL: draw, flip and enable interrupts ...
gui_drawn ==
    /\ inbox[Gui] = 0
    /\ enable(Gui)
    /\ Step(Gui, "read", "block")
    /\ UNCHANGED <<devq, listen, cursor, irqs, unacked>>

\* (variant) the thread is marked BLOCKED but schedule() is not called
gui_block_noschedule ==
    /\ At(Gui, "run")
    /\ status' = [status EXCEPT ![Gui] = "BLOCKED"]
    /\ Step(Gui, "block", "top")
    /\ UNCHANGED <<timeout, inbox, waitq, running, irqOff, pc, locals, devq, listen, cursor, irqs, unacked>>

\* (variant) the loop polls instead of blocking
gui_block_poll ==
    /\ At(Gui, "run")
    /\ Step(Gui, "block", "top")
    /\ UNCHANGED <<vars, devq, listen, cursor, irqs, unacked>>

\* ... and only then block.
gui_block ==
    /\ task_block(Gui)
    /\ Step(Gui, "block", "top")
    /\ UNCHANGED <<devq, listen, cursor, irqs, unacked>>

gui_main == gui_setup \/ gui_set_up \/ gui_top \/ gui_read \/ gui_drawn \/ gui_block

-----------------------------------------------------------------------------
(* Device interrupts.                                                       *)

\* queue_add of each of the words es.
Queued(q, es) == LET all == q \o es
                 IN  IF Len(all) <= DeviceSize THEN all ELSE SubSeq(all, 1, DeviceSize)

keyboard_handler(d) ==
    /\ irqs < MaxIrqs
    /\ irqs' = irqs + 1
    /\ \E e \in Events[d] : devq' = [devq EXCEPT ![d] = Queued(@, <<e>>)]
    /\ wake_up(WaitOf[d])
    /\ UNCHANGED <<listen, step, cursor, unacked>>

\* The handler reads what the controller holds, which may be any number of
\* packets and part of one, and wakes the thread even when there is none.  A
\* first byte without its sync bit makes it return at once, neither waking the
\* thread nor acknowledging the interrupt: the PIC then sends no other.
mouse_handler(d) ==
    /\ irqs < MaxIrqs
    /\ d \notin unacked
    /\ irqs' = irqs + 1
    /\ \E n \in 0 .. MaxPackets :
          devq' = [devq EXCEPT ![d] = Queued(@, [i \in 1..n |-> "send"])]
    /\ \/ wake_up(WaitOf[d]) /\ UNCHANGED unacked
       \/ InterruptsOn /\ unacked' = unacked \cup {d} /\ UNCHANGED vars
    /\ UNCHANGED <<listen, step, cursor>>

device_irq == \/ \E d \in Drivers \ Mice : keyboard_handler(d)
              \/ \E d \in Mice : mouse_handler(d)

tick == timer_handler /\ UNCHANGED ivars

\* The thread on the processor executes its next step.
Execute == \/ \E d \in Drivers : Driver(d)
           \/ gui_main
           \/ \E t \in Threads : Continue(t) /\ UNCHANGED ivars

IInit == /\ Init
         /\ devq = [d \in Drivers |-> <<>>]
         /\ listen \in SUBSET BootListen
         /\ step = [t \in Threads |-> IF t = Gui THEN "boot" ELSE "drain"]
         /\ cursor = [d \in Drivers |-> 1]
         /\ irqs = 0
         /\ unacked = {}

INext == Execute \/ tick \/ device_irq

ISafety == IInit /\ [][INext]_allvars

\* The processor never stops executing, and the timer keeps interrupting it: a
\* tick that arrives with interrupts disabled stays pending in the PIC, so it
\* is taken once they are enabled again.
ISpec == /\ ISafety
         /\ WF_allvars(Execute)
         /\ SF_allvars(tick)

-----------------------------------------------------------------------------
(* Properties.                                                              *)

\* The threads use the kernel only through its calls: what Kernel.tla shows of
\* every program holds of this one.
UsesKernel == Init /\ [][Next]_vars

\* A schedule() that ran off the task list has stopped the machine
\* (ScheduleRunsThread); the properties below are about the runs where none did.
Lost == running = NoTask

\* No thread that is READY is kept from the processor for ever by a burst of
\* interrupts, although schedule() always prefers the first of the list and
\* may act on a stale pick.
ReadyRuns == \A t \in Threads : (status[t] = "READY") ~> (running = t \/ Lost)

\* When the interrupts stop, the threads fall asleep: spurious wake-ups and
\* stale picks die out and the processor ends in the idle loop.
EventuallyIdle == <>[](running = Idle \/ Lost)

\* A wake-up that finds the driver asleep is not lost: a driver made READY
\* inside sleep_on, with events on its queue, drains the queue.  (A scan code
\* 0 would end the drain early: the run that checks this has none.)
WokenDriverDrains ==
    \A d \in Drivers : (devq[d] # <<>> /\ status[d] = "READY" /\ sleepq[d] # NoQueue)
                           ~> (devq[d] = <<>> \/ Lost)

\* gui/gui.c:47 says of the loop that precedes task_block: "read all
\* messages".  A message in the GUI's queue is eventually read.
GuiReadsAllMessages == (inbox[Gui] > 0) ~> (inbox[Gui] = 0 \/ Lost)
=============================================================================
