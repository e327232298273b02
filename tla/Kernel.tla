-------------------------------- MODULE Kernel --------------------------------
(***************************************************************************)
(* The multitasking core of DiyOS: kernel/task.c, kernel/schedule.c,        *)
(* kernel/thread.c, kernel/message.c, drivers/timer.c, lib/system/sleep.c   *)
(* and the context switch of kernel/x86/switch_to.asm, on one processor.    *)
(*                                                                          *)
(* Threads run kernel code with interrupts enabled, so the timer interrupt  *)
(* may arrive between any two of their steps and switch to another thread;  *)
(* interrupt handlers and fault handlers run to their end.  pc[t] says      *)
(* where in a kernel call thread t is; a thread at "run" is in its own code *)
(* and may make any call next; Input.tla gives the threads their programs.  *)
(*                                                                          *)
(* Message queues and wait queues are the lossy bounded FIFOs that          *)
(* lib/queue.c implements (Queue.tla, QueueProofs.tla); what an interrupt   *)
(* inside a queue call does is the subject of PreemptedQueue.tla.           *)
(***************************************************************************)
EXTENDS Integers, Sequences

CONSTANTS Tasks,        \* the threads on the task list
          Idle,         \* the idle thread
          List,         \* the task list: the order of task_add
          Priority,     \* t->priority
          WaitQueues,   \* the wait queues threads sleep on (kb_wait, mouse_wait)
          Owner,        \* the one thread that sleeps on each of them
          WaitSize,     \* capacity of a wait queue (8)
          InboxSize,    \* capacity of a message queue (32)
          Tick,         \* milliseconds per timer interrupt, 1000/HZ_FREQUENCY
          Word,         \* number of values of a uint32_t
          Timeouts,     \* timeouts found in new threads and passed to sleep
          NoTask,       \* NULL
          NoQueue       \* not sleeping on any wait queue

ASSUME TaskAssumption == /\ Idle \in Tasks
                         /\ NoTask \notin Tasks
                         /\ Priority \in [Tasks -> Int]
                         /\ \A t \in Tasks : Priority[t] > -127

ASSUME ListAssumption == /\ List \in Seq(Tasks)
                         /\ \A t \in Tasks : \E i \in 1..Len(List) : List[i] = t
                         /\ \A i, j \in 1..Len(List) : List[i] = List[j] => i = j

ASSUME WaitAssumption == /\ Owner \in [WaitQueues -> Tasks \ {Idle}]
                         /\ NoQueue \notin WaitQueues
                         /\ WaitSize \in Nat \ {0}
                         /\ InboxSize \in Nat \ {0}

ASSUME TimeAssumption == /\ Word \in Nat
                         /\ Tick \in 1 .. Word - 1
                         /\ Timeouts \subseteq 0 .. Word - 1

VARIABLES status,   \* t->status
          timeout,  \* t->timeout
          inbox,    \* t->message_queue: how many messages it holds
          waitq,    \* the threads on each wait queue
          running,  \* running_task
          irqOff,   \* the threads whose EFLAGS.IF is clear
          pc,       \* where each thread is
          prio,     \* schedule's p, for a thread in one of its two passes
          pos,      \* task_foreach's item, for such a thread
          pick,     \* schedule's t, for a thread about to switch
          dest,     \* message_to's t, for a thread inside message_to
          sleepq,   \* sleep_on's q, for a thread inside sleep_on
          sleepms   \* sleep_on's *timeout (0 for NULL)

locals == <<prio, pos, pick, dest, sleepq, sleepms>>
vars == <<status, timeout, inbox, waitq, running, irqOff, pc, locals>>

Ready(st) == {t \in Tasks : st[t] = "READY"}

\* Where each thread stands on the task list.
ListPos == [t \in Tasks |-> CHOOSE i \in 1..Len(List) : List[i] = t]

-----------------------------------------------------------------------------
(* schedule(): two passes of task_foreach over the task list.               *)

\* What the first pass makes of p, and whether the second stops, at thread u.
_find_higher_priority(u, p) == IF status[u] = "READY" /\ Priority[u] > p THEN Priority[u] ELSE p

_higher_task(u, p) == status[u] = "READY" /\ Priority[u] = p

\* Both passes with interrupts disabled, as an interrupt handler makes them:
\* u is the first of the READY threads with the highest priority.
Schedule(st, u) ==
    /\ u \in Ready(st)
    /\ \A t \in Ready(st) : \/ Priority[t] < Priority[u]
                            \/ Priority[t] = Priority[u] /\ ListPos[u] <= ListPos[t]

\* The thread whose code the processor executes, in its own code.
At(t, where) == running = t /\ t # Idle /\ pc[t] = where

Goto(t, where) == pc' = [pc EXCEPT ![t] = where]

\* A thread makes the passes with interrupts enabled, one list item a step:
\* statuses may change behind it, and other threads run, before it goes on.
schedule_pass1(t) ==
    /\ At(t, "sched")
    /\ prio' = [prio EXCEPT ![t] = _find_higher_priority(List[pos[t]], @)]
    /\ \/ pos[t] < Len(List) /\ pos' = [pos EXCEPT ![t] = @ + 1] /\ UNCHANGED pc
       \/ pos[t] = Len(List) /\ pos' = [pos EXCEPT ![t] = 1] /\ Goto(t, "scan")
    /\ UNCHANGED <<status, timeout, inbox, waitq, running, irqOff, pick, dest, sleepq, sleepms>>

schedule_pass2(t) ==
    /\ At(t, "scan")
    /\ ~_higher_task(List[pos[t]], prio[t])
    /\ pos[t] < Len(List)
    /\ pos' = [pos EXCEPT ![t] = @ + 1]
    /\ UNCHANGED <<status, timeout, inbox, waitq, running, irqOff, pc, prio, pick, dest, sleepq, sleepms>>

\* The second pass ends.  Past the last item task_foreach has no return
\* statement: its caller gets what the loop's test left in eax, the NULL item.
schedule_pick(t) ==
    /\ At(t, "scan")
    /\ \/ /\ _higher_task(List[pos[t]], prio[t])
          /\ pick' = [pick EXCEPT ![t] = List[pos[t]]]
       \/ /\ ~_higher_task(List[pos[t]], prio[t])
          /\ pos[t] = Len(List)
          /\ pick' = [pick EXCEPT ![t] = NoTask]
    /\ prio' = [prio EXCEPT ![t] = -127]
    /\ pos' = [pos EXCEPT ![t] = 1]
    /\ Goto(t, "picked")
    /\ UNCHANGED <<status, timeout, inbox, waitq, running, irqOff, dest, sleepq, sleepms>>

\* switch_to: the thread stops here, and goes on from here when some switch
\* comes back to it.  EFLAGS, and with it IF, is saved and restored per thread.
\* A NULL thread has its page directory and its stack read from low memory:
\* the machine is lost, and no thread and no handler runs any more.
switch_to(t) ==
    /\ At(t, "picked")
    /\ running' = pick[t]
    /\ pick' = [pick EXCEPT ![t] = NoTask]
    /\ Goto(t, "ret")
    /\ UNCHANGED <<status, timeout, inbox, waitq, irqOff, prio, pos, dest, sleepq, sleepms>>

\* Back from schedule(), and from the call that made it.
return(t) ==
    /\ At(t, "ret")
    /\ sleepq' = [sleepq EXCEPT ![t] = NoQueue]
    /\ Goto(t, "run")
    /\ UNCHANGED <<status, timeout, inbox, waitq, running, irqOff, prio, pos, pick, dest, sleepms>>

-----------------------------------------------------------------------------
(* Calls that block.                                                        *)

task_block(t) ==
    /\ At(t, "run")
    /\ status' = [status EXCEPT ![t] = "BLOCKED"]
    /\ Goto(t, "sched")
    /\ UNCHANGED <<timeout, inbox, waitq, running, irqOff, locals>>

sleep(t, ms) ==
    /\ At(t, "run")
    /\ timeout' = [timeout EXCEPT ![t] = ms]
    /\ Goto(t, "sleep")
    /\ UNCHANGED <<status, inbox, waitq, running, irqOff, locals>>

sleep_block(t) ==
    /\ At(t, "sleep")
    /\ status' = [status EXCEPT ![t] = "BLOCKED"]
    /\ Goto(t, "sched")
    /\ UNCHANGED <<timeout, inbox, waitq, running, irqOff, locals>>

\* sleep_on_without_lock, whose lock is NULL in every call of the kernel.
sleep_on(t, q, ms) ==
    /\ At(t, "run")
    /\ Owner[q] = t
    /\ status' = [status EXCEPT ![t] = "BLOCKED"]
    /\ sleepq' = [sleepq EXCEPT ![t] = q]
    /\ sleepms' = [sleepms EXCEPT ![t] = ms]
    /\ Goto(t, "sleep_on")
    /\ UNCHANGED <<timeout, inbox, waitq, running, irqOff, prio, pos, pick, dest>>

\* queue_add(q, t): dropped without notice when q is full.
sleep_on_add(t) ==
    /\ At(t, "sleep_on")
    /\ waitq' = [waitq EXCEPT ![sleepq[t]] = IF Len(@) < WaitSize THEN Append(@, t) ELSE @]
    /\ Goto(t, "sleep_to")
    /\ UNCHANGED <<status, timeout, inbox, running, irqOff, locals>>

sleep_on_timeout(t) ==
    /\ At(t, "sleep_to")
    /\ timeout' = [timeout EXCEPT ![t] = sleepms[t]]
    /\ sleepms' = [sleepms EXCEPT ![t] = 0]
    /\ Goto(t, "sched")
    /\ UNCHANGED <<status, inbox, waitq, running, irqOff, prio, pos, pick, dest, sleepq>>

-----------------------------------------------------------------------------
(* Messages, and the interrupt flag.                                        *)

\* message_to finds the receiver, allocates the message and queues it ...
message_to(t, to) ==
    /\ At(t, "run")
    /\ inbox' = [inbox EXCEPT ![to] = IF @ < InboxSize THEN @ + 1 ELSE @]
    /\ dest' = [dest EXCEPT ![t] = to]
    /\ Goto(t, "msg")
    /\ UNCHANGED <<status, timeout, waitq, running, irqOff, prio, pos, pick, sleepq, sleepms>>

\* ... then makes the receiver READY, whatever it was.
message_to_ready(t) ==
    /\ At(t, "msg")
    /\ status' = [status EXCEPT ![dest[t]] = "READY"]
    /\ dest' = [dest EXCEPT ![t] = NoTask]
    /\ Goto(t, "run")
    /\ UNCHANGED <<timeout, inbox, waitq, running, irqOff, prio, pos, pick, sleepq, sleepms>>

message(t) ==
    /\ At(t, "run")
    /\ inbox' = [inbox EXCEPT ![t] = IF @ = 0 THEN 0 ELSE @ - 1]
    /\ UNCHANGED <<status, timeout, waitq, running, irqOff, pc, locals>>

disable(t) ==
    /\ At(t, "run")
    /\ irqOff' = irqOff \cup {t}
    /\ UNCHANGED <<status, timeout, inbox, waitq, running, pc, locals>>

enable(t) ==
    /\ At(t, "run")
    /\ irqOff' = irqOff \ {t}
    /\ UNCHANGED <<status, timeout, inbox, waitq, running, pc, locals>>

-----------------------------------------------------------------------------
(* Interrupt and fault handlers: they run with interrupts disabled, in one  *)
(* step, on top of whatever the running thread was doing.                   *)

InterruptsOn == running # NoTask /\ running \notin irqOff

\* (variant) the test for a running timeout is missing
TimeoutAfterTick_unguarded(ms) == ms - Tick

\* update_timeout for one thread: unsigned, so a timeout that is not a
\* multiple of Tick wraps around instead of reaching zero.
TimeoutAfterTick(ms) == IF ms = 0 THEN 0
                        ELSE IF ms >= Tick THEN ms - Tick ELSE ms - Tick + Word

update_timeout(t) == timeout[t] > 0 /\ TimeoutAfterTick(timeout[t]) = 0

\* (variant) the handler returns to the interrupted thread
timer_handler_noschedule ==
    /\ InterruptsOn
    /\ timeout' = [t \in Tasks |-> TimeoutAfterTick(timeout[t])]
    /\ status' = [t \in Tasks |-> IF update_timeout(t) THEN "READY" ELSE status[t]]
    /\ UNCHANGED <<inbox, waitq, running, irqOff, pc, locals>>

timer_handler ==
    /\ InterruptsOn
    /\ timeout' = [t \in Tasks |-> TimeoutAfterTick(timeout[t])]
    /\ status' = [t \in Tasks |-> IF update_timeout(t) THEN "READY" ELSE status[t]]
    /\ \E u \in Tasks : Schedule(status', u) /\ running' = u
    /\ UNCHANGED <<inbox, waitq, irqOff, pc, locals>>

\* (variant) the thread is popped but not made READY
wake_up_pop(q) ==
    /\ InterruptsOn
    /\ waitq' = [waitq EXCEPT ![q] = IF @ = <<>> THEN @ ELSE Tail(@)]
    /\ UNCHANGED <<status, timeout, inbox, running, irqOff, pc, locals>>

\* wake_up, which only device interrupt handlers call.
wake_up(q) ==
    /\ InterruptsOn
    /\ \/ /\ waitq[q] = <<>>
          /\ UNCHANGED <<status, waitq>>
       \/ /\ waitq[q] # <<>>
          /\ status' = [status EXCEPT ![Head(waitq[q])] = "READY"]
          /\ waitq' = [waitq EXCEPT ![q] = Tail(@)]
    /\ UNCHANGED <<timeout, inbox, running, irqOff, pc, locals>>

\* (variant) the dead thread goes on: schedule() is not called
task_exit_noschedule(t) ==
    /\ running = t /\ t # Idle
    /\ status' = [status EXCEPT ![t] = "DEAD"]
    /\ UNCHANGED <<timeout, inbox, waitq, running, irqOff, pc, locals>>

\* isr_fault kills the thread that faulted.  wait4pid is never set, so
\* task_wake_after_dead wakes nobody, and the thread stays on the list.
\* A message makes it READY again: it then returns from schedule() and from the
\* handler to where it was, to fault again or go on.
task_exit(t) ==
    /\ running = t /\ t # Idle
    /\ status' = [status EXCEPT ![t] = "DEAD"]
    /\ \E u \in Tasks : Schedule(status', u) /\ running' = u
    /\ UNCHANGED <<timeout, inbox, waitq, irqOff, pc, locals>>

-----------------------------------------------------------------------------
\* tasking, kb, mouse and gui have added their threads and do_it_yourself
\* calls schedule() for the first time.  thread_create leaves t->timeout as
\* malloc found it.
Init ==
    /\ status = [t \in Tasks |-> "READY"]
    /\ timeout \in [Tasks -> Timeouts]
    /\ inbox = [t \in Tasks |-> 0]
    /\ waitq = [q \in WaitQueues |-> <<>>]
    /\ running \in Tasks /\ Schedule(status, running)
    /\ irqOff = {}
    /\ pc = [t \in Tasks |-> "run"]
    /\ prio = [t \in Tasks |-> -127]
    /\ pos = [t \in Tasks |-> 1]
    /\ pick = [t \in Tasks |-> NoTask]
    /\ dest = [t \in Tasks |-> NoTask]
    /\ sleepq = [t \in Tasks |-> NoQueue]
    /\ sleepms = [t \in Tasks |-> 0]

\* A call the thread's own code may make.
Call(t) == \/ task_block(t)
           \/ \E ms \in Timeouts : sleep(t, ms)
           \/ \E q \in WaitQueues, ms \in Timeouts : sleep_on(t, q, ms)
           \/ \E to \in Tasks : message_to(t, to)
           \/ message(t)
           \/ disable(t)
           \/ enable(t)

\* A step inside a call.
Continue(t) == \/ sleep_block(t)
               \/ sleep_on_add(t)
               \/ sleep_on_timeout(t)
               \/ message_to_ready(t)
               \/ schedule_pass1(t)
               \/ schedule_pass2(t)
               \/ schedule_pick(t)
               \/ switch_to(t)
               \/ return(t)

Next == \/ \E t \in Tasks : Call(t) \/ Continue(t) \/ task_exit(t)
        \/ \E q \in WaitQueues : wake_up(q)
        \/ timer_handler

Spec == Init /\ [][Next]_vars

-----------------------------------------------------------------------------
(* Properties.                                                              *)

Places == {"run", "sleep", "sleep_on", "sleep_to", "msg", "sched", "scan", "picked", "ret"}

TypeOK ==
    /\ status \in [Tasks -> {"READY", "BLOCKED", "DEAD"}]
    /\ timeout \in [Tasks -> 0 .. Word - 1]
    /\ inbox \in [Tasks -> 0 .. InboxSize]
    /\ waitq \in [WaitQueues -> Seq(Tasks)]
    /\ running \in Tasks \cup {NoTask}
    /\ irqOff \subseteq Tasks
    /\ pc \in [Tasks -> Places]
    /\ prio \in [Tasks -> Int]
    /\ pos \in [Tasks -> 1 .. Len(List)]
    /\ pick \in [Tasks -> Tasks \cup {NoTask}]
    /\ dest \in [Tasks -> Tasks \cup {NoTask}]
    /\ sleepq \in [Tasks -> WaitQueues \cup {NoQueue}]
    /\ sleepms \in [Tasks -> 0 .. Word - 1]

\* kernel/do_it_yourself.c:59 says of schedule(): "run a kernel thread".  The
\* processor is always given to a thread of the list, although the timer may
\* run any number of other threads in the middle of the two passes.
ScheduleRunsThread == running # NoTask

\* A thread that is BLOCKED in sleep_on, past its queue_add, is on the wait
\* queue it sleeps on, so the next wake_up calls can reach it: it is never
\* popped without being made READY, and a full wait queue that drops it
\* already holds it.
SleeperIsQueued ==
    \A t \in Tasks : /\ sleepq[t] # NoQueue
                     /\ pc[t] # "sleep_on"
                     /\ status[t] = "BLOCKED"
                     => \E i \in 1..Len(waitq[sleepq[t]]) : waitq[sleepq[t]][i] = t

\* A stale pick may resume a thread nobody woke: it comes back from its
\* schedule() still BLOCKED.  That only happens while some other thread is
\* READY and waiting, so the thread on the processor loses it at the next
\* tick; and no thread is ever resumed unwoken when all others sleep.
UnwokenResume ==
    running # NoTask /\ pc[running] = "ret" /\ status[running] # "READY"
        => \E t \in Tasks \ {Idle, running} : status[t] = "READY"
=============================================================================
