---------------------------- MODULE KernelProofs ----------------------------
(***************************************************************************)
(* Proofs about the multitasking core, for any number of threads of any     *)
(* priorities, making any calls in any order, any wait queues with one      *)
(* sleeper each, and any capacities.  The input path of Input.tla makes      *)
(* kernel steps only, so what holds of every program holds of it.           *)
(***************************************************************************)
EXTENDS Input, TLAPS

\* The idle thread never leaves its loop.
IdleInv == status[Idle] = "READY" /\ pc[Idle] = "run"

TopReady == \E u \in Tasks \ {Idle} : status[u] = "READY"

\* What schedule's pick is worth to the thread on the processor: if the
\* picked thread has stopped being READY, or the thread came back unwoken,
\* then some thread other than idle is READY.
ScheduleInv ==
    running # NoTask =>
    /\ pc[running] = "picked" /\ pick[running] # NoTask /\ status[pick[running]] # "READY"
           => TopReady
    /\ pc[running] = "ret" /\ status[running] # "READY" => TopReady

\* Only its owner is ever on a wait queue.
OwnerInv ==
    /\ \A q \in WaitQueues : \A i \in 1..Len(waitq[q]) : waitq[q][i] = Owner[q]
    /\ \A t \in Tasks : sleepq[t] # NoQueue => Owner[sleepq[t]] = t
    /\ \A t \in Tasks : pc[t] = "sleep_on" => sleepq[t] # NoQueue

-----------------------------------------------------------------------------
\* The task list is not empty: it holds the idle thread.
LEMMA ListLength == Len(List) \in Nat /\ 1 \in 1 .. Len(List)
<1>1. Len(List) \in Nat
      BY ListAssumption
<1>2. PICK i \in 1 .. Len(List) : List[i] = Idle
      BY TaskAssumption, ListAssumption
<1> QED BY <1>1, <1>2

LEMMA ListNext == \A i \in 1 .. Len(List) : i < Len(List) => i + 1 \in 1 .. Len(List)
BY ListLength

LEMMA ListItems == \A i \in 1 .. Len(List) : List[i] \in Tasks
BY ListAssumption

\* The type invariant is kept by every step.
LEMMA TypeInit == Init => TypeOK
<1> SUFFICES ASSUME Init PROVE TypeOK
    OBVIOUS
<1> USE DEF Init
<1>1. timeout \in [Tasks -> 0 .. Word - 1] /\ sleepms \in [Tasks -> 0 .. Word - 1]
    <2>1. 0 \in 0 .. Word - 1 /\ \A ms \in Timeouts : ms \in 0 .. Word - 1
          BY TimeAssumption
    <2> QED BY <2>1
<1>2. inbox \in [Tasks -> 0 .. InboxSize] /\ waitq \in [WaitQueues -> Seq(Tasks)]
      BY WaitAssumption
<1>3. pc \in [Tasks -> Places] /\ prio \in [Tasks -> Int]
      BY DEF Places
<1>4. pos \in [Tasks -> 1 .. Len(List)]
      BY ListLength
<1> QED BY <1>1, <1>2, <1>3, <1>4 DEF TypeOK

LEMMA TypeNext == TypeOK /\ [Next]_vars => TypeOK'
<1> SUFFICES ASSUME TypeOK, [Next]_vars PROVE TypeOK'
    OBVIOUS
<1> USE TaskAssumption, WaitAssumption, TimeAssumption, ListLength DEF TypeOK, Places, At, Goto, locals
<1>1. ASSUME NEW t \in Tasks, Call(t) PROVE TypeOK'
    <2>1. CASE task_block(t)
          BY <2>1 DEF task_block
    <2>2. ASSUME NEW ms \in Timeouts, sleep(t, ms) PROVE TypeOK'
          BY <2>2 DEF sleep
    <2>3. ASSUME NEW q \in WaitQueues, NEW ms \in Timeouts, sleep_on(t, q, ms) PROVE TypeOK'
        <3>1. ms \in 0 .. Word - 1
              BY TimeAssumption
        <3> QED BY <2>3, <3>1 DEF sleep_on
    <2>4. ASSUME NEW to \in Tasks, message_to(t, to) PROVE TypeOK'
        <3>1. \A n \in 0 .. InboxSize : (IF n < InboxSize THEN n + 1 ELSE n) \in 0 .. InboxSize
              BY WaitAssumption
        <3>2. inbox' \in [Tasks -> 0 .. InboxSize]
              BY <2>4, <3>1 DEF message_to
        <3> QED BY <2>4, <3>2 DEF message_to
    <2>5. CASE message(t)
        <3>1. \A n \in 0 .. InboxSize : (IF n = 0 THEN 0 ELSE n - 1) \in 0 .. InboxSize
              BY WaitAssumption
        <3>2. inbox' \in [Tasks -> 0 .. InboxSize]
              BY <2>5, <3>1 DEF message
        <3> QED BY <2>5, <3>2 DEF message
    <2>6. CASE disable(t)
          BY <2>6 DEF disable
    <2>7. CASE enable(t)
          BY <2>7 DEF enable
    <2> QED BY <1>1, <2>1, <2>2, <2>3, <2>4, <2>5, <2>6, <2>7 DEF Call
<1>2. ASSUME NEW t \in Tasks, Continue(t) PROVE TypeOK'
    <2>1. CASE sleep_block(t)
          BY <2>1 DEF sleep_block
    <2>2. CASE sleep_on_add(t)
        <3>1. waitq' \in [WaitQueues -> Seq(Tasks)]
            <4>1. \A s \in Seq(Tasks) : (IF Len(s) < WaitSize THEN Append(s, t) ELSE s) \in Seq(Tasks)
                  OBVIOUS
            <4> QED BY <2>2, <4>1 DEF sleep_on_add
        <3> QED BY <2>2, <3>1 DEF sleep_on_add
    <2>3. CASE sleep_on_timeout(t)
        <3>1. 0 \in 0 .. Word - 1
              BY TimeAssumption
        <3>2. timeout' \in [Tasks -> 0 .. Word - 1] /\ sleepms' \in [Tasks -> 0 .. Word - 1]
              BY <2>3, <3>1 DEF sleep_on_timeout
        <3> QED BY <2>3, <3>2 DEF sleep_on_timeout
    <2>4. CASE message_to_ready(t)
          BY <2>4 DEF message_to_ready
    <2>5. CASE schedule_pass1(t)
        <3>1. pos[t] \in 1 .. Len(List) /\ List[pos[t]] \in Tasks
              BY ListItems
        <3>2. prio' \in [Tasks -> Int]
            <4>1. _find_higher_priority(List[pos[t]], prio[t]) \in Int
                  BY <3>1 DEF _find_higher_priority
            <4> QED BY <2>5, <4>1 DEF schedule_pass1
        <3>3. pos' \in [Tasks -> 1 .. Len(List)] /\ pc' \in [Tasks -> Places]
            <4>1. CASE pos[t] < Len(List)
                <5>1. pos' = [pos EXCEPT ![t] = pos[t] + 1] /\ UNCHANGED pc
                      BY <2>5, <4>1, ListLength, SMTT(30) DEF schedule_pass1
                <5>2. pos[t] + 1 \in 1 .. Len(List)
                      BY <3>1, <4>1, ListNext
                <5> QED BY <5>1, <5>2
            <4>2. CASE ~(pos[t] < Len(List))
                <5>1. pos' = [pos EXCEPT ![t] = 1] /\ pc' = [pc EXCEPT ![t] = "scan"]
                      BY <2>5, <4>2 DEF schedule_pass1
                <5> QED BY <5>1, ListLength
            <4> QED BY <4>1, <4>2
        <3> QED BY <2>5, <3>2, <3>3 DEF schedule_pass1
    <2>6. CASE schedule_pass2(t)
        <3>1. pos[t] + 1 \in 1 .. Len(List)
              BY <2>6, ListLength, SMTT(30) DEF schedule_pass2
        <3> QED BY <2>6, <3>1 DEF schedule_pass2
    <2>9. CASE schedule_pick(t)
        <3>1. List[pos[t]] \in Tasks
              BY ListItems
        <3>2. pick' \in [Tasks -> Tasks \cup {NoTask}]
            <4>1. \E u \in Tasks \cup {NoTask} : pick' = [pick EXCEPT ![t] = u]
                  BY <2>9, <3>1 DEF schedule_pick
            <4> QED BY <4>1
        <3>3. prio' \in [Tasks -> Int] /\ pos' \in [Tasks -> 1 .. Len(List)]
              BY <2>9, ListLength, SMTT(30) DEF schedule_pick
        <3> QED BY <2>9, <3>2, <3>3 DEF schedule_pick
    <2>7. CASE switch_to(t)
          BY <2>7 DEF switch_to
    <2>8. CASE return(t)
          BY <2>8 DEF return
    <2> QED BY <1>2, <2>1, <2>2, <2>3, <2>4, <2>5, <2>6, <2>7, <2>8, <2>9 DEF Continue
<1>3. ASSUME NEW t \in Tasks, task_exit(t) PROVE TypeOK'
      BY <1>3 DEF task_exit
<1>4. ASSUME NEW q \in WaitQueues, wake_up(q) PROVE TypeOK'
    <2>1. waitq' \in [WaitQueues -> Seq(Tasks)]
        <3>1. \A s \in Seq(Tasks) : s # <<>> => Tail(s) \in Seq(Tasks)
              OBVIOUS
        <3>2. CASE waitq[q] = <<>>
              BY <1>4, <3>2 DEF wake_up
        <3>3. CASE waitq[q] # <<>>
            <4>1. waitq' = [waitq EXCEPT ![q] = Tail(waitq[q])]
                  BY <1>4, <3>3 DEF wake_up
            <4> QED BY <3>1, <3>3, <4>1
        <3> QED BY <3>2, <3>3
    <2>2. status' \in [Tasks -> {"READY", "BLOCKED", "DEAD"}]
          BY <1>4 DEF wake_up
    <2> QED BY <1>4, <2>1, <2>2 DEF wake_up
<1>5. CASE timer_handler
    <2>1. ASSUME NEW ms \in 0 .. Word - 1 PROVE TimeoutAfterTick(ms) \in 0 .. Word - 1
          BY TimeAssumption, SMTT(30) DEF TimeoutAfterTick
    <2>2. timeout' \in [Tasks -> 0 .. Word - 1]
          BY <1>5, <2>1 DEF timer_handler
    <2> QED BY <1>5, <2>2 DEF timer_handler
<1>6. CASE UNCHANGED vars
      BY <1>6 DEF vars
<1> QED BY <1>1, <1>2, <1>3, <1>4, <1>5, <1>6 DEF Next

\* The kernel's state is well typed after every sequence of calls, interrupts
\* and faults: timeouts stay unsigned words, task_foreach stays on the list and
\* running_task is a thread or NULL.
THEOREM KernelTypeCorrect == Spec => []TypeOK
BY TypeInit, TypeNext, PTL DEF Spec
-----------------------------------------------------------------------------
(* The scheduler.                                                           *)

\* Idle makes no calls, and nobody but a thread itself takes its READY away.
LEMMA IdleNext == TypeOK /\ IdleInv /\ [Next]_vars => IdleInv'
<1> SUFFICES ASSUME TypeOK, IdleInv, [Next]_vars PROVE IdleInv'
    OBVIOUS
<1> USE TaskAssumption DEF TypeOK, IdleInv, At, Goto
<1>1. ASSUME NEW t \in Tasks, Call(t) PROVE IdleInv'
      BY <1>1 DEF Call, task_block, sleep, sleep_on, message_to, message, disable, enable
<1>2. ASSUME NEW t \in Tasks, Continue(t) PROVE IdleInv'
      BY <1>2 DEF Continue, sleep_block, sleep_on_add, sleep_on_timeout, message_to_ready,
                  schedule_pass1, schedule_pass2, schedule_pick, switch_to, return
<1>3. ASSUME NEW t \in Tasks, task_exit(t) PROVE IdleInv'
      BY <1>3 DEF task_exit
<1>4. ASSUME NEW q \in WaitQueues, wake_up(q) PROVE IdleInv'
      BY <1>4 DEF wake_up
<1>5. CASE timer_handler
      BY <1>5 DEF timer_handler
<1>6. CASE UNCHANGED vars
      BY <1>6 DEF vars
<1> QED BY <1>1, <1>2, <1>3, <1>4, <1>5, <1>6 DEF Next

\* A handler that runs schedule() to its end leaves a READY thread on the
\* processor, and that is all ScheduleInv asks of it.
LEMMA HandlerSwitch ==
    ASSUME TypeOK, TypeOK', IdleInv',
           NEW u \in Tasks, running' = u, Schedule(status', u)
    PROVE  ScheduleInv'
<1>1. status'[u] = "READY"
      BY DEF Schedule, Ready
<1>2. CASE u = Idle
      BY <1>2 DEF ScheduleInv, IdleInv
<1>3. CASE u # Idle
    <2>1. TopReady'
          BY <1>1, <1>3 DEF TopReady
    <2> QED BY <2>1 DEF ScheduleInv
<1> QED BY <1>2, <1>3

\* Every step keeps what is known of schedule's pick.
LEMMA ScheduleNext ==
    TypeOK /\ TypeOK' /\ IdleInv /\ IdleInv' /\ ScheduleInv /\ [Next]_vars => ScheduleInv'
<1> SUFFICES ASSUME TypeOK, TypeOK', IdleInv, IdleInv', ScheduleInv, [Next]_vars
             PROVE  ScheduleInv'
    OBVIOUS
<1>1. ASSUME NEW t \in Tasks, Call(t) PROVE ScheduleInv'
    <2>1. running' = t /\ pc'[t] \notin {"picked", "ret"}
          BY <1>1, ZenonT(30)
          DEF Call, task_block, sleep, sleep_on, message_to, message, disable, enable,
              At, Goto, TypeOK
    <2> QED BY <2>1 DEF ScheduleInv
<1>2. ASSUME NEW t \in Tasks, Continue(t) PROVE ScheduleInv'
    <2>1. ASSUME \/ sleep_block(t) \/ sleep_on_add(t) \/ sleep_on_timeout(t)
                 \/ message_to_ready(t) \/ schedule_pass1(t) \/ schedule_pass2(t) \/ return(t)
          PROVE  ScheduleInv'
        <3>1. running' = t /\ pc'[t] \notin {"picked", "ret"}
              BY <2>1 DEF sleep_block, sleep_on_add, sleep_on_timeout, message_to_ready,
                          schedule_pass1, schedule_pass2, return, At, Goto, TypeOK
        <3> QED BY <3>1 DEF ScheduleInv
    <2>2. CASE schedule_pick(t)
        <3>1. running' = t /\ pc'[t] = "picked" /\ UNCHANGED status
              BY <2>2 DEF schedule_pick, At, Goto, TypeOK
        <3>2. pick'[t] # NoTask => status[pick'[t]] = "READY"
              BY <2>2 DEF schedule_pick, _higher_task, TypeOK
        <3> QED BY <3>1, <3>2 DEF ScheduleInv
    <2>3. CASE switch_to(t)
        <3>1. /\ running = t /\ pc[t] = "picked"
              /\ running' = pick[t]
              /\ pc' = [pc EXCEPT ![t] = "ret"]
              /\ UNCHANGED status
              BY <2>3 DEF switch_to, At, Goto
        <3>2. t # NoTask
              BY TaskAssumption
        <3>3. CASE pick[t] = NoTask
              BY <3>1, <3>3 DEF ScheduleInv
        <3>4. CASE pick[t] = Idle
            <4>1. Idle # t
                  BY <2>3 DEF switch_to, At
            <4>2. running' = Idle /\ pc'[Idle] = "run"
                  BY <3>1, <3>4, <4>1 DEF IdleInv, TypeOK
            <4> QED BY <4>2 DEF ScheduleInv
        <3>5. CASE pick[t] \in Tasks \ {Idle}
            <4>1. pick[t] # NoTask
                  BY <3>5, TaskAssumption
            <4>2. TopReady
                  BY <3>1, <3>2, <3>5, <4>1 DEF ScheduleInv, TopReady
            <4>3. TopReady'
                  BY <3>1, <4>2 DEF TopReady
            <4> QED BY <4>3 DEF ScheduleInv
        <3> QED BY <3>3, <3>4, <3>5 DEF TypeOK
    <2> QED BY <1>2, <2>1, <2>2, <2>3 DEF Continue
<1>3. ASSUME NEW t \in Tasks, task_exit(t) PROVE ScheduleInv'
      BY <1>3, HandlerSwitch DEF task_exit
<1>4. ASSUME NEW q \in WaitQueues, wake_up(q) PROVE ScheduleInv'
    <2>1. UNCHANGED <<pc, pick, running>>
          BY <1>4 DEF wake_up, locals
    <2>2. \A u \in Tasks : status[u] = "READY" => status'[u] = "READY"
          BY <1>4 DEF wake_up, TypeOK
    <2>3. TopReady => TopReady'
          BY <2>2 DEF TopReady
    <2>4. running # NoTask => running \in Tasks /\ (pick[running] # NoTask => pick[running] \in Tasks)
          BY DEF TypeOK
    <2> QED BY <2>1, <2>2, <2>3, <2>4 DEF ScheduleInv
<1>5. CASE timer_handler
      BY <1>5, HandlerSwitch DEF timer_handler
<1>6. CASE UNCHANGED vars
      BY <1>6 DEF vars, ScheduleInv, TopReady, locals
<1> QED BY <1>1, <1>2, <1>3, <1>4, <1>5, <1>6 DEF Next

LEMMA ScheduleInit == Init => IdleInv /\ ScheduleInv
BY TaskAssumption DEF Init, IdleInv, ScheduleInv

\* A thread resumed without having been woken shares the machine with a READY
\* one.
THEOREM UnwokenResumeHolds == Spec => []UnwokenResume
<1>1. TypeOK /\ ScheduleInv => UnwokenResume
      BY DEF ScheduleInv, UnwokenResume, TopReady, TypeOK
<1> QED BY TypeInit, TypeNext, ScheduleInit, IdleNext, ScheduleNext, <1>1, PTL DEF Spec
-----------------------------------------------------------------------------
(* Wait queues.                                                             *)

\* A step that leaves the wait queues and the sleepers' places alone.
LEMMA OwnerFrame ==
    ASSUME TypeOK, OwnerInv, UNCHANGED <<waitq, sleepq>>,
           \A t \in Tasks : pc'[t] = "sleep_on" => pc[t] = "sleep_on"
    PROVE  OwnerInv'
BY DEF OwnerInv, TypeOK

LEMMA OwnerNext == TypeOK /\ OwnerInv /\ [Next]_vars => OwnerInv'
<1> SUFFICES ASSUME TypeOK, OwnerInv, [Next]_vars PROVE OwnerInv'
    OBVIOUS
<1> USE DEF At, Goto, locals
<1>1. ASSUME NEW t \in Tasks, Call(t) PROVE OwnerInv'
    <2>1. CASE task_block(t) \/ (\E ms \in Timeouts : sleep(t, ms)) \/ (\E to \in Tasks : message_to(t, to))
          BY <2>1, OwnerFrame DEF task_block, sleep, message_to, TypeOK
    <2>2. ASSUME NEW q \in WaitQueues, NEW ms \in Timeouts, sleep_on(t, q, ms) PROVE OwnerInv'
          BY <2>2, WaitAssumption DEF sleep_on, OwnerInv, TypeOK
    <2>3. CASE message(t) \/ disable(t) \/ enable(t)
          BY <2>3, OwnerFrame DEF message, disable, enable
    <2> QED BY <1>1, <2>1, <2>2, <2>3 DEF Call
<1>2. ASSUME NEW t \in Tasks, Continue(t) PROVE OwnerInv'
    <2>1. CASE sleep_block(t) \/ sleep_on_timeout(t) \/ message_to_ready(t)
          BY <2>1, OwnerFrame DEF sleep_block, sleep_on_timeout, message_to_ready, TypeOK
    <2>2. CASE schedule_pass1(t) \/ schedule_pass2(t) \/ schedule_pick(t) \/ switch_to(t)
          BY <2>2, OwnerFrame DEF schedule_pass1, schedule_pass2, schedule_pick, switch_to, TypeOK
    <2>3. CASE return(t)
          BY <2>3 DEF return, OwnerInv, TypeOK
    <2>4. CASE sleep_on_add(t)
        <3> DEFINE q == sleepq[t]
        <3>1. q \in WaitQueues /\ Owner[q] = t
              BY <2>4 DEF sleep_on_add, OwnerInv, TypeOK
        <3>2. waitq' = [waitq EXCEPT ![q] = IF Len(waitq[q]) < WaitSize
                                            THEN Append(waitq[q], t) ELSE waitq[q]]
              BY <2>4 DEF sleep_on_add
        <3>3. waitq[q] \in Seq(Tasks)
              BY <3>1 DEF TypeOK
        <3>4. \A i \in 1..Len(Append(waitq[q], t)) : Append(waitq[q], t)[i] = t
              BY <3>1, <3>3 DEF OwnerInv
        <3>5. \A w \in WaitQueues : \A i \in 1..Len(waitq'[w]) : waitq'[w][i] = Owner[w]
              BY <3>1, <3>2, <3>4 DEF OwnerInv, TypeOK
        <3>6. /\ UNCHANGED sleepq
              /\ \A x \in Tasks : pc'[x] = "sleep_on" => pc[x] = "sleep_on"
              BY <2>4 DEF sleep_on_add, TypeOK
        <3> QED BY <3>5, <3>6 DEF OwnerInv
    <2> QED BY <1>2, <2>1, <2>2, <2>3, <2>4 DEF Continue
<1>3. ASSUME NEW t \in Tasks, task_exit(t) PROVE OwnerInv'
      BY <1>3, OwnerFrame DEF task_exit
<1>4. ASSUME NEW q \in WaitQueues, wake_up(q) PROVE OwnerInv'
    <2>1. CASE waitq[q] = <<>>
          BY <1>4, <2>1, OwnerFrame DEF wake_up
    <2>2. CASE waitq[q] # <<>>
        <3>1. waitq' = [waitq EXCEPT ![q] = Tail(waitq[q])] /\ UNCHANGED <<sleepq, pc>>
              BY <1>4, <2>2 DEF wake_up
        <3>2. \A i \in 1..Len(Tail(waitq[q])) : Tail(waitq[q])[i] = Owner[q]
              BY <2>2 DEF OwnerInv, TypeOK
        <3> QED BY <3>1, <3>2 DEF OwnerInv, TypeOK
    <2> QED BY <2>1, <2>2
<1>5. CASE timer_handler
      BY <1>5, OwnerFrame DEF timer_handler
<1>6. CASE UNCHANGED vars
      BY <1>6, OwnerFrame DEF vars
<1> QED BY <1>1, <1>2, <1>3, <1>4, <1>5, <1>6 DEF Next

\* A step that blocks nobody, and leaves the wait queues and the sleepers'
\* places alone, cannot lose a sleeper.
LEMMA SleeperFrame ==
    ASSUME TypeOK, SleeperIsQueued, UNCHANGED waitq,
           \A t \in Tasks : \/ sleepq'[t] = NoQueue
                            \/ pc'[t] = "sleep_on"
                            \/ status'[t] # "BLOCKED"
                            \/ /\ sleepq'[t] = sleepq[t]
                               /\ pc[t] # "sleep_on"
                               /\ status[t] = "BLOCKED"
    PROVE  SleeperIsQueued'
BY DEF SleeperIsQueued

\* A thread in its own code sleeps on no queue.
RunInv == \A t \in Tasks : pc[t] \in {"run", "sleep", "msg"} => sleepq[t] = NoQueue

LEMMA RunNext == TypeOK /\ RunInv /\ [Next]_vars => RunInv'
<1> SUFFICES ASSUME TypeOK, RunInv, [Next]_vars PROVE RunInv'
    OBVIOUS
<1> USE DEF At, Goto, locals, RunInv, TypeOK
<1>1. ASSUME NEW t \in Tasks, Call(t) PROVE RunInv'
      BY <1>1 DEF Call, task_block, sleep, sleep_on, message_to, message, disable, enable
<1>2. ASSUME NEW t \in Tasks, Continue(t) PROVE RunInv'
      BY <1>2 DEF Continue, sleep_block, sleep_on_add, sleep_on_timeout, message_to_ready,
                  schedule_pass1, schedule_pass2, schedule_pick, switch_to, return
<1>3. ASSUME NEW t \in Tasks, task_exit(t) PROVE RunInv'
      BY <1>3 DEF task_exit
<1>4. ASSUME NEW q \in WaitQueues, wake_up(q) PROVE RunInv'
      BY <1>4 DEF wake_up
<1>5. CASE timer_handler
      BY <1>5 DEF timer_handler
<1>6. CASE UNCHANGED vars
      BY <1>6 DEF vars
<1> QED BY <1>1, <1>2, <1>3, <1>4, <1>5, <1>6 DEF Next

LEMMA SleeperNext ==
    TypeOK /\ OwnerInv /\ RunInv /\ SleeperIsQueued /\ [Next]_vars => SleeperIsQueued'
<1> SUFFICES ASSUME TypeOK, OwnerInv, RunInv, SleeperIsQueued, [Next]_vars
             PROVE  SleeperIsQueued'
    OBVIOUS
<1> USE DEF At, Goto, locals
<1>1. ASSUME NEW t \in Tasks, Call(t) PROVE SleeperIsQueued'
    <2>1. CASE task_block(t)
          BY <2>1, SleeperFrame DEF task_block, TypeOK, RunInv
    <2>2. CASE \E ms \in Timeouts : sleep(t, ms)
          BY <2>2, SleeperFrame DEF sleep, TypeOK, RunInv
    <2>3. CASE \E q \in WaitQueues, ms \in Timeouts : sleep_on(t, q, ms)
          BY <2>3, SleeperFrame DEF sleep_on, TypeOK
    <2>4. CASE \E to \in Tasks : message_to(t, to)
          BY <2>4, SleeperFrame DEF message_to, TypeOK, RunInv
    <2>5. CASE message(t) \/ disable(t) \/ enable(t)
          BY <2>5, SleeperFrame DEF message, disable, enable
    <2> QED BY <1>1, <2>1, <2>2, <2>3, <2>4, <2>5 DEF Call
<1>2. ASSUME NEW t \in Tasks, Continue(t) PROVE SleeperIsQueued'
    <2>1. CASE sleep_block(t)
          BY <2>1, SleeperFrame DEF sleep_block, TypeOK, RunInv
    <2>2. CASE sleep_on_timeout(t)
          BY <2>2, SleeperFrame DEF sleep_on_timeout, TypeOK
    <2>3. CASE message_to_ready(t)
          BY <2>3, SleeperFrame DEF message_to_ready, TypeOK, RunInv
    <2>4. CASE schedule_pass1(t) \/ schedule_pass2(t) \/ schedule_pick(t) \/ switch_to(t)
          BY <2>4, SleeperFrame DEF schedule_pass1, schedule_pass2, schedule_pick, switch_to, TypeOK
    <2>5. CASE return(t)
          BY <2>5, SleeperFrame DEF return, TypeOK
    <2>6. CASE sleep_on_add(t)
        <3> DEFINE q == sleepq[t]
        <3>1. q \in WaitQueues /\ Owner[q] = t
              BY <2>6 DEF sleep_on_add, OwnerInv, TypeOK
        <3>2. /\ waitq' = [waitq EXCEPT ![q] = IF Len(waitq[q]) < WaitSize
                                              THEN Append(waitq[q], t) ELSE waitq[q]]
              /\ pc' = [pc EXCEPT ![t] = "sleep_to"]
              /\ UNCHANGED <<status, sleepq>>
              BY <2>6 DEF sleep_on_add
        <3>3. waitq[q] \in Seq(Tasks)
              BY <3>1 DEF TypeOK
        <3>4. \E i \in 1..Len(waitq'[q]) : waitq'[q][i] = t
            <4>1. CASE Len(waitq[q]) < WaitSize
                <5>1. waitq'[q] = Append(waitq[q], t)
                      BY <3>1, <3>2, <4>1 DEF TypeOK
                <5>2. Append(waitq[q], t)[Len(waitq[q]) + 1] = t /\ Len(Append(waitq[q], t)) = Len(waitq[q]) + 1
                      BY <3>3
                <5> QED BY <3>3, <5>1, <5>2
            <4>2. CASE ~(Len(waitq[q]) < WaitSize)
                <5>1. waitq'[q] = waitq[q] /\ 1 \in 1..Len(waitq[q])
                      BY <3>1, <3>2, <3>3, <4>2, WaitAssumption DEF TypeOK
                <5> QED BY <3>1, <5>1 DEF OwnerInv
            <4> QED BY <4>1, <4>2
        <3>5. ASSUME NEW x \in Tasks, x # t, sleepq[x] # NoQueue,
                     pc[x] # "sleep_on", status[x] = "BLOCKED"
              PROVE  \E i \in 1..Len(waitq'[sleepq[x]]) : waitq'[sleepq[x]][i] = x
            <4>1. sleepq[x] \in WaitQueues /\ sleepq[x] # q
                  BY <3>1, <3>5 DEF OwnerInv, TypeOK
            <4>2. waitq'[sleepq[x]] = waitq[sleepq[x]]
                  BY <3>2, <4>1 DEF TypeOK
            <4> QED BY <3>5, <4>2 DEF SleeperIsQueued
        <3>6. \A x \in Tasks : x # t => pc'[x] = pc[x]
              BY <3>2 DEF TypeOK
        <3> QED BY <3>2, <3>4, <3>5, <3>6 DEF SleeperIsQueued
    <2> QED BY <1>2, <2>1, <2>2, <2>3, <2>4, <2>5, <2>6 DEF Continue
<1>3. ASSUME NEW t \in Tasks, task_exit(t) PROVE SleeperIsQueued'
      BY <1>3, SleeperFrame DEF task_exit, TypeOK
<1>4. ASSUME NEW q \in WaitQueues, wake_up(q) PROVE SleeperIsQueued'
    <2>1. CASE waitq[q] = <<>>
          BY <1>4, <2>1, SleeperFrame DEF wake_up
    <2>2. CASE waitq[q] # <<>>
        <3>1. /\ status' = [status EXCEPT ![Head(waitq[q])] = "READY"]
              /\ waitq' = [waitq EXCEPT ![q] = Tail(waitq[q])]
              /\ UNCHANGED <<sleepq, pc>>
              BY <1>4, <2>2 DEF wake_up
        <3>2. Head(waitq[q]) = Owner[q] /\ Owner[q] \in Tasks
              BY <2>2, WaitAssumption DEF OwnerInv, TypeOK
        <3>3. ASSUME NEW x \in Tasks, sleepq[x] # NoQueue,
                     pc[x] # "sleep_on", status'[x] = "BLOCKED"
              PROVE  \E i \in 1..Len(waitq'[sleepq[x]]) : waitq'[sleepq[x]][i] = x
            <4>1. status[x] = "BLOCKED" /\ x # Owner[q]
                  BY <3>1, <3>2, <3>3 DEF TypeOK
            <4>2. sleepq[x] \in WaitQueues /\ sleepq[x] # q
                  BY <3>3, <4>1 DEF OwnerInv, TypeOK
            <4>3. waitq'[sleepq[x]] = waitq[sleepq[x]]
                  BY <3>1, <4>2 DEF TypeOK
            <4> QED BY <3>3, <4>1, <4>3 DEF SleeperIsQueued
        <3> QED BY <3>1, <3>3 DEF SleeperIsQueued
    <2> QED BY <2>1, <2>2
<1>5. CASE timer_handler
      BY <1>5, SleeperFrame DEF timer_handler, TypeOK
<1>6. CASE UNCHANGED vars
      BY <1>6, SleeperFrame DEF vars
<1> QED BY <1>1, <1>2, <1>3, <1>4, <1>5, <1>6 DEF Next

LEMMA SleeperInit == Init => OwnerInv /\ RunInv /\ SleeperIsQueued
BY DEF Init, OwnerInv, RunInv, SleeperIsQueued

\* Once a sleeping thread has put itself on its wait queue, no interleaving of
\* timeouts, messages, stale entries, full queues and wake-ups leaves it
\* BLOCKED and off the queue.
THEOREM SleeperAlwaysQueued == Spec => []SleeperIsQueued
BY TypeInit, TypeNext, SleeperInit, OwnerNext, RunNext, SleeperNext, PTL DEF Spec

-----------------------------------------------------------------------------
(* The input path.                                                          *)

\* Every step of a thread's program is a kernel call, or none.
LEMMA ProgramStep ==
    ASSUME NEW t \in Tasks, (Driver(t) /\ t \in Drivers) \/ (t = Gui /\ gui_main)
    PROVE  Call(t) \/ UNCHANGED vars
<1>1. CASE Driver(t) /\ t \in Drivers
    <2>1. CASE driver_take(t) \/ driver_drained(t) \/ driver_sent(t)
          BY <2>1 DEF driver_take, driver_drained, driver_sent, vars
    <2>2. CASE driver_send(t)
        <3>1. PICK i \in 1..Len(List) : message_to(t, List[i])
              BY <2>2 DEF driver_send
        <3>2. List[i] \in Tasks
              BY <3>1, ListAssumption
        <3> QED BY <3>1, <3>2 DEF Call
    <2>3. CASE driver_sleep(t)
          BY <1>1, <2>3, InputAssumption DEF driver_sleep, Call
    <2> QED BY <1>1, <2>1, <2>2, <2>3 DEF Driver
<1>2. CASE t = Gui /\ gui_main
      BY <1>2 DEF gui_main, gui_setup, gui_set_up, gui_top, gui_read, gui_drawn, gui_block, Call
<1> QED BY <1>1, <1>2

\* The input path implements the kernel specification.
THEOREM InputUsesKernel == ISafety => UsesKernel
<1>1. IInit => Init
      BY DEF IInit
<1>2. [INext]_allvars => [Next]_vars
    <2> SUFFICES ASSUME [INext]_allvars PROVE [Next]_vars
        OBVIOUS
    <2>1. ASSUME NEW d \in Drivers, Driver(d) PROVE [Next]_vars
        <3>1. d \in Tasks
              BY InputAssumption
        <3> QED BY <2>1, <3>1, ProgramStep DEF Next
    <2>2. CASE gui_main
        <3>1. Gui \in Tasks
              BY InputAssumption
        <3> QED BY <2>2, <3>1, ProgramStep DEF Next
    <2>3. ASSUME NEW t \in Threads, Continue(t) PROVE [Next]_vars
        <3>1. t \in Tasks
              BY InputAssumption DEF Threads
        <3> QED BY <2>3, <3>1 DEF Next
    <2>4. CASE tick
          BY <2>4 DEF tick, Next
    <2>5. CASE device_irq
        <3>1. ASSUME NEW d \in Drivers \ Mice, keyboard_handler(d) PROVE [Next]_vars
              BY <3>1, InputAssumption DEF keyboard_handler, Next
        <3>2. ASSUME NEW d \in Mice, mouse_handler(d) PROVE [Next]_vars
              BY <3>2, InputAssumption DEF mouse_handler, Next
        <3> QED BY <2>5, <3>1, <3>2 DEF device_irq
    <2>6. CASE UNCHANGED allvars
          BY <2>6 DEF allvars
    <2> QED BY <2>1, <2>2, <2>3, <2>4, <2>5, <2>6 DEF INext, Execute
<1> QED BY <1>1, <1>2, PTL DEF ISafety, UsesKernel

\* On the input path, with any number of drivers and interrupts, no sleeping
\* driver falls off its wait queue, and a driver or the GUI comes back from
\* schedule() unwoken only while another thread is READY.
THEOREM InputKeepsThreads == ISafety => [](SleeperIsQueued /\ UnwokenResume)
<1>1. UsesKernel => Spec
      BY PTL DEF UsesKernel, Spec
<1> QED BY <1>1, InputUsesKernel, SleeperAlwaysQueued, UnwokenResumeHolds, PTL
=============================================================================
