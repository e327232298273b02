SPECIFICATION Spec
CHECK_DEADLOCK FALSE
CONSTANTS
    idle = idle
    a = a
    b = b
    q = q
    Tasks <- MCTasks
    Idle = idle
    List <- MCList
    Priority <- MCPriority
    WaitQueues = {q}
    Owner <- MCOwner
    WaitSize = 2
    InboxSize = 1
    Tick = 10
    Word = 16
    Timeouts = {0, 10}
    NoTask = NoTask
    NoQueue = NoQueue
INVARIANTS
    TypeOK
    SleeperIsQueued
    UnwokenResume
