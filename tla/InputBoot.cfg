SPECIFICATION ISpec
CHECK_DEADLOCK FALSE
CONSTANTS
    idle = idle
    keyboard = keyboard
    mouse = mouse
    gui = gui
    kb_wait = kb_wait
    mouse_wait = mouse_wait
    Tasks <- BootTasks
    Idle = idle
    List <- BootList
    Priority <- BootPriority
    WaitQueues <- BootQueues
    Owner <- BootOwner
    WaitSize = 2
    InboxSize = 1
    Tick = 10
    Word = 16
    Timeouts = {0}
    NoTask = NoTask
    NoQueue = NoQueue
    Drivers = {keyboard, mouse}
    Mice = {mouse}
    Gui = gui
    WaitOf <- BootWaitOf
    Events <- BootEvents
    DeviceSize = 2
    MaxPackets = 2
    BootListen = {}
    MaxIrqs = 1
PROPERTIES
    UsesKernel
    ReadyRuns
    EventuallyIdle
