SPECIFICATION ISpec
CHECK_DEADLOCK FALSE
CONSTANTS
    idle = idle
    keyboard = keyboard
    mouse = mouse
    gui = gui
    kb_wait = kb_wait
    mouse_wait = mouse_wait
    Tasks <- KeyboardTasks
    Idle = idle
    List <- KeyboardList
    Priority <- KeyboardPriority
    WaitQueues = {kb_wait}
    Owner <- KeyboardOwner
    WaitSize = 2
    InboxSize = 2
    Tick = 10
    Word = 16
    Timeouts = {0, 10}
    NoTask = NoTask
    NoQueue = NoQueue
    Drivers = {keyboard}
    Mice = {}
    Gui = gui
    WaitOf <- KeyboardWaitOf
    Events <- KeyEvents
    DeviceSize = 2
    MaxPackets = 1
    BootListen = {keyboard}
    MaxIrqs = 3
PROPERTIES
    ReadyRuns
    WokenDriverDrains
