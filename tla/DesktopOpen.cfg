SPECIFICATION DSpec
CHECK_DEADLOCK FALSE
CONSTANTS
    Disks <- SmallDisks
    DevFiles <- SmallDevFiles
    Ports <- SmallPorts
    Block = 4
    Word = 128
    Start = 8
    MaxHeaders = 5
    MaxFiles = 2
    Screen <- SmallScreen
    Explorer <- SmallExplorer
    ViewSize <- SmallView
    Shift = 1
    Boxes <- SmallBoxes
    EditLength = 4
    BufSize = 5
    ImageSize = 4
    Keys = {"enter", "down", "up", "backspace"}
    MaxMove = 1
    MaxWindows = 3
    MaxTyped = 1
INVARIANTS
    ChosenFileOpens
