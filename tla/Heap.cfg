SPECIFICATION HSpec
CHECK_DEADLOCK FALSE
CONSTANTS
    Frames = 41
    MemSizes = {9, 41}
    Reserved = 8
    Word = 64
    PageSize = 8
    Header = 2
    KernelEnd = 17
    KernelFrame = 5
    BootPages = 3
    LimitPages = 11
    LowWords = 1
    Sizes = {1, 13}
    MaxBlocks = 3
INVARIANTS
    TypeOK
    FramesNotShared
    FreeIsCounted
    BlocksDisjoint
    ListIsWhole
    HeaderShort
    BootPagesStay
PROPERTY
    UsesFrames
