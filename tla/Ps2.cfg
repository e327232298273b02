SPECIFICATION Spec
CHECK_DEADLOCK FALSE
CONSTANTS
    Keys = {28, 29, 42, 54, 56, 58, 83, 110}
    Blank = {110}
    Unshifted = {28}
    KeyQueueSize = 2
    MaxEvents = 3
    MaxOut = 2
INVARIANTS
    TypeOK
    MouseInStep
    ShiftMeansHeld
    GhostNeedsShift
