SPECIFICATION Spec
CONSTANTS
    Size = 4
    Words = {0, 1, 2}
    NULL = 0
    UINT16_MAX = 65535
INVARIANTS
    TypeOK
    IndicesAgree
PROPERTY
    ImplementsFifo
