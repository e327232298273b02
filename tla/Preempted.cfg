SPECIFICATION PSpec
CONSTANTS
    Size = 3
    MaxAdds = 6
    Words = {0, 1, 2, 3, 4, 5, 6}
    NULL = 0
    UINT16_MAX = 65535
    Sharings = {"device", "receiver", "producers"}
INVARIANTS
    IndicesInRange
    InOrderUntilLapped
    SizeNeverOverstates
    OutsideNeedsProducer
CHECK_DEADLOCK FALSE
