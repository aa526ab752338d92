SPECIFICATION Spec
CONSTANTS
    r1 = r1
    r2 = r2
    NoRequest = NoRequest
    Half = 2
    Params <- MCStraddle
    Access <- MCAccess
    Unsigned <- MCUnsigned
    Hidden <- MCHidden
    Bounds <- MCBounds
    Requests <- MCOne
    Asks <- MCWrites
    QueueCap = 1
    MaxRetries = 0
    MaxPanics = 0
    MaxOpenFailures = 0
    MaxDisplay = 0
INVARIANT
    RefusedIsOutOfRange
CHECK_DEADLOCK FALSE
