SPECIFICATION Spec
CONSTANTS
    r1 = r1
    r2 = r2
    NoRequest = NoRequest
    Half = 2
    Params <- MCParams
    Access <- MCAccess
    Unsigned <- MCUnsigned
    Hidden <- MCHidden
    Bounds <- MCBounds
    Requests <- MCRequests
    Asks <- MCSends
    QueueCap = 2
    MaxRetries = 1
    MaxPanics = 1
    MaxOpenFailures = 0
    MaxDisplay = 1
SYMMETRY RequestSymmetry
PROPERTIES
    ServicePromise
CHECK_DEADLOCK FALSE
