SPECIFICATION Spec
CONSTANTS
    r1 = r1
    r2 = r2
    NoRequest = NoRequest
    Half = 2
    Params <- MCParams
    Access <- MCAccess
    Unsigned <- MCUnsigned
    Hidden <- MCHidden
    Bounds <- MCBounds
    Requests <- MCRequests
    Asks <- MCCalls
    QueueCap = 1
    MaxRetries = 1
    MaxPanics = 1
    MaxOpenFailures = 1
    MaxDisplay = 1
INVARIANTS
    TypeOK
    WaitingHasOnePlace
    TelemetryBalances
PROPERTIES
    ServicePromise
    NothingIsAskedInVain
    EveryCallIsAnswered
CHECK_DEADLOCK FALSE
