SPECIFICATION Spec
CONSTANTS
    c1 = c1
    c2 = c2
    room = room
    set = set
    hid = hid
    count = count
    other = other
    Half = 8
    Params <- MCParams
    Access <- MCAccess
    Unsigned = {}
    Hidden <- MCHidden
    Bounds <- MCBounds
    Requests <- MCRequests
    Asks <- MCAsks
    Absent = Absent
    Garbled = Garbled
    TimeZones <- MCTimeZones
    Givens <- MCPushOnly
    Requested <- MCRequested
    Catalogue <- MCCatalogue
    Polled <- MCPolled
    Conditional <- MCConditional
    Setpoint = set
    AlarmCount = count
    Nothing = Nothing
PROPERTY
    RollbackUndoesItsOwn
CHECK_DEADLOCK FALSE
