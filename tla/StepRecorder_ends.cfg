SPECIFICATION Spec
CONSTANTS
    SENSORS <- MCSensors
    Situations <- MCSituations
    Nothing = Nothing
    PerMinute = 2
    PerHour = 1
    MaxHours = 3
    Threshold = 2
    Observe = 2
    MaxStepEvents = 1
    StartTime = 2
    LeftBehind <- MCLeftBehind
    MaxUnits = 4
    FlushTimes = {}
    SetBackTo = {1, 3}
    MaxMishaps = 1
INVARIANTS
    EventsEnd
CHECK_DEADLOCK FALSE
