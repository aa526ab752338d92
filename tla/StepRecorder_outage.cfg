SPECIFICATION Spec
CONSTANTS
    SENSORS <- MCSensors
    Situations <- MCMixed
    Nothing = Nothing
    PerMinute = 2
    PerHour = 1
    MaxHours = 6
    Threshold = 2
    Observe = 2
    MaxStepEvents = 1
    StartTime = 4
    LeftBehind <- MCLeftBehind
    MaxUnits = 2
    FlushTimes = {6}
    SetBackTo = {}
    MaxMishaps = 1
PROPERTIES
    StepsAreSudden
    RestartKeepsLanes
CHECK_DEADLOCK FALSE
