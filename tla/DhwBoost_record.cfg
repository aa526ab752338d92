SPECIFICATION Spec
CONSTANTS
    PersistPath = TRUE
    MaxIoFaults = 1
    MaxSaveFaults = 0
    MaxCrashes = 1
    EventCap = 2
PROPERTY
    LeftRecordIsKept
