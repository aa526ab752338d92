SPECIFICATION Spec
CONSTANTS
    PersistPath = TRUE
    MaxIoFaults = 0
    MaxSaveFaults = 0
    MaxCrashes = 0
    EventCap = 2
INVARIANT
    IdleImmersionIsOff
