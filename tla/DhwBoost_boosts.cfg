SPECIFICATION Spec
CONSTANTS
    PersistPath = TRUE
    MaxIoFaults = 1
    MaxSaveFaults = 1
    MaxCrashes = 2
    EventCap = 2
INVARIANTS
    TypeOK
    FileMirrorsState
    BoostHoldsItsOwn
    HeaterIsGivenBack
PROPERTIES
    BathEnds
    LeftBoostIsRecovered
