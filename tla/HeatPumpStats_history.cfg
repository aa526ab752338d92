SPECIFICATION Spec
CONSTANTS
    SENSORS <- MCStatus
    LegacyCycles <- MCLegacyCycles
    LegacyTotal <- MCLegacyTotal
    PerMinute = 2
    PerDay = 2
    MaxTime = 3
    MaxCommitFaults = 1
    MaxMissed = 1
    MaxFlushes = 1
    MaxEnds = 1
INVARIANTS
    TypeOK
    KeysAreUnique
    HistoryAddsUp
PROPERTIES
    StopIsDurable
