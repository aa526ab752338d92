SPECIFICATION FairSpec
CONSTANTS
    SENSORS <- MCStatus
    LegacyCycles <- MCLegacyCycles
    LegacyTotal <- MCLegacyTotal
    PerMinute = 1
    PerDay = 2
    MaxTime = 1
    MaxFlushes = 0
    MaxCommitFaults = 0
    MaxMissed = 0
    MaxEnds = 1
PROPERTY PanicEndsInFlush
