SPECIFICATION Spec
CONSTANTS
    SENSORS <- MCStatus
    LegacyCycles <- MCLegacyCycles
    LegacyTotal <- MCLegacyTotal
    PerMinute = 2
    PerDay = 4
    MaxTime = 3
    MaxFlushes = 1
    MaxCommitFaults = 0
    MaxMissed = 1
    MaxEnds = 0
PROPERTY OutageIsNotCounted
