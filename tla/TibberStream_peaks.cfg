SPECIFICATION Spec
CONSTANTS
    Nothing = Nothing
    LocalDate <- MCLocalDate
    TopDays = 1
    MaxQuarters = 3
    Instants <- MCInstants
    MaxUse = 2
    MaxQueue = 1
    MaxStarts = 2
    MaxGaps = 1
INVARIANTS
    TypeOK
    PeaksAreTopDays
    CurveIsGenuine
CHECK_DEADLOCK FALSE
