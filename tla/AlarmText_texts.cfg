SPECIFICATION Spec
CONSTANTS
    Nothing = Nothing
    Code = Code
    Clients = {c1, c2}
    Alarms <- MCAlarms
    Infos <- MCInfos
    InfoRefOffset = 10
    CodeOf <- MCCodeOf
    MaxCalls = 2
    MaxChanges = 2
    MaxTime = 1
    MaxStarts = 2
INVARIANTS
    TypeOK
    TextIsItsOwn
PROPERTIES
    ReportsAreTrue
    EveryRequestEnds
CHECK_DEADLOCK FALSE
