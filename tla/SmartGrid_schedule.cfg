SPECIFICATION Spec
CONSTANTS
    t1 = t1
    t2 = t2
    NoInstant = NoInstant
    Instants <- MCInstants
    AskedModes <- MCThreeModes
    InitialModes <- MCEitherMode
    AutoResumeEnabled = TRUE
    HomeyEnabled = FALSE
    MailboxCap = 2
    MaxGeneration = 3
    MaxGpioFaults = 1
    MaxRestarts = 1
    PushSlots <- MCOneSlot
    MaxHttpFaults = 0
    MaxToggles = 0
    MaxOverrides = 0
INVARIANTS
    TypeOK
    ShownResumeIsComing
    UserModeStands
PROPERTY
    PromisedResumeComes
CHECK_DEADLOCK FALSE
