SPECIFICATION PumpSpec
CONSTANTS
    t1 = t1
    t2 = t2
    NoInstant = NoInstant
    Instants <- MCOneInstant
    AskedModes <- MCBlocking
    InitialModes <- MCNormalOnly
    AutoResumeEnabled = FALSE
    HomeyEnabled = TRUE
    MailboxCap = 1
    MaxGeneration = 1
    MaxGpioFaults = 0
    MaxRestarts = 1
    PushSlots <- MCTwoSlots
    MaxHttpFaults = 1
    MaxToggles = 1
    MaxOverrides = 1
PROPERTY
    PlugSettles
CHECK_DEADLOCK FALSE
