SPECIFICATION Spec
CONSTANTS
    t1 = t1
    t2 = t2
    NoInstant = NoInstant
    Instants <- MCOneInstant
    AskedModes <- MCEitherMode
    InitialModes <- MCEitherMode
    AutoResumeEnabled = TRUE
    HomeyEnabled = FALSE
    MailboxCap = 2
    MaxGeneration = 3
    MaxGpioFaults = 0
    MaxRestarts = 1
    PushSlots <- MCOneSlot
    MaxHttpFaults = 0
    MaxToggles = 0
    MaxOverrides = 0
INVARIANT
    CancelledResumeStands
CHECK_DEADLOCK FALSE
