SPECIFICATION PriceSpec
CONSTANTS
    Nothing = Nothing
    SlotsPerDay = 4
    Curves <- MCCurves
    Window = 4
    RunSlots = 2
    Picks = 2
    FetchSlot = 2
INVARIANTS
    PriceTypeOK
    PricesAreGenuine
    ResumesFollowPrices
PROPERTY
    PricesComeBack
CHECK_DEADLOCK FALSE
