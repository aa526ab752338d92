SPECIFICATION PriceSpec
CONSTANTS
    Nothing = Nothing
    SlotsPerDay = 4
    Curves <- MCCurves
    Window = 4
    RunSlots = 2
    Picks = 2
    FetchSlot = 2
PROPERTY
    BlipKeepsPrices
CHECK_DEADLOCK FALSE
