SPECIFICATION Spec
CONSTANTS
    Panels = {"trade", "swap", "launch"}
    Amounts <- MCAmounts
    Rates <- MCRates
    Wealth = 3
    Tolerance = 4
    Endless = 99
    Nothing = Nothing
    MaxClicks = 2
    MaxEdits = 1
    MaxMoves = 1
    MaxFaults = 1
INVARIANTS TypeOK ChecksHold MinimumIsFresh QuoteIsOfForm
PROPERTIES ClickWaits ComesBack
CHECK_DEADLOCK FALSE
