SPECIFICATION Spec
CONSTANTS
    Wallets = {a, b}
    Tokens = {t1, t2}
    Stranger = stranger
    StrangeEvents <- MCStrangeEvents
    NoRow = NoRow
    Supply = 4
    Target = 2
    Amounts <- MCAmounts
    Prices <- MCPrices
    WAD = 2
    Intervals <- MCIntervals
    MaxCalls = 4
    MaxJoined = 1
    MaxForeign = 1
    MaxRestarts = 1
INVARIANTS
    TypeOK
    OncePerLog
    CountsMatchRows
    CandlesMatchTrades
    CirculationIsHeld
    TradersStartOnACurve
    MirrorsChain
    RefusesOnlyMoved
    DuplicateIsIndexed
PROPERTIES
    CatchesUp
CHECK_DEADLOCK FALSE
