SPECIFICATION Spec
CONSTANTS
    Users = {u1}
    Tokens = {t1, t2}
    DexAdapter = DexAdapter
    ArcAdapter = ArcAdapter
    Operator = Operator
    Treasury = Treasury
    PositionManager = PositionManager
    Lock = Lock
    None = None
    Supply = 6
    Targets <- MCTargets
    V0 = 8
    N0 = 4
    SCALE = 2
    InitialPrice = "initial"
    Invertible = FALSE
    V3Prices <- MCV3Prices
    Mints <- MCMints
    Wealth = 9
    Payments <- MCPayments
    Amounts <- MCAmounts
    BPS_DENOMINATOR = 4
    MAX_FEE_BPS = 1
    feeBps = 1
    DEX_BPS = 4
    dexFeeBps = 1
SYMMETRY Swapped
INVARIANTS TypeOK Custody LiquidityLocked WiredPairsGraduate
PROPERTIES ProductNeverFalls TermsAreFixed
