SPECIFICATION Spec
CONSTANTS
    Users = {alice}
    Pair = pair
    Treasury = treasury
    Dex = dex
    BPS_DENOMINATOR = 10
    MAX_FEE_BPS = 1
    feeBps = 1
    initialSupply = 20
    graduationTokenAmount = 19
    initialVirtualTokenReserve = 40
    initialVirtualNativeReserve = 8
    MaxUint = 99
    Wealth = 12
    Payments <- EveryPayment
    Allowances <- MCAllowances
INVARIANT QuoteCapsInput
