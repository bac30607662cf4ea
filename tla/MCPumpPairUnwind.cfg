SPECIFICATION Spec
CONSTANTS
    Users = {alice}
    Pair = pair
    Treasury = treasury
    Dex = dex
    BPS_DENOMINATOR = 10
    MAX_FEE_BPS = 1
    feeBps = 1
    initialSupply = 7
    graduationTokenAmount = 6
    initialVirtualTokenReserve = 8
    initialVirtualNativeReserve = 3
    MaxUint = 9
    Wealth = 12
    Payments <- EveryPayment
    Allowances <- MCAllowances
INVARIANT UnwindWithinOneWei
