SPECIFICATION Spec
CONSTANTS
    Users = {alice, bob}
    Pair = pair
    Treasury = treasury
    Dex = dex
    BPS_DENOMINATOR = 10
    MAX_FEE_BPS = 5
    feeBps = 5
    initialSupply = 4
    graduationTokenAmount = 3
    initialVirtualTokenReserve = 7
    initialVirtualNativeReserve = 5
    MaxUint = 9
    Wealth = 9
    Payments <- MCPayments
    Allowances <- MCAllowances
SYMMETRY TraderSymmetry
INVARIANTS TypeOK Solvent Inventory GraduationAtomic RoundTripRestores
PROPERTIES ClosedForever RoundingBounded SaleSpec
