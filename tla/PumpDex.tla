------------------------------ MODULE PumpDex ------------------------------
(***************************************************************************)
(* The arithmetic of PumpDexPool: what a swap pays from the two reserves,  *)
(* and the shares the first and only provider of liquidity receives.       *)
(* The fee stays in the pool: the whole input is added to the reserve, the *)
(* output is that of a smaller input.                                      *)
(***************************************************************************)
EXTENDS Integers

CONSTANTS
    dexFeeBps,          \* fee of every pool of the factory
    DEX_BPS             \* the unit of dexFeeBps, 10000 in the contract

ASSUME DexFeeAssumption ==
    /\ DEX_BPS \in Nat \ {0}
    /\ dexFeeBps \in Nat
    /\ dexFeeBps < DEX_BPS

EffectiveInput(amountIn) == amountIn - (amountIn * dexFeeBps) \div DEX_BPS

\* quoteNativeForToken and quoteTokenForNative, and the mistake of rounding
\* the output to the trader's advantage.
SwapOutput_RoundedUp(reserveIn, reserveOut, amountIn) ==
    (reserveOut * EffectiveInput(amountIn)) \div (reserveIn + EffectiveInput(amountIn)) + 1
SwapOutput(reserveIn, reserveOut, amountIn) ==
    (reserveOut * EffectiveInput(amountIn)) \div (reserveIn + EffectiveInput(amountIn))

\* The guards of both swaps on the output they are about to pay.
Payable(output, minOutput, reserveOut) ==
    output >= minOutput /\ output # 0 /\ output < reserveOut

\* _sqrt: Newton's iteration from above, and an iteration that stops early.
Newton(value, root) == (value \div root + root) \div 2
Iterate(value) ==
    LET loop[root \in Nat \ {0}] ==
            IF Newton(value, root) < root THEN loop[Newton(value, root)] ELSE root
    IN  loop
Sqrt_OneStep(value) == IF value = 0 THEN 0 ELSE value \div 2 + 1
Sqrt(value) ==
    IF value = 0 THEN 0
    ELSE IF value \div 2 + 1 < value THEN Iterate(value)[value \div 2 + 1] ELSE value
=============================================================================
