---------------------------- MODULE BondingCurve ----------------------------
(***************************************************************************)
(* The arithmetic of PumpPair's virtual constant-product curve: what each  *)
(* quote function computes from the two virtual reserves.  Amounts are     *)
(* natural numbers; the 256-bit width is not modelled because every        *)
(* product the contract forms is checked by Solidity 0.8 and far below it. *)
(* BPS_DENOMINATOR is 10000 and MAX_FEE_BPS 1000 in the contract; they are *)
(* parameters here, so that TLC can meet non-zero fees on small amounts.   *)
(***************************************************************************)
EXTENDS Integers

CONSTANTS
    BPS_DENOMINATOR,    \* the unit in which feeBps is expressed
    MAX_FEE_BPS,        \* the largest fee a pair accepts
    feeBps              \* trading fee

ASSUME FeeAssumption ==
    /\ BPS_DENOMINATOR \in Nat \ {0}
    /\ feeBps \in Nat
    /\ MAX_FEE_BPS \in Nat
    /\ MAX_FEE_BPS < BPS_DENOMINATOR
    /\ feeBps <= MAX_FEE_BPS

\* Integer division rounded up (_ceilDiv), and the mistake of rounding down.
FloorDiv(numerator, denominator) == numerator \div denominator
CeilDiv(numerator, denominator) ==
    IF numerator = 0 THEN 0 ELSE ((numerator - 1) \div denominator) + 1

\* The fee on an amount that goes into, or comes out of, the curve.
CurveFee(amount) == (amount * feeBps) \div BPS_DENOMINATOR

\* Native cost of taking `amount` tokens off the curve (quoteBuy).
BuyCost(virtualToken, virtualNative, amount) ==
    CeilDiv(virtualToken * virtualNative, virtualToken - amount) - virtualNative

\* Native value of returning `amount` tokens, before the cap (quoteSell).
UncappedGross(virtualToken, virtualNative, amount) ==
    virtualNative - ((virtualToken * virtualNative) \div (virtualToken + amount))

\* quoteSell never quotes more than the real reserve.
SellGross(virtualToken, virtualNative, reserve, amount) ==
    LET gross == UncappedGross(virtualToken, virtualNative, amount)
    IN  IF gross > reserve THEN reserve ELSE gross

\* The fee inside a payment that already includes it (quoteBuyExactNative).
IncludedFee(nativeInput) == (nativeInput * feeBps) \div (BPS_DENOMINATOR + feeBps)

\* Tokens bought by `curveInput` native, with no regard to what is left.
TokensFor(virtualToken, virtualNative, curveInput) ==
    virtualToken - CeilDiv(virtualToken * virtualNative, virtualNative + curveInput)

\* quoteBuyExactNative: the payment buys what it is worth, or, when that is
\* more than remains for sale, exactly what remains, re-priced and with its
\* fee computed again from the re-priced cost.
ExactQuote(virtualToken, virtualNative, remaining, nativeInput) ==
    LET curveInput == nativeInput - IncludedFee(nativeInput)
        output     == TokensFor(virtualToken, virtualNative, curveInput)
        lastCost   == BuyCost(virtualToken, virtualNative, remaining)
    IN  IF output > remaining
        THEN [tokenOutput |-> remaining, fee |-> CurveFee(lastCost), curveInput |-> lastCost]
        ELSE [tokenOutput |-> output, fee |-> IncludedFee(nativeInput), curveInput |-> curveInput]
=============================================================================
