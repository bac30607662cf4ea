------------------------------ MODULE PumpPair ------------------------------
(***************************************************************************)
(* One PumpPair contract together with what every one of its transactions  *)
(* touches: its MemeToken's balances and allowances, the native balances   *)
(* of the traders and of the Treasury, and the IDexAdapter it graduates    *)
(* into.  A transaction is atomic on the chain, so each external function  *)
(* is one action; a revert is the action not being enabled.                *)
(* The adapter is external here: it can refuse (adapterUp = FALSE), and    *)
(* otherwise takes all of the liquidity it is offered.                     *)
(***************************************************************************)
EXTENDS BondingCurve

CONSTANTS
    Users,                          \* traders (externally owned accounts)
    Pair, Treasury, Dex,            \* the contracts that hold balances
    initialSupply,                  \* tokens minted to the pair
    graduationTokenAmount,          \* tokens for sale on the curve
    initialVirtualTokenReserve,
    initialVirtualNativeReserve,
    MaxUint,                        \* type(uint256).max, the infinite allowance
    Wealth,                         \* native balance each user starts with
    Payments,                       \* msg.value and native limits users choose from
    Allowances                      \* allowances users approve

Accounts == Users \cup {Pair, Treasury, Dex}

ASSUME AccountsAssumption ==
    /\ Pair \notin Users /\ Treasury \notin Users /\ Dex \notin Users
    /\ Pair # Treasury /\ Pair # Dex /\ Treasury # Dex

\* The checks of PumpPair's constructor.
ASSUME CurveAssumption ==
    /\ initialSupply \in Nat
    /\ graduationTokenAmount \in Nat \ {0}
    /\ graduationTokenAmount < initialSupply
    /\ initialVirtualTokenReserve \in Nat
    /\ initialVirtualTokenReserve > initialSupply
    /\ initialVirtualNativeReserve \in Nat \ {0}

ASSUME InputAssumption ==
    /\ Wealth \in Nat
    /\ Payments \subseteq Nat
    /\ MaxUint \in Nat
    /\ MaxUint > initialSupply
    /\ Allowances \subseteq 0 .. MaxUint

VARIABLES
    tokensSold,             \* tokens the curve has sold and not bought back
    nativeReserve,          \* native the contract believes it holds
    virtualTokenReserve,
    virtualNativeReserve,
    status,
    dexPositionId,          \* 0 until the adapter returns a position
    paused,
    balanceOf,              \* the MemeToken's ledger
    allowance,              \* what each user lets the pair transfer
    native,                 \* address(x).balance of every account
    adapterUp,              \* whether the adapter would accept liquidity now
    donated                 \* history: tokens sent straight to the pair

curve  == <<tokensSold, nativeReserve, virtualTokenReserve, virtualNativeReserve>>
phase  == <<status, dexPositionId>>
ledger == <<balanceOf, allowance, native>>
vars   == <<curve, phase, paused, ledger, adapterUp, donated>>

TokenAmounts == 0 .. initialSupply

Init ==
    /\ tokensSold = 0
    /\ nativeReserve = 0
    /\ virtualTokenReserve = initialVirtualTokenReserve
    /\ virtualNativeReserve = initialVirtualNativeReserve
    /\ status = "ACTIVE"
    /\ dexPositionId = 0
    /\ paused = FALSE
    /\ balanceOf = [a \in Accounts |-> IF a = Pair THEN initialSupply ELSE 0]
    /\ allowance = [u \in Users |-> 0]
    /\ native = [a \in Accounts |-> IF a \in Users THEN Wealth ELSE 0]
    /\ adapterUp \in BOOLEAN
    /\ donated = 0

-----------------------------------------------------------------------------
\* MemeToken._transfer, and the native transfer of a call with value.
MoveWithoutDebit(book, from, to, amount) == [book EXCEPT ![to] = @ + amount]
Move(book, from, to, amount) ==
    [[book EXCEPT ![from] = @ - amount] EXCEPT ![to] = @ + amount]

\* nonReentrant, whenNotPaused and onlyActive; the first holds between
\* transactions.
TradingAfterGraduation == ~paused
Trading == status = "ACTIVE" /\ ~paused

remainingOfAll == graduationTokenAmount
remaining == graduationTokenAmount - tokensSold

\* quoteBuyExactNative in the current state.
QuoteExact(nativeInput) ==
    ExactQuote(virtualTokenReserve, virtualNativeReserve, remaining, nativeInput)

\* _graduate without its third line: the reserve is spent and still recorded.
GraduateKeepsReserve(tokens, funds, reserve) ==
    /\ adapterUp
    /\ tokens[Pair] # 0
    /\ reserve # 0
    /\ reserve <= funds[Pair]
    /\ status' = "GRADUATED"
    /\ dexPositionId' = 1
    /\ nativeReserve' = reserve
    /\ balanceOf' = Move(tokens, Pair, Dex, tokens[Pair])
    /\ native' = Move(funds, Pair, Dex, reserve)

\* _graduate: the whole recorded reserve and the whole token inventory left
\* after the last sale, `tokens` and `funds`, go to the adapter, which rejects
\* empty liquidity.  If it refuses, the buy that triggered it reverts too.
Graduate(tokens, funds, reserve) ==
    /\ adapterUp
    /\ tokens[Pair] # 0
    /\ reserve # 0
    /\ reserve <= funds[Pair]
    /\ status' = "GRADUATED"
    /\ dexPositionId' = 1
    /\ nativeReserve' = 0
    /\ balanceOf' = Move(tokens, Pair, Dex, tokens[Pair])
    /\ native' = Move(funds, Pair, Dex, reserve)

\* What the buyer gets back of msg.value.
RefundForgetsFee(value, cost, fee) == value - cost
Refund(value, cost, fee) == value - cost - fee

\* The part buy and buyExactNative share: the reserves move, tokens go to the
\* buyer, the fee to the Treasury and what is left of msg.value back.
SettleBuy(u, value, output, cost, fee) ==
    LET tokens  == Move(balanceOf, Pair, u, output)
        refund  == Refund(value, cost, fee)
        funds   == Move(Move(Move(native, u, Pair, value), Pair, Treasury, fee), Pair, u, refund)
    IN  /\ value <= native[u]
        /\ output <= balanceOf[Pair]
        /\ refund >= 0
        /\ tokensSold' = tokensSold + output
        /\ virtualTokenReserve' = virtualTokenReserve - output
        /\ virtualNativeReserve' = virtualNativeReserve + cost
        /\ \/ /\ tokensSold + output # graduationTokenAmount
              /\ nativeReserve' = nativeReserve + cost
              /\ balanceOf' = tokens
              /\ native' = funds
              /\ UNCHANGED phase
           \/ /\ tokensSold + output = graduationTokenAmount
              /\ Graduate(tokens, funds, nativeReserve + cost)
        /\ UNCHANGED <<paused, allowance, adapterUp, donated>>

Buy(u, amount, maxNativeInput, value) ==
    LET cost  == BuyCost(virtualTokenReserve, virtualNativeReserve, amount)
        total == cost + CurveFee(cost)
    IN  /\ Trading
        /\ amount # 0
        /\ tokensSold + amount <= graduationTokenAmount
        /\ total <= maxNativeInput
        /\ total <= value
        /\ SettleBuy(u, value, amount, cost, CurveFee(cost))

BuyExactNative(u, value, minTokenOutput) ==
    LET quote == QuoteExact(value)
    IN  /\ Trading
        /\ value # 0
        /\ quote.tokenOutput # 0
        /\ quote.tokenOutput >= minTokenOutput
        /\ SettleBuy(u, value, quote.tokenOutput, quote.curveInput, quote.fee)

\* The allowance after MemeToken.transferFrom: the infinite one is kept.
Spend(u, amount) ==
    IF allowance[u] = MaxUint THEN allowance ELSE [allowance EXCEPT ![u] = @ - amount]

Sell(u, amount, minNativeOutput) ==
    LET gross == SellGross(virtualTokenReserve, virtualNativeReserve, nativeReserve, amount)
        fee   == CurveFee(gross)
    IN  /\ Trading
        /\ amount # 0
        /\ amount <= tokensSold
        /\ gross - fee >= minNativeOutput
        /\ gross <= nativeReserve
        /\ gross <= native[Pair]
        /\ amount <= allowance[u]
        /\ amount <= balanceOf[u]
        /\ tokensSold' = tokensSold - amount
        /\ nativeReserve' = nativeReserve - gross
        /\ virtualTokenReserve' = virtualTokenReserve + amount
        /\ virtualNativeReserve' = virtualNativeReserve - gross
        /\ allowance' = Spend(u, amount)
        /\ balanceOf' = Move(balanceOf, u, Pair, amount)
        /\ native' = Move(Move(native, Pair, Treasury, fee), Pair, u, gross - fee)
        /\ UNCHANGED <<phase, paused, adapterUp, donated>>

\* setPairPaused by the factory's owner; it works in every status.
SetPaused(shouldPause) ==
    /\ paused # shouldPause
    /\ paused' = shouldPause
    /\ UNCHANGED <<curve, phase, ledger, adapterUp, donated>>

-----------------------------------------------------------------------------
\* MemeToken.approve of the pair.
Approve(u, amount) ==
    /\ allowance' = [allowance EXCEPT ![u] = amount]
    /\ UNCHANGED <<curve, phase, paused, balanceOf, native, adapterUp, donated>>

\* MemeToken.transfer, to anybody: also to the pair itself, which nothing
\* forbids and the curve does not count.
Transfer(u, to, amount) ==
    /\ amount <= balanceOf[u]
    /\ balanceOf' = Move(balanceOf, u, to, amount)
    /\ donated' = IF to = Pair THEN donated + amount ELSE donated
    /\ UNCHANGED <<curve, phase, paused, allowance, native, adapterUp>>

\* Treasury.withdraw by its owner.
Withdraw(recipient, amount) ==
    /\ amount <= native[Treasury]
    /\ native' = Move(native, Treasury, recipient, amount)
    /\ UNCHANGED <<curve, phase, paused, balanceOf, allowance, adapterUp, donated>>

\* The adapter starts or stops accepting liquidity (environment).
AdapterChanges ==
    /\ adapterUp' = ~adapterUp
    /\ UNCHANGED <<curve, phase, paused, ledger, donated>>

Next ==
    \/ \E u \in Users, amount \in TokenAmounts, maxNativeInput, value \in Payments :
            Buy(u, amount, maxNativeInput, value)
    \/ \E u \in Users, value \in Payments, minTokenOutput \in TokenAmounts :
            BuyExactNative(u, value, minTokenOutput)
    \/ \E u \in Users, amount \in TokenAmounts, minNativeOutput \in Payments :
            Sell(u, amount, minNativeOutput)
    \/ \E shouldPause \in BOOLEAN : SetPaused(shouldPause)
    \/ \E u \in Users, amount \in Allowances : Approve(u, amount)
    \/ \E u \in Users, to \in Users \cup {Pair}, amount \in TokenAmounts : Transfer(u, to, amount)
    \/ \E recipient \in Users, amount \in Payments : Withdraw(recipient, amount)
    \/ AdapterChanges

Spec == Init /\ [][Next]_vars

-----------------------------------------------------------------------------
(* Properties.                                                             *)

\* Every variable keeps its shape; in particular no balance, reserve or
\* allowance ever goes below zero, which Solidity would report as a panic.
TypeOK ==
    /\ tokensSold \in 0 .. graduationTokenAmount
    /\ nativeReserve \in Nat
    /\ virtualTokenReserve \in Nat
    /\ virtualNativeReserve \in Nat \ {0}
    /\ status \in {"ACTIVE", "GRADUATED"}
    /\ dexPositionId \in {0, 1}
    /\ paused \in BOOLEAN
    /\ adapterUp \in BOOLEAN
    /\ balanceOf \in [Accounts -> Nat]
    /\ allowance \in [Users -> Nat]
    /\ native \in [Accounts -> Nat]
    /\ donated \in Nat

\* Solvency: the native the pair really holds is the reserve it records, to
\* the wei, through every fee, refund, cap and graduation; and while it is
\* active the virtual reserves are the initial ones moved by exactly what was
\* sold and what is held, so that pricing cannot drift away from custody.
Solvent ==
    /\ native[Pair] = nativeReserve
    /\ virtualTokenReserve = initialVirtualTokenReserve - tokensSold
    /\ status = "ACTIVE" => virtualNativeReserve = initialVirtualNativeReserve + nativeReserve

\* The pair's tokens are exactly the unsold ones, plus what was sent to it by
\* plain transfers: a buy can always be delivered, and the tokens that come
\* back in a sell are the ones that were sold.
Inventory ==
    status = "ACTIVE" => tokensSold + balanceOf[Pair] = initialSupply + donated

\* Graduation is one step: there is no state in which the curve is sold out
\* and still active, and none in which it is closed with the reserve, native
\* or the position missing, whatever the adapter does meanwhile.
GraduationAtomic ==
    /\ status = "ACTIVE" <=> tokensSold < graduationTokenAmount
    /\ status = "GRADUATED" <=> dexPositionId # 0
    /\ status = "GRADUATED" => nativeReserve = 0 /\ native[Pair] = 0 /\ native[Dex] > 0

\* Once graduated the pair is closed for good, whoever pauses, unpauses or
\* sends it tokens.
ClosedForever ==
    [][status = "GRADUATED" => UNCHANGED <<curve, phase>>]_vars

\* The curve's invariant, which rounding moves.
product == virtualTokenReserve * virtualNativeReserve

\* Rounding: a buy never lowers the curve's product, and a sell lowers it by
\* less than one wei's worth, so that a trader is never paid more than the
\* curve by more than the rounding of the last division.
RoundingBounded ==
    [][/\ tokensSold' > tokensSold => product' >= product
       /\ tokensSold' < tokensSold => product' + virtualTokenReserve' > product]_vars

\* Buying an amount and selling it straight back restores the curve: for
\* every amount on sale the sell quote after the buy is the cost of the buy.
RoundTripRestores ==
    status = "ACTIVE" =>
        \A amount \in 1 .. graduationTokenAmount - tokensSold :
            LET cost == BuyCost(virtualTokenReserve, virtualNativeReserve, amount)
            IN  SellGross(virtualTokenReserve - amount, virtualNativeReserve + cost,
                          nativeReserve + cost, amount) = cost

\* The pair implements an escrowed sale, with its actual native balance (not
\* the figure it records) as the escrow.
Sale == INSTANCE TokenSale WITH
            target <- graduationTokenAmount,
            sold   <- tokensSold,
            escrow <- native[Pair],
            open   <- (status = "ACTIVE")

SaleSpec == Sale!Spec

-----------------------------------------------------------------------------
(* What the documents say and the code does not do.                        *)

\* docs/security-review.md:26, "Buy caps total input": a buyExactNative quote
\* never asks for more than the payment it quotes.
QuoteCapsInput ==
    status = "ACTIVE" =>
        \A value \in Payments \ {0} :
            LET quote == QuoteExact(value)
            IN  quote.tokenOutput # 0 => quote.curveInput + quote.fee <= value

\* The comment in quoteSell: rounding makes a full unwind exceed the real
\* reserve by one wei (at most).
UnwindWithinOneWei ==
    status = "ACTIVE" /\ tokensSold > 0 =>
        UncappedGross(virtualTokenReserve, virtualNativeReserve, tokensSold) <= nativeReserve + 1
=============================================================================
