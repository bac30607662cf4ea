----------------------------- MODULE Launchpad -----------------------------
(***************************************************************************)
(* The contracts together: PumpFactory creates tokens with their pairs,    *)
(* pairs sell on a curve and graduate through the adapter they were        *)
(* created with, PumpDexAdapter into a pool of PumpDexFactory and          *)
(* ArcUniswapV3Adapter into a position of an external position manager,    *)
(* and PumpDexPool swaps.  The factory's owner and the deployer of the     *)
(* adapters act in any order; every wiring of the contracts is reached.    *)
(*                                                                         *)
(* Each transaction is atomic and one action; a revert is the action not   *)
(* being enabled.  Module PumpPair has the details of one pair; here a     *)
(* trader has approved whoever takes its tokens.                           *)
(***************************************************************************)
EXTENDS BondingCurve, PumpDex, FiniteSets

CONSTANTS
    Users,
    Tokens,
    DexAdapter,         \* a PumpDexAdapter
    ArcAdapter,         \* an ArcUniswapV3Adapter
    Operator,           \* a contract of the deployer's that is no adapter
    Treasury, PositionManager, Lock,
    None,
    Supply,             \* initialSupply of every token
    Targets,            \* token-sale targets graduationBps can be set to
    V0, N0,             \* initial virtual reserves of a pair
    SCALE,              \* NATIVE_TO_USDC_SCALE
    InitialPrice,       \* initialSqrtPriceX96
    Invertible,         \* whether its reciprocal is a price too
    V3Prices,           \* prices a V3 pool can have
    Mints,              \* price, tokens and USDC of which all is minted
    Wealth,             \* native of each user
    Payments,           \* msg.value of a swap
    Amounts             \* token amounts of one transaction

Pair(t) == <<"pair", t>>
Pool(t) == <<"pool", t>>
Adapters == {DexAdapter, ArcAdapter}
Outside  == Users \cup {Treasury, PositionManager, Operator}
OfTokens == {Pair(t) : t \in Tokens} \cup {Pool(t) : t \in Tokens}
Accounts == Outside \cup Adapters \cup OfTokens

PairRecord == [adapter : Adapters, target : Targets, sold : Nat, reserve : Nat,
               active : BOOLEAN, paused : BOOLEAN, usdcFirst : BOOLEAN]
PoolRecord == [tokenReserve : Nat, nativeReserve : Nat, shares : Nat,
               owner : Users \cup {Lock, None}, seed : Nat]
PositionRecord == [tokens : Nat, usdc : Nat]

\* The checks of the constructors.
ASSUME LaunchAssumption ==
    /\ Supply \in Nat \ {0} /\ V0 \in Nat /\ V0 > Supply
    /\ N0 \in Nat \ {0} /\ SCALE \in Nat \ {0} /\ Wealth \in Nat
    /\ Targets \subseteq 1 .. Supply - 1
    /\ InitialPrice \in V3Prices /\ Invertible \in BOOLEAN
    /\ Payments \subseteq Nat /\ Amounts \subseteq Nat \ {0}

\* Contracts of different kinds have different addresses, and "no contract
\* yet" is none of them.
ASSUME AddressAssumption ==
    /\ DexAdapter # ArcAdapter
    /\ Outside \cap (Adapters \cup OfTokens) = {}
    /\ Adapters \cap OfTokens = {}
    /\ None \notin Accounts \cup PairRecord \cup PoolRecord \cup PositionRecord

VARIABLES
    dexAdapter, target,     \* PumpFactory: what the next pair is created with
    factoryOf,              \* adapter -> whether its factory is set
    poolCreator,            \* PumpDexFactory
    pair,                   \* token -> its PumpPair
    pool,                   \* token -> its PumpDexPool
    position,               \* token -> its position at the position manager
    v3Price,                \* token -> price of its V3 pool
    nativeDust,             \* ArcUniswapV3Adapter
    tokens, native          \* the ledgers: token -> account -> balance

wiring == <<dexAdapter, target, factoryOf, poolCreator>>
ledger == <<tokens, native>>
vars   == <<wiring, pair, pool, position, v3Price, nativeDust, ledger>>

Init ==
    /\ dexAdapter \in Adapters /\ target \in Targets
    /\ factoryOf = [a \in Adapters |-> FALSE]
    /\ poolCreator = None
    /\ pair = [t \in Tokens |-> None]
    /\ pool = [t \in Tokens |-> None]
    /\ position = [t \in Tokens |-> None]
    /\ v3Price = [t \in Tokens |-> InitialPrice]
    /\ nativeDust = 0
    /\ tokens = [t \in Tokens |-> [a \in Accounts |-> 0]]
    /\ native = [a \in Accounts |-> IF a \in Users THEN Wealth ELSE 0]

\* MemeToken._transfer, and a native transfer.
Move(book, from, to, amount) ==
    [[book EXCEPT ![from] = @ - amount] EXCEPT ![to] = @ + amount]
MoveToken(book, t, from, to, amount) == [book EXCEPT ![t] = Move(@, from, to, amount)]
Owns_Unchecked(a, t, amount) == TRUE
Owns(a, t, amount) == amount <= tokens[t][a]

---------------------------------------------------------------------------
\* Deployment and administration.

\* PumpDexFactory.setPoolCreator, once, to any contract.
SetPoolCreator(c) ==
    /\ poolCreator = None
    /\ poolCreator' = c
    /\ UNCHANGED <<dexAdapter, target, factoryOf, pair, pool, position, v3Price, nativeDust, ledger>>

\* setFactory of either adapter, once.
SetFactory(a) ==
    /\ ~factoryOf[a]
    /\ factoryOf' = [factoryOf EXCEPT ![a] = TRUE]
    /\ UNCHANGED <<dexAdapter, target, poolCreator, pair, pool, position, v3Price, nativeDust, ledger>>

SetDexAdapter(a) ==
    /\ dexAdapter' = a
    /\ UNCHANGED <<target, factoryOf, poolCreator, pair, pool, position, v3Price, nativeDust, ledger>>

\* setGraduationBps, and the same reaching the pairs that still sell.
SetGraduationBps_Everywhere(n) ==
    /\ target' = n
    /\ pair' = [t \in Tokens |-> IF pair[t] = None THEN None ELSE [pair[t] EXCEPT !.target = n]]
    /\ UNCHANGED <<dexAdapter, factoryOf, poolCreator, pool, position, v3Price, nativeDust, ledger>>
SetGraduationBps(n) ==
    /\ target' = n
    /\ UNCHANGED <<dexAdapter, factoryOf, poolCreator, pair, pool, position, v3Price, nativeDust, ledger>>

\* createToken: the pair keeps the adapter and the target of this moment; the
\* whole supply is minted to it, and it may collect fees from now on.  The
\* token's address may sort before USDC's or after it.
CreateToken(t, usdcFirst) ==
    /\ pair[t] = None
    /\ pair' = [pair EXCEPT ![t] =
                    [adapter |-> dexAdapter, target |-> target, sold |-> 0, reserve |-> 0,
                     active |-> TRUE, paused |-> FALSE, usdcFirst |-> usdcFirst]]
    /\ tokens' = [tokens EXCEPT ![t][Pair(t)] = Supply]
    /\ UNCHANGED <<wiring, pool, position, v3Price, nativeDust, native>>

SetPairPaused(t, shouldPause) ==
    /\ pair[t] # None /\ pair[t].paused # shouldPause
    /\ pair' = [pair EXCEPT ![t].paused = shouldPause]
    /\ UNCHANGED <<wiring, pool, position, v3Price, nativeDust, ledger>>

---------------------------------------------------------------------------
\* Pools and adapters.

\* createPool, which every pool goes through, and the same without its check
\* of msg.sender.
MayCreatePool_Anybody(c, t) == pool[t] = None
MayCreatePool(c, t) == c = poolCreator /\ pool[t] = None

EmptyPool == [tokenReserve |-> 0, nativeReserve |-> 0, shares |-> 0, owner |-> None, seed |-> 0]

\* addLiquidity of a pool: `seed` is history, the product it was seeded with.
Seeded(amount, value, recipient) ==
    [tokenReserve |-> amount, nativeReserve |-> value, shares |-> Sqrt(amount * value),
     owner |-> recipient, seed |-> amount * value]
MaySeed(p, amount, value) == p.shares = 0 /\ Sqrt(amount * value) # 0

CreatePool(c, t) ==
    /\ MayCreatePool(c, t)
    /\ pool' = [pool EXCEPT ![t] = EmptyPool]
    /\ UNCHANGED <<wiring, pair, position, v3Price, nativeDust, ledger>>

AddLiquidity(u, t, amount, value) ==
    /\ pool[t] # None /\ MaySeed(pool[t], amount, value)
    /\ value # 0 /\ value <= native[u] /\ Owns(u, t, amount)
    /\ pool' = [pool EXCEPT ![t] = Seeded(amount, value, u)]
    /\ tokens' = MoveToken(tokens, t, u, Pool(t), amount)
    /\ native' = Move(native, u, Pool(t), value)
    /\ UNCHANGED <<wiring, pair, position, v3Price, nativeDust>>

\* Whether an adapter takes liquidity from the pair of t.  Both ask the
\* factory whose pair is calling, which is always right for a pair.
DexAccepts(t, amount, value) ==
    /\ factoryOf[DexAdapter] /\ amount # 0 /\ value # 0
    /\ \/ MayCreatePool(DexAdapter, t) /\ MaySeed(EmptyPool, amount, value)
       \/ pool[t] # None /\ MaySeed(pool[t], amount, value)

\* The Arc adapter gives the pool it may have to create its initial price,
\* inverted when USDC is the first token of the pool, and asks for a position
\* of everything: with minimum amounts equal to the desired ones, the position
\* manager, an external contract, only mints what fits the pool's price.  A
\* pool or a position that is none, or has no liquidity, is refused as well;
\* `Mints` leaves those out.
ArcAccepts(t, amount, value) ==
    /\ factoryOf[ArcAdapter] /\ amount # 0 /\ value \div SCALE # 0
    /\ pair[t].usdcFirst => Invertible
    /\ <<v3Price[t], amount, value \div SCALE>> \in Mints

\* Anybody may create the V3 pool beforehand, at any price, or trade in it;
\* only an open pair of this adapter will notice.
InitializeV3Pool(t, price) ==
    /\ pair[t] # None /\ pair[t].active /\ pair[t].adapter = ArcAdapter
    /\ v3Price' = [v3Price EXCEPT ![t] = price]
    /\ UNCHANGED <<wiring, pair, pool, position, nativeDust, ledger>>

\* PumpDexAdapter.addLiquidity: everything goes on to the pool, and the shares
\* to an address nobody controls.
ToDex(t, book, funds, amount, value) ==
    /\ DexAccepts(t, amount, value)
    /\ pool' = [pool EXCEPT ![t] = Seeded(amount, value, Lock)]
    /\ tokens' = MoveToken(book, t, Pair(t), Pool(t), amount)
    /\ native' = Move(funds, Pair(t), Pool(t), value)
    /\ UNCHANGED <<position, nativeDust>>

\* ArcUniswapV3Adapter.addLiquidity: USDC has fewer decimals than the native
\* balance it is, and what does not convert stays with the adapter.
Dust_Forgotten(value) == 0
Dust(value) == value % SCALE
ToArc(t, book, funds, amount, value) ==
    LET usdc == value \div SCALE
        kept == Move(funds, Pair(t), ArcAdapter, value)
    IN  /\ ArcAccepts(t, amount, value)
        /\ position' = [position EXCEPT ![t] = [tokens |-> amount, usdc |-> usdc]]
        /\ tokens' = MoveToken(book, t, Pair(t), PositionManager, amount)
        /\ native' = Move(kept, ArcAdapter, PositionManager, usdc * SCALE)
        /\ nativeDust' = nativeDust + Dust(value)
        /\ UNCHANGED pool

\* sweepNativeDust by the owner of the adapter's factory; with no dust it
\* changes nothing.
SweepNativeDust(recipient) ==
    /\ factoryOf[ArcAdapter] /\ nativeDust # 0
    /\ nativeDust' = 0
    /\ native' = Move(native, ArcAdapter, recipient, nativeDust)
    /\ UNCHANGED <<wiring, pair, pool, position, v3Price, tokens>>

---------------------------------------------------------------------------
\* Traders.

Trading(t) == pair[t] # None /\ pair[t].active /\ ~pair[t].paused
Remaining(t) == pair[t].target - pair[t].sold
CostOf(t, amount) == BuyCost(V0 - pair[t].sold, N0 + pair[t].reserve, amount)

\* buy; the last one graduates the pair, or reverts with its adapter.
Buy(u, t, amount) ==
    /\ Trading(t) /\ amount <= Remaining(t)
    /\ LET cost  == CostOf(t, amount)
           fee   == CurveFee(cost)
           book  == MoveToken(tokens, t, Pair(t), u, amount)
           funds == Move(Move(native, u, Pair(t), cost), u, Treasury, fee)
           after == [pair[t] EXCEPT !.sold = @ + amount, !.reserve = @ + cost]
       IN  /\ cost + fee <= native[u]
           /\ \/ /\ amount < Remaining(t)
                 /\ pair' = [pair EXCEPT ![t] = after]
                 /\ tokens' = book /\ native' = funds
                 /\ UNCHANGED <<pool, position, nativeDust>>
              \/ /\ amount = Remaining(t)
                 /\ pair' = [pair EXCEPT ![t] = [after EXCEPT !.reserve = 0, !.active = FALSE]]
                 /\ \/ /\ after.adapter = DexAdapter
                       /\ ToDex(t, book, funds, book[t][Pair(t)], after.reserve)
                    \/ /\ after.adapter = ArcAdapter
                       /\ ToArc(t, book, funds, book[t][Pair(t)], after.reserve)
    /\ UNCHANGED <<wiring, v3Price>>

Sell(u, t, amount) ==
    /\ Trading(t) /\ Owns(u, t, amount) /\ amount <= pair[t].sold
    /\ LET gross == SellGross(V0 - pair[t].sold, N0 + pair[t].reserve, pair[t].reserve, amount)
           fee   == CurveFee(gross)
       IN  /\ pair' = [pair EXCEPT ![t].sold = @ - amount, ![t].reserve = @ - gross]
           /\ tokens' = MoveToken(tokens, t, u, Pair(t), amount)
           /\ native' = Move(Move(native, Pair(t), Treasury, fee), Pair(t), u, gross - fee)
    /\ UNCHANGED <<wiring, pool, position, v3Price, nativeDust>>

\* swapNativeForToken: the output may even be sent to the pool itself.
SwapNativeForToken(u, t, value, minOutput, recipient) ==
    /\ pool[t] # None /\ value # 0 /\ value <= native[u]
    /\ LET p      == pool[t]
           output == SwapOutput(p.nativeReserve, p.tokenReserve, value)
       IN  /\ Payable(output, minOutput, p.tokenReserve)
           /\ pool' = [pool EXCEPT ![t].nativeReserve = @ + value,
                                   ![t].tokenReserve = @ - output]
           /\ tokens' = MoveToken(tokens, t, Pool(t), recipient, output)
           /\ native' = Move(native, u, Pool(t), value)
    /\ UNCHANGED <<wiring, pair, position, v3Price, nativeDust>>

\* swapTokenForNative; a contract that takes no native makes it revert.
SwapTokenForNative(u, t, amount, minOutput, recipient) ==
    /\ pool[t] # None /\ Owns(u, t, amount)
    /\ LET p      == pool[t]
           output == SwapOutput(p.tokenReserve, p.nativeReserve, amount)
       IN  /\ Payable(output, minOutput, p.nativeReserve)
           /\ pool' = [pool EXCEPT ![t].tokenReserve = @ + amount,
                                   ![t].nativeReserve = @ - output]
           /\ tokens' = MoveToken(tokens, t, u, Pool(t), amount)
           /\ native' = Move(native, Pool(t), recipient, output)
    /\ UNCHANGED <<wiring, pair, position, v3Price, nativeDust>>

\* MemeToken.transfer, to any address.
Transfer(u, t, to, amount) ==
    /\ u # to /\ Owns(u, t, amount)
    /\ tokens' = MoveToken(tokens, t, u, to, amount)
    /\ UNCHANGED <<wiring, pair, pool, position, v3Price, nativeDust, native>>

\* Tokens can be sent to any address.  Nothing reads the token balance of an
\* adapter, which stands for the rest of them too.
Recipients(t) == Users \cup Adapters \cup {Pair(t), Pool(t)}

\* The order of the addresses matters to the Arc adapter only.
Orders == IF dexAdapter = ArcAdapter THEN BOOLEAN ELSE {FALSE}

Next ==
    \/ \E c \in {DexAdapter, Operator} : SetPoolCreator(c)
    \/ \E a \in Adapters : SetFactory(a) \/ SetDexAdapter(a)
    \/ \E n \in Targets : SetGraduationBps(n)
    \/ \E u \in Users : SweepNativeDust(u)
    \/ \E t \in Tokens :
        \/ \E usdcFirst \in Orders : CreateToken(t, usdcFirst)
        \/ \E price \in V3Prices : InitializeV3Pool(t, price)
        \/ \E shouldPause \in BOOLEAN : SetPairPaused(t, shouldPause)
        \/ \E c \in Users \cup {Operator} : CreatePool(c, t)
        \/ \E u \in Users, amount \in Amounts :
            \/ Buy(u, t, amount) \/ Sell(u, t, amount)
            \/ \E value \in Payments : AddLiquidity(u, t, amount, value)
            \/ \E minOutput \in {0, 2}, to \in Users :
                    SwapTokenForNative(u, t, amount, minOutput, to)
            \/ \E to \in Recipients(t) : Transfer(u, t, to, amount)
        \/ \E u \in Users, value \in Payments, minOutput \in {0, 2}, to \in Recipients(t) :
            SwapNativeForToken(u, t, value, minOutput, to)

Spec == Init /\ [][Next]_vars

---------------------------------------------------------------------------
\* Properties.

Open(t)      == pair[t] # None /\ pair[t].active
Graduated(t) == pair[t] # None /\ ~pair[t].active

TypeOK ==
    /\ dexAdapter \in Adapters /\ target \in Targets
    /\ factoryOf \in [Adapters -> BOOLEAN]
    /\ poolCreator \in {None, DexAdapter, Operator}
    /\ pair \in [Tokens -> PairRecord \cup {None}]
    /\ pool \in [Tokens -> PoolRecord \cup {None}]
    /\ position \in [Tokens -> PositionRecord \cup {None}]
    /\ v3Price \in [Tokens -> V3Prices]
    /\ nativeDust \in Nat
    /\ tokens \in [Tokens -> [Accounts -> Nat]]
    /\ native \in [Accounts -> Nat]

\* Custody: every contract holds what it says it holds, to the wei of native
\* and at least as many tokens, for anybody may send tokens to a contract.  A
\* pair has its reserve and the unsold tokens, a pool its reserves, the Arc
\* adapter only the dust it accounts for, and the PumpDex adapter no native.
Custody ==
    /\ \A t \in Tokens :
        /\ Open(t) => /\ native[Pair(t)] = pair[t].reserve
                      /\ tokens[t][Pair(t)] >= Supply - pair[t].sold
        /\ Graduated(t) => native[Pair(t)] = 0
        /\ pool[t] # None => /\ native[Pool(t)] = pool[t].nativeReserve
                             /\ tokens[t][Pool(t)] >= pool[t].tokenReserve
    /\ native[ArcAdapter] = nativeDust
    /\ native[DexAdapter] = 0

\* What graduation leaves behind belongs to nobody: the pool of a pair that
\* graduated into it is owned by the lock, with shares equal to the integer
\* root of the liquidity.  (The root of 2 is 2 in _sqrt, the one value below
\* its range.)
LiquidityLocked ==
    \A t \in Tokens : Graduated(t) /\ pair[t].adapter = DexAdapter =>
        LET p == pool[t]
        IN  /\ p # None /\ p.owner = Lock
            /\ p.seed # 2 => p.shares * p.shares <= p.seed /\ p.seed < (p.shares + 1) * (p.shares + 1)

\* A pool never pays out more than it takes in: no swap in either direction,
\* at any rounding, lowers the product of the reserves.
ProductNeverFalls ==
    [][\A t \in Tokens : pool[t] # None =>
        pool'[t].tokenReserve * pool'[t].nativeReserve
            >= pool[t].tokenReserve * pool[t].nativeReserve]_vars

\* A pair of the PumpDex adapter, once that is wired, can always be completed:
\* whatever the owner, the deployer and the traders have done, the adapter
\* accepts the liquidity of the purchase of all that remains, and nobody can
\* take the place of the pool beforehand.  (Of the Arc adapter that is not so:
\* see ArcAccepts.)
DexWired == factoryOf[DexAdapter] /\ poolCreator = DexAdapter
WiredPairsGraduate ==
    \A t \in Tokens : Open(t) /\ pair[t].adapter = DexAdapter /\ DexWired =>
        DexAccepts(t, tokens[t][Pair(t)] - Remaining(t),
                   pair[t].reserve + CostOf(t, Remaining(t)))

\* A pair's terms are those it was created with: no step, setDexAdapter and
\* setGraduationBps included, changes the adapter or the target of an open
\* pair, and it closes exactly when that target is sold, into that adapter.
TermsAreFixed ==
    [][\A t \in Tokens : Open(t) =>
        /\ pair'[t].adapter = pair[t].adapter /\ pair'[t].target = pair[t].target
        /\ ~pair'[t].active <=> pair'[t].sold = pair[t].target
        /\ position'[t] # None => pair[t].adapter = ArcAdapter]_vars
=============================================================================
