------------------------- MODULE BondingCurveProofs -------------------------
(***************************************************************************)
(* Facts about the curve's arithmetic for every fee and every pair of      *)
(* reserves: what integer division bounds, that a buy always costs         *)
(* something, that buying and selling back is neutral, and how the quotes  *)
(* of larger, split and capped orders compare.                             *)
(***************************************************************************)
EXTENDS BondingCurve, TLAPS

\* Integer division is the unique quotient with a remainder below the divisor.
LEMMA DivBounds ==
    ASSUME NEW n \in Nat, NEW d \in Nat \ {0}
    PROVE  /\ n \div d \in Nat
           /\ (n \div d) * d <= n
           /\ n < (n \div d) * d + d
  BY Z3

LEMMA DivUnique ==
    ASSUME NEW n \in Nat, NEW d \in Nat \ {0}, NEW q \in Int,
           q * d <= n, n < q * d + d
    PROVE  n \div d = q
  <1> DEFINE p == n \div d
  <1>1. p \in Nat /\ p * d <= n /\ n < p * d + d
    BY DivBounds
  <1>2. ~ (p < q)
    BY <1>1, Z3
  <1>3. ~ (q < p)
    BY <1>1, Z3
  <1> QED
    BY <1>1, <1>2, <1>3

\* _ceilDiv is the least quotient whose product reaches the numerator.
LEMMA CeilDivBounds ==
    ASSUME NEW n \in Nat \ {0}, NEW d \in Nat \ {0}
    PROVE  /\ CeilDiv(n, d) \in Nat \ {0}
           /\ CeilDiv(n, d) * d >= n
           /\ CeilDiv(n, d) * d < n + d
  <1> DEFINE q == (n - 1) \div d
  <1>1. q \in Nat /\ q * d <= n - 1 /\ n - 1 < q * d + d
    BY DivBounds
  <1>2. CeilDiv(n, d) = q + 1
    BY DEF CeilDiv
  <1>3. (q + 1) * d = q * d + d
    BY <1>1
  <1> QED
    BY <1>1, <1>2, <1>3

\* The quotient rounded down is the greatest whose product stays within the
\* numerator, the one rounded up the least whose product reaches it.
LEMMA DivGreatest ==
    ASSUME NEW n \in Nat, NEW d \in Nat \ {0}, NEW p \in Nat, p * d <= n
    PROVE  p <= n \div d
  <1> DEFINE q == n \div d
  <1>1. q \in Nat /\ n < q * d + d
    BY DivBounds
  <1> HIDE DEF q
  <1>2. ~ (p >= q + 1)
    <2> SUFFICES ASSUME p >= q + 1 PROVE FALSE
      OBVIOUS
    <2>1. p * d >= (q + 1) * d
      BY <1>1, Z3
    <2>2. (q + 1) * d = q * d + d /\ p * d \in Nat /\ q * d \in Nat
      BY <1>1
    <2> QED
      BY <1>1, <2>1, <2>2
  <1>3. p <= q
    BY <1>1, <1>2
  <1> QED
    BY <1>3 DEF q

LEMMA CeilDivLeast ==
    ASSUME NEW n \in Nat \ {0}, NEW d \in Nat \ {0}, NEW p \in Nat, p * d >= n
    PROVE  CeilDiv(n, d) <= p
  <1> DEFINE q == CeilDiv(n, d)
  <1>1. q \in Nat \ {0} /\ q * d < n + d
    BY CeilDivBounds
  <1> HIDE DEF q
  <1>2. ~ (q >= p + 1)
    <2> SUFFICES ASSUME q >= p + 1 PROVE FALSE
      OBVIOUS
    <2>1. q * d >= (p + 1) * d
      BY <1>1, Z3
    <2>2. (p + 1) * d = p * d + d /\ p * d \in Nat /\ q * d \in Nat
      BY <1>1
    <2> QED
      BY <1>1, <2>1, <2>2
  <1>3. q <= p
    BY <1>1, <1>2
  <1> QED
    BY <1>3 DEF q

-----------------------------------------------------------------------------
(* Buying.  V and N are the virtual token and native reserves.             *)

\* What quoteBuy charges moves the product up, by less than one unit of the
\* token reserve that is left.
LEMMA BuyCostBounds ==
    ASSUME NEW V \in Nat, NEW N \in Nat \ {0}, NEW a \in Nat \ {0}, a < V
    PROVE  /\ BuyCost(V, N, a) \in Nat \ {0}
           /\ (N + BuyCost(V, N, a)) * (V - a) >= V * N
           /\ (N + BuyCost(V, N, a)) * (V - a) < V * N + (V - a)
  <1> DEFINE q == CeilDiv(V * N, V - a)
  <1>1. V * N \in Nat \ {0} /\ V - a \in Nat \ {0}
    BY Z3
  <1>2. q \in Nat \ {0} /\ q * (V - a) >= V * N /\ q * (V - a) < V * N + (V - a)
    BY <1>1, CeilDivBounds
  <1>3. N * (V - a) < V * N
    BY Z3
  <1>4. ~ (q <= N)
    <2> SUFFICES ASSUME q <= N PROVE FALSE
      OBVIOUS
    <2>1. q * (V - a) <= N * (V - a)
      BY <1>1, <1>2, Z3
    <2> QED
      BY <1>1, <1>2, <1>3, <2>1
  <1>5. BuyCost(V, N, a) = q - N
    BY DEF BuyCost
  <1>6. N + BuyCost(V, N, a) = q
    BY <1>2, <1>5
  <1> QED
    BY <1>2, <1>4, <1>5, <1>6

\* A payment that already includes the fee buys at the curve's price or above:
\* the product does not go down, and tokens are left.
LEMMA TokensForBounds ==
    ASSUME NEW V \in Nat \ {0}, NEW N \in Nat \ {0}, NEW c \in Nat
    PROVE  /\ TokensFor(V, N, c) \in Nat
           /\ TokensFor(V, N, c) < V
           /\ (N + c) * (V - TokensFor(V, N, c)) >= V * N
  <1> DEFINE q == CeilDiv(V * N, N + c)
  <1>1. V * N \in Nat \ {0} /\ N + c \in Nat \ {0}
    BY Z3
  <1>2. q \in Nat \ {0} /\ q * (N + c) >= V * N /\ q * (N + c) < V * N + (N + c)
    BY <1>1, CeilDivBounds
  <1>3. V * (N + c) >= V * N
    BY Z3
  <1>4. ~ (q > V)
    <2> SUFFICES ASSUME q >= V + 1 PROVE FALSE
      BY <1>2
    <2>1. q * (N + c) >= (V + 1) * (N + c)
      BY <1>1, <1>2, Z3
    <2>2. (V + 1) * (N + c) = V * (N + c) + (N + c)
      OBVIOUS
    <2> QED
      BY <1>1, <1>2, <1>3, <2>1, <2>2
  <1>5. TokensFor(V, N, c) = V - q
    BY DEF TokensFor
  <1>6. V - TokensFor(V, N, c) = q
    BY <1>2, <1>5
  <1>7. (N + c) * q = q * (N + c)
    BY <1>2
  <1> QED
    BY <1>2, <1>4, <1>5, <1>6, <1>7

-----------------------------------------------------------------------------
(* Selling.                                                                *)

\* The uncapped sell quote lies between nothing and the whole virtual
\* reserve, and lowers the product by less than the new token reserve.
LEMMA UncappedGrossBounds ==
    ASSUME NEW V \in Nat, NEW N \in Nat \ {0}, NEW a \in Nat \ {0}
    PROVE  /\ UncappedGross(V, N, a) \in Nat
           /\ UncappedGross(V, N, a) <= N
           /\ (N - UncappedGross(V, N, a)) * (V + a) + (V + a) > V * N
  <1> DEFINE q == (V * N) \div (V + a)
  <1>1. V * N \in Nat /\ V + a \in Nat \ {0}
    BY Z3
  <1>2. q \in Nat /\ q * (V + a) <= V * N /\ V * N < q * (V + a) + (V + a)
    BY <1>1, DivBounds
  <1>3. V * N < (N + 1) * (V + a)
    BY Z3
  <1>4. ~ (q > N)
    <2> SUFFICES ASSUME q >= N + 1 PROVE FALSE
      BY <1>2
    <2>1. q * (V + a) >= (N + 1) * (V + a)
      BY <1>1, <1>2, Z3
    <2> QED
      BY <1>1, <1>2, <1>3, <2>1
  <1>5. UncappedGross(V, N, a) = N - q /\ N - UncappedGross(V, N, a) = q
    BY <1>2 DEF UncappedGross
  <1> QED
    BY <1>2, <1>4, <1>5

\* The capped quote never exceeds the real reserve, and since the cap only
\* lowers it, the same bound on the product holds.
LEMMA SellGrossBounds ==
    ASSUME NEW V \in Nat, NEW N \in Nat \ {0}, NEW a \in Nat \ {0}, NEW r \in Nat, r <= N
    PROVE  /\ SellGross(V, N, r, a) \in Nat
           /\ SellGross(V, N, r, a) <= r
           /\ (N - SellGross(V, N, r, a)) * (V + a) + (V + a) > V * N
  <1> DEFINE g == UncappedGross(V, N, a)
             s == SellGross(V, N, r, a)
  <1>1. g \in Nat /\ g <= N /\ (N - g) * (V + a) + (V + a) > V * N
    BY UncappedGrossBounds
  <1>2. s = IF g > r THEN r ELSE g
    BY DEF SellGross
  <1>3. s \in Nat /\ s <= r /\ s <= g
    BY <1>1, <1>2
  <1>4. (N - s) * (V + a) >= (N - g) * (V + a)
    BY <1>1, <1>3, Z3
  <1>5. (N - s) * (V + a) \in Int /\ (N - g) * (V + a) \in Int /\ V * N \in Int
    BY <1>1, <1>3
  <1> QED
    BY <1>1, <1>3, <1>4, <1>5

\* A fee is never more than the amount it is taken from.
LEMMA CurveFeeBounds ==
    ASSUME NEW c \in Nat
    PROVE  CurveFee(c) \in Nat /\ CurveFee(c) <= c
  <1>1. feeBps \in Nat /\ BPS_DENOMINATOR \in Nat \ {0} /\ feeBps <= BPS_DENOMINATOR
    BY FeeAssumption
  <1>2. c * feeBps \in Nat /\ c * feeBps <= c * BPS_DENOMINATOR
    BY <1>1, Z3
  <1> DEFINE q == (c * feeBps) \div BPS_DENOMINATOR
  <1>3. q \in Nat /\ q * BPS_DENOMINATOR <= c * feeBps
    BY <1>1, <1>2, DivBounds
  <1>4. ~ (q > c)
    <2> SUFFICES ASSUME q >= c + 1 PROVE FALSE
      BY <1>3
    <2>1. q * BPS_DENOMINATOR >= (c + 1) * BPS_DENOMINATOR
      BY <1>1, <1>3, Z3
    <2>2. (c + 1) * BPS_DENOMINATOR = c * BPS_DENOMINATOR + BPS_DENOMINATOR
      BY <1>1
    <2> QED
      BY <1>1, <1>2, <1>3, <2>1, <2>2
  <1> QED
    BY <1>3, <1>4 DEF CurveFee

\* The fee included in a payment leaves a positive amount for the curve.
LEMMA IncludedFeeBounds ==
    ASSUME NEW v \in Nat \ {0}
    PROVE  IncludedFee(v) \in Nat /\ IncludedFee(v) < v
  <1>1. feeBps \in Nat /\ BPS_DENOMINATOR \in Nat \ {0}
    BY FeeAssumption
  <1> DEFINE d == BPS_DENOMINATOR + feeBps
             q == (v * feeBps) \div d
  <1>2. d \in Nat \ {0} /\ v * feeBps \in Nat /\ v * feeBps < v * d
    BY <1>1, Z3
  <1>3. q \in Nat /\ q * d <= v * feeBps
    BY <1>2, DivBounds
  <1>4. ~ (q >= v)
    <2> SUFFICES ASSUME q >= v PROVE FALSE
      OBVIOUS
    <2>1. q * d >= v * d
      BY <1>2, <1>3, Z3
    <2> QED
      BY <1>2, <1>3, <2>1
  <1> QED
    BY <1>3, <1>4 DEF IncludedFee

-----------------------------------------------------------------------------
\* Buying tokens and selling them straight back returns exactly what they
\* cost, before fees, from every reserves a pair can have (quoteBuy, then
\* quoteSell of the same amount).
THEOREM BuyThenSellIsNeutral ==
    ASSUME NEW V \in Nat, NEW N \in Nat \ {0}, NEW r \in Nat, NEW a \in Nat \ {0}, a < V
    PROVE  SellGross(V - a, N + BuyCost(V, N, a), r + BuyCost(V, N, a), a) = BuyCost(V, N, a)
  <1> DEFINE c == BuyCost(V, N, a)
             k == (V - a) * (N + c)
  <1>1. c \in Nat \ {0} /\ (N + c) * (V - a) >= V * N /\ (N + c) * (V - a) < V * N + (V - a)
    BY BuyCostBounds
  <1>2. k = (N + c) * (V - a) /\ k \in Nat
    BY <1>1, Z3
  <1>3. N * V <= k /\ k < N * V + V
    <2>1. V * N = N * V /\ V * N \in Nat
      OBVIOUS
    <2> QED
      BY <1>1, <1>2, <2>1
  <1>4. k \div V = N
    BY <1>2, <1>3, DivUnique
  <1>5. (V - a) + a = V
    OBVIOUS
  <1>6. UncappedGross(V - a, N + c, a) = (N + c) - N
    BY <1>4, <1>5 DEF UncappedGross
  <1> HIDE DEF c
  <1>7. UncappedGross(V - a, N + c, a) = c
    BY <1>1, <1>6
  <1>8. ~ (c > r + c)
    BY <1>1
  <1>9. SellGross(V - a, N + c, r + c, a) = c
    BY <1>7, <1>8 DEF SellGross
  <1> QED
    BY <1>9 DEF c

-----------------------------------------------------------------------------
(* Larger amounts and split ones.                                          *)

\* Whoever offers a price for so many tokens that leaves the product where it
\* was, offers at least what quoteBuy asks.
LEMMA BuyCostLeast ==
    ASSUME NEW V \in Nat, NEW N \in Nat \ {0}, NEW a \in Nat \ {0}, a < V,
           NEW c \in Nat, (N + c) * (V - a) >= V * N
    PROVE  BuyCost(V, N, a) <= c
  <1>1. V * N \in Nat \ {0} /\ V - a \in Nat \ {0} /\ N + c \in Nat
    BY Z3
  <1>2. CeilDiv(V * N, V - a) <= N + c
    BY <1>1, CeilDivLeast
  <1>3. CeilDiv(V * N, V - a) \in Nat
    BY <1>1, CeilDivBounds
  <1> QED
    BY <1>2, <1>3 DEF BuyCost

LEMMA BuyCostGrows ==
    ASSUME NEW V \in Nat, NEW N \in Nat \ {0}, NEW a \in Nat \ {0}, NEW b \in Nat, a <= b, b < V
    PROVE  BuyCost(V, N, a) <= BuyCost(V, N, b)
  <1> DEFINE c == BuyCost(V, N, b)
  <1>1. c \in Nat /\ (N + c) * (V - b) >= V * N
    BY BuyCostBounds
  <1> HIDE DEF c
  <1>2. (N + c) * (V - a) >= (N + c) * (V - b)
    BY <1>1, Z3
  <1>3. (N + c) * (V - a) >= V * N
    <2>1. (N + c) * (V - a) \in Int /\ (N + c) * (V - b) \in Int /\ V * N \in Int
      BY <1>1
    <2> QED
      BY <1>1, <1>2, <2>1
  <1>4. BuyCost(V, N, a) <= c
    BY <1>1, <1>3, BuyCostLeast
  <1> QED
    BY <1>4 DEF c

LEMMA TokensForGrows ==
    ASSUME NEW V \in Nat \ {0}, NEW N \in Nat \ {0}, NEW c \in Nat, NEW e \in Nat, c <= e
    PROVE  TokensFor(V, N, c) <= TokensFor(V, N, e)
  <1> DEFINE p == CeilDiv(V * N, N + c)
             q == CeilDiv(V * N, N + e)
  <1>1. V * N \in Nat \ {0} /\ N + c \in Nat \ {0} /\ N + e \in Nat \ {0}
    BY Z3
  <1>2. p \in Nat /\ p * (N + c) >= V * N /\ q \in Nat
    BY <1>1, CeilDivBounds
  <1> HIDE DEF p
  <1>3. p * (N + e) >= p * (N + c)
    BY <1>2, Z3
  <1>4. p * (N + e) >= V * N
    <2>1. p * (N + e) \in Int /\ p * (N + c) \in Int
      BY <1>2
    <2> QED
      BY <1>1, <1>2, <1>3, <2>1
  <1>5. q <= p
    BY <1>1, <1>2, <1>4, CeilDivLeast
  <1>6. TokensFor(V, N, c) = V - p /\ TokensFor(V, N, e) = V - q
    BY DEF TokensFor, p
  <1> QED
    BY <1>2, <1>5, <1>6

LEMMA SellGrossGrows ==
    ASSUME NEW V \in Nat, NEW N \in Nat \ {0}, NEW r \in Nat,
           NEW a \in Nat \ {0}, NEW b \in Nat, a <= b
    PROVE  SellGross(V, N, r, a) <= SellGross(V, N, r, b)
  <1> DEFINE p == (V * N) \div (V + a)
             q == (V * N) \div (V + b)
  <1>1. V * N \in Nat /\ V + a \in Nat \ {0} /\ V + b \in Nat \ {0}
    BY Z3
  <1>2. p \in Nat /\ q \in Nat /\ q * (V + b) <= V * N
    BY <1>1, DivBounds
  <1> HIDE DEF q
  <1>3. q * (V + a) <= q * (V + b)
    BY <1>2, Z3
  <1>4. q * (V + a) <= V * N
    <2>1. q * (V + a) \in Int /\ q * (V + b) \in Int
      BY <1>2
    <2> QED
      BY <1>1, <1>2, <1>3, <2>1
  <1>5. q <= p
    BY <1>1, <1>2, <1>4, DivGreatest
  <1> HIDE DEF p
  <1>6. UncappedGross(V, N, a) = N - p /\ UncappedGross(V, N, b) = N - q
    BY DEF UncappedGross, p, q
  <1> QED
    BY <1>2, <1>5, <1>6 DEF SellGross

\* No larger order is quoted less: buying more costs at least as much
\* (quoteBuy), paying more buys at least as much (quoteBuyExactNative before
\* its cap) and selling more returns at least as much (quoteSell, whose cap by
\* the real reserve is included).
THEOREM LargerOrdersQuoteMore ==
    ASSUME NEW V \in Nat \ {0}, NEW N \in Nat \ {0}, NEW r \in Nat,
           NEW a \in Nat \ {0}, NEW b \in Nat, a <= b
    PROVE  /\ b < V => BuyCost(V, N, a) <= BuyCost(V, N, b)
           /\ TokensFor(V, N, a) <= TokensFor(V, N, b)
           /\ SellGross(V, N, r, a) <= SellGross(V, N, r, b)
  <1>1. b < V => BuyCost(V, N, a) <= BuyCost(V, N, b)
    BY BuyCostGrows
  <1>2. TokensFor(V, N, a) <= TokensFor(V, N, b)
    BY TokensForGrows
  <1>3. SellGross(V, N, r, a) <= SellGross(V, N, r, b)
    BY SellGrossGrows
  <1> QED
    BY <1>1, <1>2, <1>3

\* Splitting a buy never makes it cheaper on the curve: the two parts, the
\* second quoted from the reserves the first leaves behind, cost together at
\* least what quoteBuy asks for the whole.
THEOREM SplitBuysCostMore ==
    ASSUME NEW V \in Nat, NEW N \in Nat \ {0}, NEW a \in Nat \ {0}, NEW b \in Nat \ {0},
           a + b < V
    PROVE  BuyCost(V, N, a + b)
             <= BuyCost(V, N, a) + BuyCost(V - a, N + BuyCost(V, N, a), b)
  <1> DEFINE c == BuyCost(V, N, a)
             W == V - a
             M == N + c
             e == BuyCost(W, M, b)
  <1>1. c \in Nat /\ M * W >= V * N
    BY BuyCostBounds
  <1>2. W \in Nat /\ M \in Nat \ {0} /\ b < W /\ W - b = V - (a + b)
    BY <1>1
  <1> HIDE DEF c
  <1>3. e \in Nat /\ (M + e) * (W - b) >= W * M
    BY <1>2, BuyCostBounds
  <1> HIDE DEF e
  <1>4. W * M = M * W /\ M + e = N + (c + e) /\ c + e \in Nat
    BY <1>1, <1>2, <1>3
  <1>5. (N + (c + e)) * (V - (a + b)) >= V * N
    <2>1. M * W \in Int /\ V * N \in Int /\ (M + e) * (W - b) \in Int
      BY <1>2, <1>3
    <2>2. (M + e) * (W - b) >= V * N
      BY <1>1, <1>3, <1>4, <2>1
    <2> QED
      BY <1>2, <1>4, <2>2
  <1>6. a + b \in Nat \ {0}
    OBVIOUS
  <1>7. BuyCost(V, N, a + b) <= c + e
    BY <1>4, <1>5, <1>6, BuyCostLeast
  <1> QED
    BY <1>7 DEF c, e

\* A share of a larger amount is larger, but by no more than the amount is: what
\* is left of a payment after its fee grows with the payment.
LEMMA ShareGrows ==
    ASSUME NEW v \in Nat, NEW w \in Nat, v <= w, NEW f \in Nat, NEW d \in Nat \ {0}, f <= d
    PROVE  /\ (v * f) \div d \in Nat /\ (w * f) \div d \in Nat
           /\ (v * f) \div d <= (w * f) \div d
           /\ v - (v * f) \div d <= w - (w * f) \div d
  <1> DEFINE k == (v * f) \div d
             m == (w * f) \div d
             x == w - v
  <1>1. v * f \in Nat /\ w * f \in Nat
    BY Z3
  <1>2. /\ k \in Nat /\ k * d <= v * f /\ v * f < k * d + d
        /\ m \in Nat /\ m * d <= w * f
    BY <1>1, DivBounds
  <1>3. x \in Nat /\ w = v + x
    OBVIOUS
  <1> HIDE DEF x, k
  <1>4. w * f = v * f + x * f
    BY <1>3, Z3
  <1>5. x * f \in Nat /\ x * f <= x * d /\ x * d \in Nat
    BY <1>3, Z3
  <1>6. k <= m
    <2>1. k * d <= w * f
      BY <1>1, <1>2, <1>4, <1>5
    <2> QED
      BY <1>1, <1>2, <2>1, DivGreatest
  <1> HIDE DEF m
  <1>7. ~ (m >= k + x + 1)
    <2> SUFFICES ASSUME m >= k + x + 1 PROVE FALSE
      OBVIOUS
    <2>1. m * d >= (k + x + 1) * d
      BY <1>2, <1>3, Z3
    <2>2. (k + x + 1) * d = k * d + x * d + d
      BY <1>2, <1>3, Z3
    <2>3. m * d \in Nat /\ k * d \in Nat
      BY <1>2
    <2> QED
      BY <1>1, <1>2, <1>4, <1>5, <2>1, <2>2, <2>3
  <1>8. m <= k + x
    BY <1>2, <1>3, <1>7
  <1> QED
    BY <1>2, <1>3, <1>6, <1>8 DEF k, m

\* The fee computed again from a cost within the net payment exceeds the fee
\* included in the payment by at most one wei.
LEMMA FeeAgain ==
    ASSUME NEW v \in Nat \ {0}, NEW c \in Nat, c <= v - IncludedFee(v)
    PROVE  CurveFee(c) <= IncludedFee(v) + 1
  <1> DEFINE B == BPS_DENOMINATOR
             f == feeBps
             k == (v * f) \div (B + f)
             q == (c * f) \div B
  <1>1. B \in Nat \ {0} /\ f \in Nat /\ f < B
    BY FeeAssumption
  <1> HIDE DEF B, f
  <1>2. v * f \in Nat /\ c * f \in Nat /\ B + f \in Nat \ {0}
    BY <1>1, Z3
  <1>3. /\ k \in Nat /\ v * f < k * (B + f) + (B + f)
        /\ q \in Nat /\ q * B <= c * f
    BY <1>1, <1>2, DivBounds
  <1>4. c <= v - k
    BY DEF IncludedFee, B, f
  <1> HIDE DEF k, q
  <1>5. c * f <= v * f - k * f
    <2>1. c * f <= (v - k) * f
      BY <1>1, <1>3, <1>4, Z3
    <2>2. (v - k) * f = v * f - k * f
      BY <1>1, <1>3, Z3
    <2> QED
      BY <2>1, <2>2
  <1>6. k * (B + f) = k * B + k * f /\ k * B \in Nat /\ k * f \in Nat
    BY <1>1, <1>3, Z3
  <1>7. q * B < k * B + B + B
    <2>1. q * B \in Nat
      BY <1>1, <1>3
    <2> QED
      BY <1>1, <1>2, <1>3, <1>5, <1>6, <2>1
  <1>8. ~ (q >= k + 2)
    <2> SUFFICES ASSUME q >= k + 2 PROVE FALSE
      OBVIOUS
    <2>1. q * B >= (k + 2) * B
      BY <1>1, <1>3, Z3
    <2>2. (k + 2) * B = k * B + B + B /\ q * B \in Nat
      BY <1>1, <1>3, Z3
    <2> QED
      BY <1>1, <1>6, <1>7, <2>1, <2>2
  <1>9. q <= k + 1
    BY <1>3, <1>8
  <1> QED
    BY <1>9 DEF CurveFee, IncludedFee, B, f, k, q

\* quoteBuyExactNative for every payment: it takes exactly the payment unless
\* it is capped, a capped quote takes all that remains for at most one wei more
\* than the payment, and a larger payment never buys less.
THEOREM ExactQuoteBounds ==
    ASSUME NEW V \in Nat, NEW N \in Nat \ {0}, NEW remains \in Nat \ {0}, remains < V,
           NEW v \in Nat \ {0}, NEW w \in Nat, v <= w,
           NEW q, q = ExactQuote(V, N, remains, v), NEW s, s = ExactQuote(V, N, remains, w)
    PROVE  /\ q.tokenOutput < remains => q.curveInput + q.fee = v
           /\ q.curveInput + q.fee <= v + 1
           /\ q.tokenOutput <= s.tokenOutput /\ s.tokenOutput <= remains
  <1> DEFINE c == v - IncludedFee(v)
             e == w - IncludedFee(w)
             out == TokensFor(V, N, c)
             more == TokensFor(V, N, e)
             last == BuyCost(V, N, remains)
  <1>1. /\ IncludedFee(v) \in Nat /\ c \in Nat /\ e \in Nat /\ c <= e
        /\ c + IncludedFee(v) = v
    <2>1. feeBps \in Nat /\ BPS_DENOMINATOR + feeBps \in Nat \ {0}
          /\ feeBps <= BPS_DENOMINATOR + feeBps
      BY FeeAssumption
    <2>2. v - IncludedFee(v) <= w - IncludedFee(w) /\ IncludedFee(v) \in Nat /\ IncludedFee(w) \in Nat
      BY <2>1, ShareGrows DEF IncludedFee
    <2>3. IncludedFee(v) < v
      BY IncludedFeeBounds
    <2> QED
      BY <2>2, <2>3
  <1> HIDE DEF c, e
  <1>2. /\ out \in Nat /\ more \in Nat /\ out <= more
        /\ (N + c) * (V - out) >= V * N
    <2>1. V \in Nat \ {0} /\ w \in Nat /\ c \in Nat /\ e \in Nat
      BY <1>1
    <2>2. out \in Nat /\ (N + c) * (V - out) >= V * N
      BY <2>1, TokensForBounds
    <2>3. more \in Nat
      BY <2>1, TokensForBounds
    <2>4. out <= more
      BY <1>1, <2>1, TokensForGrows
    <2> QED
      BY <2>2, <2>3, <2>4
  <1>3. last \in Nat
    BY BuyCostBounds
  <1> HIDE DEF out, more, last
  <1>4. q = IF out > remains
            THEN [tokenOutput |-> remains, fee |-> CurveFee(last), curveInput |-> last]
            ELSE [tokenOutput |-> out, fee |-> IncludedFee(v), curveInput |-> c]
    BY DEF ExactQuote, c, out, last
  <1>5. s.tokenOutput = IF more > remains THEN remains ELSE more
    BY DEF ExactQuote, e, more
  <1>6. q.tokenOutput = IF out > remains THEN remains ELSE out
    BY <1>4
  <1>7. q.tokenOutput <= s.tokenOutput /\ s.tokenOutput <= remains
    BY <1>2, <1>5, <1>6
  <1>8. CASE ~ (out > remains)
    <2>1. q.curveInput + q.fee = v
      BY <1>1, <1>4, <1>8
    <2> QED
      BY <1>7, <2>1
  <1>9. CASE out > remains
    <2>1. last <= c
      <3>1. (N + c) * (V - remains) >= (N + c) * (V - out)
        BY <1>1, <1>2, <1>9, Z3
      <3>2. (N + c) * (V - remains) >= V * N
        <4>1. (N + c) * (V - remains) \in Int /\ (N + c) * (V - out) \in Int /\ V * N \in Int
          BY <1>1, <1>2
        <4> QED
          BY <1>2, <3>1, <4>1
      <3> QED
        BY <1>1, <3>2, BuyCostLeast DEF last
    <2>2. CurveFee(last) <= IncludedFee(v) + 1 /\ CurveFee(last) \in Nat
      BY <1>3, <2>1, FeeAgain, CurveFeeBounds DEF c
    <2>3. q.curveInput = last /\ q.fee = CurveFee(last) /\ q.tokenOutput = remains
      BY <1>4, <1>9
    <2> QED
      BY <1>1, <1>3, <1>7, <2>1, <2>2, <2>3
  <1> QED
    BY <1>8, <1>9
=============================================================================
