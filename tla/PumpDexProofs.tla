---------------------------- MODULE PumpDexProofs ----------------------------
(***************************************************************************)
(* Facts about a pool's arithmetic for every fee and every pair of         *)
(* reserves: a swap cannot lower the product of the reserves, a larger one *)
(* pays no less, and the iteration of _sqrt ends at the integer root.      *)
(* Induction over the natural numbers is by the least counterexample       *)
(* (LeastNat).                                                             *)
(***************************************************************************)
EXTENDS PumpDex, BondingCurveProofs, WellFoundedInduction

\* Every set of natural numbers that is not empty has a least element.
LEMMA LeastNat ==
    ASSUME NEW T \in SUBSET Nat, T # {}
    PROVE  \E x \in T : \A y \in T : x <= y
  <1> DEFINE R == OpToRel(<, Nat)
  <1>1. IsWellFoundedOn(R, Nat)
    BY NatLessThanWellFounded
  <1>2. \A x, y \in Nat : x < y => <<x, y>> \in R
    BY DEF OpToRel
  <1> HIDE DEF R
  <1>3. \E x \in T : \A y \in T : ~ (<<y, x>> \in R)
    BY <1>1, WFMin, Zenon
  <1>4. PICK x \in T : \A y \in T : ~ (<<y, x>> \in R)
    BY <1>3
  <1>5. ASSUME NEW y \in T PROVE x <= y
    <2>1. x \in Nat /\ y \in Nat
      OBVIOUS
    <2>2. ~ (y < x)
      BY <1>2, <1>4, <2>1
    <2> QED
      BY <2>1, <2>2
  <1> QED
    BY <1>5

-----------------------------------------------------------------------------
(* Swaps.                                                                  *)

\* The pool's fee never eats the whole input.
LEMMA EffectiveInputBounds ==
    ASSUME NEW a \in Nat \ {0}
    PROVE  EffectiveInput(a) \in Nat \ {0} /\ EffectiveInput(a) <= a
  <1>1. dexFeeBps \in Nat /\ DEX_BPS \in Nat \ {0} /\ dexFeeBps < DEX_BPS
    BY DexFeeAssumption
  <1>2. a * dexFeeBps \in Nat /\ a * dexFeeBps < a * DEX_BPS
    BY <1>1, Z3
  <1> DEFINE q == (a * dexFeeBps) \div DEX_BPS
  <1>3. q \in Nat /\ q * DEX_BPS <= a * dexFeeBps
    BY <1>1, <1>2, DivBounds
  <1>4. ~ (q >= a)
    <2> SUFFICES ASSUME q >= a PROVE FALSE
      OBVIOUS
    <2>1. q * DEX_BPS >= a * DEX_BPS
      BY <1>1, <1>3, Z3
    <2> QED
      BY <1>1, <1>2, <1>3, <2>1
  <1> QED
    BY <1>3, <1>4 DEF EffectiveInput

\* What a swap pays leaves the product of the reserves where it was or above,
\* and never exceeds the reserve it is paid from.
LEMMA SwapOutputBounds ==
    ASSUME NEW x \in Nat, NEW y \in Nat, NEW a \in Nat \ {0}
    PROVE  /\ SwapOutput(x, y, a) \in Nat
           /\ SwapOutput(x, y, a) <= y
           /\ (x + a) * (y - SwapOutput(x, y, a)) >= x * y
  <1> DEFINE e == EffectiveInput(a)
             o == (y * e) \div (x + e)
  <1>1. e \in Nat \ {0} /\ e <= a
    BY EffectiveInputBounds
  <1> HIDE DEF e
  <1>2. y * e \in Nat /\ x + e \in Nat \ {0}
    BY <1>1, Z3
  <1>3. o \in Nat /\ o * (x + e) <= y * e
    BY <1>2, DivBounds
  <1> HIDE DEF o
  <1>4. ~ (o > y)
    <2> SUFFICES ASSUME o >= y + 1 PROVE FALSE
      BY <1>3
    <2>1. o * (x + e) >= (y + 1) * (x + e)
      BY <1>2, <1>3, Z3
    <2>2. (y + 1) * (x + e) > y * e
      BY <1>1, Z3
    <2>3. o * (x + e) \in Nat /\ (y + 1) * (x + e) \in Nat
      BY <1>1, <1>3, Z3
    <2> QED
      BY <1>2, <1>3, <2>1, <2>2, <2>3
  <1>5. (x + a) * (y - o) >= (x + e) * (y - o)
    BY <1>1, <1>3, <1>4, Z3
  <1>6. (x + e) * (y - o) = x * y + y * e - o * (x + e)
    BY <1>1, <1>3, Z3
  <1>7. (x + a) * (y - o) >= x * y
    <2>1. /\ (x + a) * (y - o) \in Int /\ (x + e) * (y - o) \in Int
          /\ x * y \in Int /\ o * (x + e) \in Int
      BY <1>1, <1>3, Z3
    <2> QED
      BY <1>2, <1>3, <1>5, <1>6, <2>1
  <1>8. SwapOutput(x, y, a) = o
    BY DEF SwapOutput, o, e
  <1> QED
    BY <1>3, <1>4, <1>7, <1>8

LEMMA EffectiveInputGrows ==
    ASSUME NEW a \in Nat \ {0}, NEW b \in Nat, a <= b
    PROVE  EffectiveInput(a) <= EffectiveInput(b)
  <1>1. dexFeeBps \in Nat /\ DEX_BPS \in Nat \ {0} /\ dexFeeBps <= DEX_BPS
    BY DexFeeAssumption
  <1>2. a - (a * dexFeeBps) \div DEX_BPS <= b - (b * dexFeeBps) \div DEX_BPS
    BY <1>1, ShareGrows
  <1> QED
    BY <1>2 DEF EffectiveInput

\* A larger swap never pays less, fee included: what a quote promised for an
\* amount is a lower bound for every larger one.
THEOREM LargerSwapsPayMore ==
    ASSUME NEW x \in Nat, NEW y \in Nat, NEW a \in Nat \ {0}, NEW b \in Nat, a <= b
    PROVE  SwapOutput(x, y, a) <= SwapOutput(x, y, b)
  <1> DEFINE e == EffectiveInput(a)
             f == EffectiveInput(b)
             o == SwapOutput(x, y, a)
             g == f - e
  <1>1. b \in Nat \ {0} /\ e \in Nat \ {0} /\ f \in Nat \ {0} /\ e <= f
    BY EffectiveInputBounds, EffectiveInputGrows
  <1>2. o = (y * e) \div (x + e) /\ SwapOutput(x, y, b) = (y * f) \div (x + f)
    BY DEF SwapOutput
  <1>3. o <= y
    BY SwapOutputBounds
  <1> HIDE DEF e, f, o
  <1>4. y * e \in Nat /\ y * f \in Nat /\ x + e \in Nat \ {0} /\ x + f \in Nat \ {0}
    BY <1>1, Z3
  <1>5. o \in Nat /\ o * (x + e) <= y * e
    BY <1>2, <1>4, DivBounds
  <1>6. g \in Nat /\ f = e + g
    BY <1>1
  <1> HIDE DEF g
  <1>7. o * (x + f) = o * (x + e) + o * g /\ y * f = y * e + y * g
    BY <1>1, <1>5, <1>6, Z3
  <1>8. o * g <= y * g
    BY <1>3, <1>5, <1>6, Z3
  <1>9. o * (x + f) <= y * f
    <2>1. o * (x + e) \in Int /\ o * g \in Int /\ y * g \in Int
      BY <1>1, <1>5, <1>6
    <2> QED
      BY <1>4, <1>5, <1>7, <1>8, <2>1
  <1> QED
    BY <1>2, <1>4, <1>5, <1>9, DivGreatest DEF o

-----------------------------------------------------------------------------
(* _sqrt.                                                                  *)

IsRoot(v, s) == s \in Nat /\ s * s <= v /\ v < (s + 1) * (s + 1)

LEMMA RootExists ==
    ASSUME NEW v \in Nat
    PROVE  \E s \in Nat : IsRoot(v, s)
  <1> DEFINE T == {n \in Nat : n * n > v}
  <1>1. v + 1 \in T
    <2>1. (v + 1) * (v + 1) > v
      BY Z3
    <2> QED
      BY <2>1
  <1>2. PICK m \in T : \A y \in T : m <= y
    <2>1. T \in SUBSET Nat /\ T # {}
      BY <1>1
    <2> HIDE DEF T
    <2> QED
      BY <2>1, LeastNat
  <1>3. m # 0
    OBVIOUS
  <1>4. m - 1 \in Nat /\ m - 1 \notin T
    <2>1. m - 1 \in Nat
      BY <1>3
    <2>2. ~ (m <= m - 1)
      OBVIOUS
    <2> QED
      BY <1>2, <2>1, <2>2
  <1>5. ~ ((m - 1) * (m - 1) > v)
    BY <1>4
  <1>6. (m - 1) * (m - 1) <= v
    BY <1>4, <1>5, Z3
  <1>7. (m - 1) + 1 = m
    OBVIOUS
  <1>8. v < m * m
    OBVIOUS
  <1> QED
    BY <1>4, <1>6, <1>7, <1>8 DEF IsRoot

\* One step of the iteration never falls below the root, goes down from above
\* it, and does not go down from the root or from below.
LEMMA NewtonBounds ==
    ASSUME NEW v \in Nat \ {0}, NEW s, IsRoot(v, s), NEW r \in Nat \ {0}
    PROVE  /\ s \in Nat \ {0}
           /\ Newton(v, r) \in Nat /\ Newton(v, r) >= s
           /\ r > s => Newton(v, r) < r
           /\ r <= s => Newton(v, r) >= r
  <1> DEFINE q == v \div r
             n == (q + r) \div 2
  <1>1. s \in Nat /\ s * s <= v /\ v < (s + 1) * (s + 1)
    BY DEF IsRoot
  <1>2. s # 0
    BY <1>1
  <1>3. q \in Nat /\ q * r <= v /\ v < q * r + r
    BY DivBounds
  <1> HIDE DEF q
  <1>4. n \in Nat /\ 2 * n <= q + r /\ q + r < 2 * n + 2
    BY <1>3
  <1> HIDE DEF n
  <1>5. n >= s
    <2> SUFFICES ASSUME n <= s - 1 PROVE FALSE
      BY <1>1, <1>4
    <2>1. (q + 1) + r <= 2 * s
      BY <1>1, <1>3, <1>4
    <2>2. (q + 1) * r <= s * s
      <3>1. \A i, j \in Nat : i + j <= 2 * s => 4 * (i * j) <= (2 * s) * (2 * s)
        <4> SUFFICES ASSUME NEW i \in Nat, NEW j \in Nat, i + j <= 2 * s
                     PROVE  4 * (i * j) <= (2 * s) * (2 * s)
          OBVIOUS
        <4>1. (i + j) * (i + j) <= (2 * s) * (2 * s)
          BY <1>1, Z3
        <4>2. (i + j) * (i + j) - 4 * (i * j) = (i - j) * (i - j)
          BY Z3
        <4>3. (i - j) * (i - j) >= 0
          BY Z3
        <4> QED
          BY <1>1, <4>1, <4>2, <4>3, Z3
      <3>2. 4 * ((q + 1) * r) <= (2 * s) * (2 * s)
        <4>1. q + 1 \in Nat /\ r \in Nat
          BY <1>3
        <4> QED
          BY <2>1, <3>1, <4>1, Zenon
      <3> QED
        BY <1>1, <1>3, <3>2, Z3
    <2>3. (q + 1) * r = q * r + r
      BY <1>3, Z3
    <2> QED
      BY <1>1, <1>3, <2>2, <2>3, Z3
  <1>6. ASSUME r > s PROVE n < r
    <2>1. r * r >= (s + 1) * (s + 1)
      BY <1>1, <1>6, Z3
    <2>2. ~ (q >= r)
      <3> SUFFICES ASSUME q >= r PROVE FALSE
        OBVIOUS
      <3>1. q * r >= r * r
        BY <1>3, Z3
      <3> QED
        BY <1>1, <1>3, <2>1, <3>1, Z3
    <2> QED
      BY <1>3, <1>4, <2>2
  <1>7. ASSUME r <= s PROVE n >= r
    BY <1>1, <1>4, <1>5, <1>7
  <1>8. Newton(v, r) = n
    BY DEF Newton, n, q
  <1> QED
    BY <1>1, <1>2, <1>4, <1>5, <1>6, <1>7, <1>8

\* Iterate is defined for every positive value, and takes everything from the
\* root upwards to the root.
LEMMA IterateEnds ==
    ASSUME NEW v \in Nat \ {0}, NEW s, IsRoot(v, s), NEW r \in Nat \ {0}, r >= s
    PROVE  Iterate(v)[r] = s
  <1> DEFINE D == Nat \ {0}
             step(f) == [x \in D |-> IF Newton(v, x) < x THEN f[Newton(v, x)] ELSE x]
             G == [x \in D |-> IF x < s THEN x ELSE s]
             F == CHOOSE f : f = step(f)
  <1>1. /\ s \in D
        /\ \A x \in D : /\ Newton(v, x) \in D /\ Newton(v, x) >= s
                        /\ x > s => Newton(v, x) < x
                        /\ x <= s => ~ (Newton(v, x) < x)
    <2>1. s \in D
      BY NewtonBounds
    <2>2. ASSUME NEW x \in D
          PROVE  /\ Newton(v, x) \in D /\ Newton(v, x) >= s
                 /\ x > s => Newton(v, x) < x
                 /\ x <= s => ~ (Newton(v, x) < x)
      <3>1. /\ Newton(v, x) \in Nat /\ Newton(v, x) >= s
            /\ x > s => Newton(v, x) < x
            /\ x <= s => Newton(v, x) >= x
        BY NewtonBounds
      <3> QED
        BY <2>1, <3>1
    <2> QED
      BY <2>1, <2>2
  <1>2. G = step(G)
    <2>1. ASSUME NEW x \in D
          PROVE  G[x] = IF Newton(v, x) < x THEN G[Newton(v, x)] ELSE x
      <3>1. CASE x > s
        BY <1>1, <3>1
      <3>2. CASE x <= s
        BY <1>1, <3>2
      <3> QED
        BY <1>1, <3>1, <3>2
    <2> QED
      BY <2>1
  <1>3. F = step(F)
    BY <1>2
  <1> HIDE DEF F
  <1>4. ASSUME NEW x \in D, x >= s PROVE F[x] = s
    <2> DEFINE Bad == {y \in D : y >= s /\ F[y] # s}
    <2> SUFFICES ASSUME Bad # {} PROVE FALSE
      BY <1>4
    <2>1. PICK y \in Bad : \A z \in Bad : y <= z
      <3>1. Bad \in SUBSET Nat
        OBVIOUS
      <3> HIDE DEF Bad
      <3> QED
        BY <3>1, LeastNat
    <2>2. F[y] = IF Newton(v, y) < y THEN F[Newton(v, y)] ELSE y
      BY <1>3
    <2>3. CASE y > s
      <3>1. Newton(v, y) \in D /\ Newton(v, y) >= s /\ Newton(v, y) < y
        BY <1>1, <2>3
      <3>2. Newton(v, y) \notin Bad
        BY <2>1, <3>1
      <3> QED
        BY <2>2, <3>1, <3>2
    <2>4. CASE y = s
      BY <1>1, <2>2, <2>4
    <2> QED
      BY <1>1, <2>3, <2>4
  <1>5. Iterate(v) = F
    BY DEF Iterate, F
  <1> QED
    BY <1>4, <1>5

\* _sqrt is the integer square root of every value but 2, of which it is 2:
\* the estimate value / 2 + 1 it starts from is not below 2.
THEOREM SqrtIsRoot ==
    ASSUME NEW v \in Nat
    PROVE  /\ v # 2 => Sqrt(v) * Sqrt(v) <= v /\ v < (Sqrt(v) + 1) * (Sqrt(v) + 1)
           /\ v # 0 => Sqrt(v) \in Nat \ {0}
  <1>1. CASE v = 0
    BY <1>1 DEF Sqrt
  <1>2. CASE v # 0
    <2> DEFINE first == v \div 2 + 1
    <2>1. PICK s \in Nat : IsRoot(v, s)
      BY RootExists
    <2>2. s * s <= v /\ v < (s + 1) * (s + 1) /\ s # 0
      BY <1>2, <2>1 DEF IsRoot
    <2>3. first \in Nat \ {0} /\ 2 * first >= v + 1
      BY <1>2
    <2>4. CASE first < v
      <3>1. first >= s
        <4> SUFFICES ASSUME first <= s - 1 PROVE FALSE
          BY <2>3
        <4>1. v <= 2 * s - 3
          BY <2>3
        <4> QED
          BY <2>2, <4>1, Z3
      <3>2. Sqrt(v) = Iterate(v)[first]
        BY <1>2, <2>4 DEF Sqrt
      <3>3. Iterate(v)[first] = s
        BY <1>2, <2>1, <2>3, <3>1, IterateEnds
      <3> QED
        BY <2>2, <3>2, <3>3
    <2>5. CASE ~ (first < v)
      <3>1. v \in {1, 2}
        BY <1>2, <2>5
      <3>2. Sqrt(v) = v
        BY <1>2, <2>5 DEF Sqrt
      <3> QED
        BY <3>1, <3>2
    <2> QED
      BY <2>4, <2>5
  <1> QED
    BY <1>1, <1>2
=============================================================================
