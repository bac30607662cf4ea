------------------------ MODULE EventProcessorProofs ------------------------
(***************************************************************************)
(* The processor's invariants, for any wallets, tokens, amounts, prices,   *)
(* histories and restarts.                                                 *)
(*                                                                         *)
(* A handler is a function from the database to the database, so most of   *)
(* the proof is about operators: what each leaves in each table            *)
(* (...Effect), that it keeps the types (...Typed), and what one log does  *)
(* to a database that mirrors the chain (FeeLog, CurveLog, DexLog,         *)
(* GraduatedLog, CreatedLog).  Then the chain.  `Told` says of a history   *)
(* that, in a pass of an empty database over it (`Pass`), each log is      *)
(* accounted for at its turn (`Accounted`: processed, refused for a reason *)
(* RefusesOnlyMoved names, or the duplicate of an overlooked token), and   *)
(* that a pass to its end leaves a mirror of the chain but for the         *)
(* overlooked tokens.  A log keeps that when it `Fits` what the chain goes *)
(* through, because every row of a database has its log in the history     *)
(* (`Sound`): only a launch or a graduation that is not the first of its   *)
(* transaction can meet a rival in a unique index (NoRival).  The          *)
(* ...History lemmas show that each call on the chain keeps `History`.     *)
(*                                                                         *)
(* What the database says of itself needs less.  `Books` (counters and     *)
(* sums are those of the rows) and `Annals` (candles and first trades,     *)
(* which depend on the order of the rows) are kept by each log, given that *)
(* a trade whose key is new is later than every row: the keys of a history *)
(* ascend (`Lined`) and the keys recorded are those of a prefix            *)
(* (`Reached`).  BookInv is all of that; ReplayInv adds that the database  *)
(* is what one pass over a prefix left, no shorter than the cursor, and    *)
(* that process() has nothing more to do for any log of that prefix        *)
(* (`Settled`), whether it was processed or lost to a unique index.        *)
(***************************************************************************)
EXTENDS EventProcessor, FiniteSetTheorems, SequenceTheorems, WellFoundedInduction, TLAPS

Names == {"TokenCreated", "FeeCollected", "Buy", "Sell", "SwapIn", "SwapOut", "Graduated", "Garbled"}

\* What the chain can hand to the processor.
LogOK(log) ==
    /\ log.name \in Names
    /\ log.tx \in Nat /\ log.index \in Nat
    /\ log.amount \in Nat /\ log.quote \in Nat
    /\ log.tokenReserve \in Nat /\ log.nativeReserve \in Nat
    /\ IsTrade(log) => log.amount # 0 /\ (log.token \in Tokens => log.wallet \in Wallets)
    /\ Kept(log) /\ log.name \in {"TokenCreated", "FeeCollected"} => log.token \in Tokens

Shaped(d) ==
    d = [events |-> d.events, wallets |-> d.wallets, trades |-> d.trades, fees |-> d.fees,
         token |-> d.token, pool |-> d.pool, holder |-> d.holder, candles |-> d.candles,
         stats |-> d.stats]

Typed(d) ==
    /\ Shaped(d)
    /\ d.token \in [Tokens -> TokenRow \cup {NoRow}]
    /\ d.pool \in [Tokens -> PoolRow \cup {NoRow}]
    /\ \A t \in Tokens : d.token[t] = NoRow <=> d.pool[t] = NoRow
    /\ d.holder \in [Tokens -> [Wallets -> Nat]]
    /\ d.stats \in Stats

\* The rows of a trade or a fee belong to logs with the keys `keys`.
Linked(d, keys) ==
    /\ \A x \in d.trades : x.key \in keys /\ x.wallet \in d.wallets
    /\ \A x \in d.fees : x.key \in keys

DbOK(d) == Typed(d) /\ Linked(d, d.events)

-----------------------------------------------------------------------------
\* Arithmetic.

LEMMA Quotient == ASSUME NEW a \in Int, NEW b \in Nat \ {0}
                  PROVE  a \div b \in Int /\ (a >= 0 => a \div b \in Nat)
  OBVIOUS

LEMMA Product == ASSUME NEW a \in Int, NEW b \in Int
                 PROVE  a * b \in Int /\ (a >= 0 /\ b >= 0 => a * b >= 0)
  OBVIOUS

LEMMA PriceType == ASSUME NEW log, LogOK(log), IsTrade(log) PROVE Price(log) \in Nat
  <1>1. log.amount \in Nat \ {0} /\ log.quote \in Nat /\ WAD \in Nat
    BY EventAssumption DEF LogOK
  <1>2. log.quote * WAD \in Int /\ log.quote * WAD >= 0
    BY <1>1, Product
  <1> QED
    BY <1>1, <1>2, Quotient DEF Price

LEMMA ProgressType ==
    ASSUME NEW c \in Int, NEW threshold \in Nat \ {0}
    PROVE  Progress(c, threshold) \in Int
  <1> DEFINE a == 100 * WAD
             b == (c * 100 * WAD) \div threshold
  <1>1. a \in Int /\ c * 100 \in Int
    BY EventAssumption
  <1>2. (c * 100) * WAD \in Int
    BY <1>1, EventAssumption, Product
  <1>3. b \in Int
    BY <1>2, Quotient
  <1> HIDE DEF a, b
  <1>4. \E x \in {a, b} : \A y \in {a, b} : x =< y
    BY <1>1, <1>3
  <1>5. Min({a, b}) \in {a, b}
    BY <1>4 DEF Min
  <1> QED
    BY <1>1, <1>3, <1>5 DEF Progress, a, b

LEMMA ProgressZero == Progress(0, Target) = 0
  <1>1. Target \in Nat \ {0} /\ WAD \in Nat
    BY EventAssumption
  <1>2. (0 * 100) * WAD = 0 /\ 0 \div Target = 0 /\ 100 * WAD \in Nat
    BY <1>1
  <1>3. Progress(0, Target) = Min({100 * WAD, 0})
    BY <1>2 DEF Progress
  <1>4. PICK a \in Nat : a = 100 * WAD
    BY <1>2
  <1>5. Min({a, 0}) = 0
    BY DEF Min
  <1> QED
    BY <1>3, <1>4, <1>5

-----------------------------------------------------------------------------
\* Sums.  `Total` folds a function over its domain in an order it chooses:
\* `g` has the sums over all subsets on the way.  Inductions are by least
\* counterexample.

Chosen(s) == CHOOSE x \in s : TRUE
SumAt(f, g, s) == IF s = {} THEN 0 ELSE f[Chosen(s)] + g[s \ {Chosen(s)}]
Sums(f, g) == g = [s \in SUBSET DOMAIN f |-> SumAt(f, g, s)]

LEMMA LeastNat ==
    ASSUME NEW T \in SUBSET Nat, T # {}
    PROVE  \E x \in T : \A y \in T : x <= y
  <1> DEFINE R == OpToRel(<, Nat)
  <1>1. IsWellFoundedOn(R, Nat)
    BY NatLessThanWellFounded
  <1>2. \A x, y \in Nat : x < y => <<x, y>> \in R
    BY DEF OpToRel
  <1> HIDE DEF R
  <1>3. PICK x \in T : \A y \in T : ~ (<<y, x>> \in R)
    BY <1>1, WFMin, Zenon
  <1>4. \A y \in T : x \in Nat /\ y \in Nat /\ ~ (y < x)
    BY <1>2, <1>3
  <1> QED
    BY <1>4

LEMMA LeastSet ==
    ASSUME NEW S, IsFiniteSet(S), NEW T, T \subseteq SUBSET S, T # {}
    PROVE  \E s \in T : \A u \in T : u \subseteq s => u = s
  <1>1. IsWellFoundedOn(StrictSubsetOrdering(S), SUBSET S)
    BY FS_StrictSubsetOrderingWellFounded, FS_FiniteSubsetsOfFinite
  <1>2. PICK s \in T : \A u \in T : ~ (<<u, s>> \in StrictSubsetOrdering(S))
    BY <1>1, WFMin, Zenon
  <1>3. ASSUME NEW u \in T, u \subseteq s PROVE u = s
    BY <1>2, <1>3 DEF StrictSubsetOrdering
  <1> QED
    BY <1>3

LEMMA OneLess ==
    ASSUME NEW S, IsFiniteSet(S), NEW s \in SUBSET S, s # {}
    PROVE  /\ IsFiniteSet(s) /\ Cardinality(s) \in Nat
           /\ Chosen(s) \in s /\ s \ {Chosen(s)} \in SUBSET S
           /\ Cardinality(s \ {Chosen(s)}) = Cardinality(s) - 1
  <1>1. IsFiniteSet(s) /\ Chosen(s) \in s
    BY FS_Subset DEF Chosen
  <1> QED
    BY <1>1, FS_CardinalityType, FS_RemoveElement

\* The recursion has a solution.
LEMMA SumsExist ==
    ASSUME NEW f, IsFiniteSet(DOMAIN f)
    PROVE  \E g : Sums(f, g)
  <1> DEFINE S == DOMAIN f
             Right(g, n) == \A s \in SUBSET S : Cardinality(s) <= n => g[s] = SumAt(f, g, s)
             Bad == {n \in Nat : ~ \E g : Right(g, n)}
             top == Cardinality(S)
  <1>1. top \in Nat
    BY FS_CardinalityType
  <1> HIDE DEF top
  <1>2. 0 \notin Bad
    <2> DEFINE g == [s \in SUBSET S |-> 0]
    <2>1. ASSUME NEW s \in SUBSET S, Cardinality(s) <= 0 PROVE g[s] = SumAt(f, g, s)
      <3>1. IsFiniteSet(s) /\ Cardinality(s) \in Nat
        BY FS_Subset, FS_CardinalityType
      <3>2. s = {}
        BY <2>1, <3>1, FS_EmptySet
      <3> QED
        BY <3>2 DEF SumAt
    <2> QED
      BY <2>1
  <1>3. ASSUME NEW n \in Nat, n \notin Bad PROVE n + 1 \notin Bad
    <2>1. PICK g : Right(g, n)
      BY <1>3
    <2> DEFINE h == [s \in SUBSET S |-> SumAt(f, g, s)]
    <2>2. ASSUME NEW s \in SUBSET S, Cardinality(s) <= n + 1 PROVE h[s] = SumAt(f, h, s)
      <3>1. CASE s = {}
        BY <3>1 DEF SumAt
      <3>2. CASE s # {}
        <4>1. PICK u \in SUBSET S : u = s \ {Chosen(s)}
          BY <3>2, OneLess
        <4>2. Cardinality(u) <= n
          <5>1. Cardinality(s) \in Nat /\ Cardinality(u) = Cardinality(s) - 1
            BY <3>2, <4>1, OneLess
          <5> QED
            BY <2>2, <5>1
        <4>3. g[u] = SumAt(f, g, u) /\ h[u] = SumAt(f, g, u) /\ h[s] = SumAt(f, g, s)
          BY <2>1, <4>2
        <4> QED
          BY <3>2, <4>1, <4>3 DEF SumAt
      <3> QED
        BY <3>1, <3>2
    <2>3. Right(h, n + 1)
      BY <2>2
    <2> QED
      BY <2>3
  <1> HIDE DEF Bad
  <1>4. Bad = {}
    <2> SUFFICES ASSUME Bad # {} PROVE FALSE
      OBVIOUS
    <2>1. Bad \in SUBSET Nat
      BY DEF Bad
    <2>2. PICK n \in Bad : \A m \in Bad : n <= m
      BY <2>1, LeastNat
    <2>3. n \in Nat /\ n # 0
      BY <1>2, <2>1
    <2>4. n - 1 \in Nat /\ (n - 1) + 1 = n /\ ~ (n <= n - 1)
      BY <2>3
    <2>5. n - 1 \notin Bad
      BY <2>2, <2>4
    <2> QED
      BY <1>3, <2>4, <2>5
  <1>5. PICK g : Right(g, top)
    BY <1>1, <1>4 DEF Bad
  <1> DEFINE h == [s \in SUBSET S |-> g[s]]
  <1>6. ASSUME NEW s \in SUBSET S PROVE h[s] = SumAt(f, h, s)
    <2>1. Cardinality(s) <= top
      BY FS_Subset DEF top
    <2>2. g[s] = SumAt(f, g, s)
      BY <1>5, <2>1
    <2>3. s # {} => s \ {Chosen(s)} \in SUBSET S
      OBVIOUS
    <2> QED
      BY <2>2, <2>3 DEF SumAt
  <1>7. h = [s \in SUBSET S |-> SumAt(f, h, s)]
    BY <1>6
  <1>8. Sums(f, h)
    BY <1>7 DEF Sums
  <1> QED
    BY <1>8

LEMMA TotalIs ==
    ASSUME NEW f, IsFiniteSet(DOMAIN f)
    PROVE  \E g : Sums(f, g) /\ Total(f) = g[DOMAIN f]
  <1>1. Total(f) = (CHOOSE g : Sums(f, g))[DOMAIN f]
    BY DEF Total, FoldFunction, FoldFunctionOnSet, MapThenFoldSet, Sums, SumAt, Chosen
  <1> QED
    BY <1>1, SumsExist

LEMMA SumsSplit ==
    ASSUME NEW f, NEW g, Sums(f, g), NEW s \in SUBSET DOMAIN f, s # {}
    PROVE  g[s] = f[Chosen(s)] + g[s \ {Chosen(s)}] /\ g[{}] = 0 /\ Chosen(s) \in s
  BY DEF Sums, SumAt, Chosen

LEMMA SumsType ==
    ASSUME NEW f, f \in [DOMAIN f -> Nat], IsFiniteSet(DOMAIN f), NEW g, Sums(f, g),
           NEW s \in SUBSET DOMAIN f
    PROVE  g[s] \in Nat
  <1> DEFINE Bad == {u \in SUBSET DOMAIN f : g[u] \notin Nat}
  <1> SUFFICES Bad = {}
    OBVIOUS
  <1> SUFFICES ASSUME Bad # {} PROVE FALSE
    OBVIOUS
  <1>0. Bad \subseteq SUBSET DOMAIN f
    OBVIOUS
  <1> HIDE DEF Bad
  <1>1. PICK u \in Bad : \A v \in Bad : v \subseteq u => v = u
    BY <1>0, LeastSet
  <1> USE DEF Bad
  <1>2. u # {}
    BY DEF Sums, SumAt
  <1>3. /\ g[u] = f[Chosen(u)] + g[u \ {Chosen(u)}] /\ Chosen(u) \in u
        /\ u \in SUBSET DOMAIN f
    BY <1>2, SumsSplit
  <1>4. u \ {Chosen(u)} \notin Bad
    BY <1>1, <1>3
  <1>5. g[u \ {Chosen(u)}] \in Nat /\ f[Chosen(u)] \in Nat
    BY <1>3, <1>4
  <1> QED
    BY <1>3, <1>5

\* Any element may be taken first.
LEMMA AnyFirst ==
    ASSUME NEW f, f \in [DOMAIN f -> Nat], IsFiniteSet(DOMAIN f), NEW g, Sums(f, g),
           NEW s \in SUBSET DOMAIN f, NEW x \in s
    PROVE  g[s] = f[x] + g[s \ {x}]
  <1> DEFINE Bad == {u \in SUBSET DOMAIN f : \E y \in u : g[u] # f[y] + g[u \ {y}]}
  <1> SUFFICES Bad = {}
    OBVIOUS
  <1> SUFFICES ASSUME Bad # {} PROVE FALSE
    OBVIOUS
  <1>0. Bad \subseteq SUBSET DOMAIN f
    OBVIOUS
  <1> HIDE DEF Bad
  <1>1. PICK u \in Bad : \A v \in Bad : v \subseteq u => v = u
    BY <1>0, LeastSet
  <1> USE DEF Bad
  <1>2. PICK y \in u : g[u] # f[y] + g[u \ {y}]
    BY <1>1
  <1>3. PICK c : c = Chosen(u)
    OBVIOUS
  <1>4. g[u] = f[c] + g[u \ {c}] /\ c \in u /\ u \in SUBSET DOMAIN f
    <2>1. u \in SUBSET DOMAIN f /\ u # {}
      BY <1>1, <1>2
    <2>2. g[u] = f[Chosen(u)] + g[u \ {Chosen(u)}] /\ Chosen(u) \in u
      <3> HIDE DEF Bad
      <3> QED
        BY <2>1, SumsSplit
    <2> QED
      BY <1>3, <2>1, <2>2
  <1>5. c # y
    BY <1>2, <1>4
  <1> DEFINE v == u \ {c}
             w == u \ {y}
             z == (u \ {c}) \ {y}
  <1>6. /\ v \in SUBSET DOMAIN f /\ w \in SUBSET DOMAIN f /\ z \in SUBSET DOMAIN f
        /\ v # u /\ w # u /\ y \in v /\ c \in w /\ z = v \ {y} /\ z = w \ {c}
    BY <1>4, <1>5
  <1>7. v \notin Bad /\ w \notin Bad
    BY <1>1, <1>6
  <1>8. g[v] = f[y] + g[z]
    BY <1>6, <1>7
  <1>9. g[w] = f[c] + g[z]
    BY <1>6, <1>7
  <1>10. g[z] \in Nat /\ f[y] \in Nat /\ f[c] \in Nat
    BY <1>4, <1>6, SumsType
  <1> HIDE DEF v, w, z, Bad
  <1>11. g[u] = f[c] + g[v] /\ g[u] # f[y] + g[w]
    BY <1>2, <1>4 DEF v, w
  <1> QED
    BY <1>8, <1>9, <1>10, <1>11

\* The sum over a set depends on the values there alone.
LEMMA SumsAgree ==
    ASSUME NEW f, IsFiniteSet(DOMAIN f), NEW g, Sums(f, g), NEW e, NEW h, Sums(e, h),
           NEW s \in SUBSET DOMAIN f, s \subseteq DOMAIN e, \A x \in s : e[x] = f[x]
    PROVE  g[s] = h[s]
  <1> DEFINE Bad == {u \in SUBSET DOMAIN f : u \subseteq s /\ g[u] # h[u]}
  <1> SUFFICES Bad = {}
    OBVIOUS
  <1> SUFFICES ASSUME Bad # {} PROVE FALSE
    OBVIOUS
  <1>0. Bad \subseteq SUBSET DOMAIN f
    OBVIOUS
  <1> HIDE DEF Bad
  <1>1. PICK u \in Bad : \A v \in Bad : v \subseteq u => v = u
    BY <1>0, LeastSet
  <1> USE DEF Bad
  <1>2. u \in SUBSET DOMAIN f /\ u \in SUBSET DOMAIN e /\ u \subseteq s /\ g[u] # h[u]
    BY <1>1
  <1>3. u # {}
    BY <1>2 DEF Sums, SumAt
  <1>4. /\ g[u] = f[Chosen(u)] + g[u \ {Chosen(u)}] /\ Chosen(u) \in u
        /\ h[u] = e[Chosen(u)] + h[u \ {Chosen(u)}]
    BY <1>2, <1>3, SumsSplit
  <1>5. u \ {Chosen(u)} \notin Bad
    BY <1>1, <1>4
  <1>6. g[u \ {Chosen(u)}] = h[u \ {Chosen(u)}] /\ e[Chosen(u)] = f[Chosen(u)]
    BY <1>2, <1>4, <1>5
  <1> QED
    BY <1>2, <1>4, <1>6

LEMMA TotalType ==
    ASSUME NEW f, f \in [DOMAIN f -> Nat], IsFiniteSet(DOMAIN f)
    PROVE  Total(f) \in Nat
  BY TotalIs, SumsType

\* A sum is one of its terms and the sum of the others.
LEMMA TotalSplit ==
    ASSUME NEW f, f \in [DOMAIN f -> Nat], IsFiniteSet(DOMAIN f), NEW x \in DOMAIN f
    PROVE  Total(f) = f[x] + Total([y \in DOMAIN f \ {x} |-> f[y]])
  <1> DEFINE e == [y \in DOMAIN f \ {x} |-> f[y]]
  <1>1. DOMAIN e = DOMAIN f \ {x} /\ IsFiniteSet(DOMAIN e)
    BY FS_RemoveElement
  <1>2. PICK g : Sums(f, g) /\ Total(f) = g[DOMAIN f]
    BY TotalIs
  <1>3. PICK h : Sums(e, h) /\ Total(e) = h[DOMAIN e]
    BY <1>1, TotalIs
  <1>4. g[DOMAIN f] = f[x] + g[DOMAIN f \ {x}]
    <2>1. PICK s \in SUBSET DOMAIN f : s = DOMAIN f
      OBVIOUS
    <2>2. x \in s /\ Sums(f, g)
      BY <1>2, <2>1
    <2>3. g[s] = f[x] + g[s \ {x}]
      BY <2>2, AnyFirst
    <2> QED
      BY <2>1, <2>3
  <1>5. DOMAIN e \in SUBSET DOMAIN f /\ \A y \in DOMAIN e : e[y] = f[y]
    OBVIOUS
  <1> HIDE DEF e
  <1>6. g[DOMAIN e] = h[DOMAIN e]
    BY <1>2, <1>3, <1>5, SumsAgree
  <1> QED
    BY <1>1, <1>2, <1>3, <1>4, <1>6 DEF e

LEMMA TotalNothing == Total(<<>>) = 0
  <1>1. DOMAIN <<>> = {} /\ IsFiniteSet(DOMAIN <<>>)
    BY FS_EmptySet
  <1>2. PICK g : Sums(<<>>, g) /\ Total(<<>>) = g[{}]
    BY <1>1, TotalIs
  <1>3. g[{}] = SumAt(<<>>, g, {})
    BY <1>1, <1>2 DEF Sums
  <1> QED
    BY <1>2, <1>3 DEF SumAt

\* One term changes.
LEMMA TotalChanged ==
    ASSUME NEW S, IsFiniteSet(S), NEW f \in [S -> Nat], NEW x \in S, NEW v \in Nat
    PROVE  /\ Total([f EXCEPT ![x] = v]) = Total(f) - f[x] + v
           /\ Total(f) \in Nat
  <1>1. PICK e : e = [f EXCEPT ![x] = v]
    OBVIOUS
  <1>2. /\ DOMAIN f = S /\ DOMAIN e = S /\ f \in [DOMAIN f -> Nat] /\ e \in [DOMAIN e -> Nat]
        /\ e[x] = v /\ f[x] \in Nat
    BY <1>1
  <1>3. PICK r : r = [y \in S \ {x} |-> f[y]]
    OBVIOUS
  <1>4. r = [y \in S \ {x} |-> e[y]] /\ r \in [DOMAIN r -> Nat] /\ DOMAIN r = S \ {x}
    BY <1>1, <1>3
  <1>5. Total(r) \in Nat
    BY <1>4, TotalType, FS_RemoveElement
  <1>6. Total(f) = f[x] + Total(r)
    BY <1>2, <1>3, TotalSplit
  <1>7. Total(e) = e[x] + Total(r)
    BY <1>2, <1>4, TotalSplit
  <1> QED
    BY <1>1, <1>2, <1>5, <1>6, <1>7

\* A term more.
LEMMA TotalMore ==
    ASSUME NEW S, IsFiniteSet(S), NEW x, x \notin S, NEW f \in [S \cup {x} -> Nat],
           NEW e, e = [y \in S |-> f[y]]
    PROVE  /\ Total(f) = Total(e) + f[x]
           /\ Total(e) \in Nat
  <1>1. /\ DOMAIN f = S \cup {x} /\ f \in [DOMAIN f -> Nat] /\ IsFiniteSet(DOMAIN f)
        /\ x \in DOMAIN f /\ (S \cup {x}) \ {x} = S /\ f[x] \in Nat
    BY FS_AddElement
  <1>2. e \in [DOMAIN e -> Nat] /\ DOMAIN e = S
    OBVIOUS
  <1>3. Total(e) \in Nat
    BY <1>2, TotalType
  <1>4. Total(f) = f[x] + Total([y \in DOMAIN f \ {x} |-> f[y]])
    BY <1>1, TotalSplit
  <1> QED
    BY <1>1, <1>3, <1>4

LEMMA TotalZero ==
    ASSUME NEW S, IsFiniteSet(S)
    PROVE  Total([x \in S |-> 0]) = 0
  <1> DEFINE f == [x \in S |-> 0]
             Bad == {s \in SUBSET S : Total([x \in s |-> 0]) # 0}
  <1> SUFFICES ASSUME S \in Bad PROVE FALSE
    OBVIOUS
  <1>1. Bad \subseteq SUBSET S /\ Bad # {}
    OBVIOUS
  <1> HIDE DEF Bad
  <1>2. PICK s \in Bad : \A u \in Bad : u \subseteq s => u = s
    BY <1>1, LeastSet
  <1>3. /\ s \in SUBSET S /\ Total([x \in s |-> 0]) # 0
        /\ \A u \in SUBSET S : u \notin Bad => Total([x \in u |-> 0]) = 0
    BY <1>2 DEF Bad
  <1>4. CASE s = {}
    <2>1. [x \in {} |-> 0] = <<>>
      OBVIOUS
    <2> QED
      BY <1>3, <1>4, <2>1, TotalNothing
  <1>5. CASE s # {}
    <2>1. PICK y \in s : TRUE
      BY <1>5
    <2>2. PICK e : e = [x \in s |-> 0]
      OBVIOUS
    <2>3. /\ e \in [DOMAIN e -> Nat] /\ IsFiniteSet(DOMAIN e) /\ y \in DOMAIN e /\ e[y] = 0
          /\ [x \in DOMAIN e \ {y} |-> e[x]] = [x \in s \ {y} |-> 0]
      BY <1>3, <2>2, FS_Subset
    <2>4. s \ {y} \notin Bad /\ s \ {y} \in SUBSET S
      BY <1>2, <1>3
    <2>5. Total([x \in s \ {y} |-> 0]) = 0
      BY <1>3, <2>4
    <2>6. Total(e) = e[y] + Total([x \in s \ {y} |-> 0])
      BY <2>3, TotalSplit
    <2> QED
      BY <1>3, <2>2, <2>3, <2>5, <2>6
  <1> QED
    BY <1>4, <1>5
-----------------------------------------------------------------------------
\* What each handler leaves in each table.

NewToken(log) ==
    [status |-> "BONDING", tx |-> log.tx, supply |-> log.tokenReserve,
     threshold |-> Target, circulating |-> 0, progress |-> 0, price |-> 0,
     volume |-> 0, trades |-> 0, holders |-> 0]
NewPool(log) ==
    [address |-> Pair(log.token), status |-> "PENDING", tx |-> NoRow,
     tokens |-> log.tokenReserve, quote |-> 0]
TradeRow(log) ==
    [key |-> Key(log), token |-> log.token, wallet |-> log.wallet, buy |-> IsBuy(log),
     amount |-> log.amount, quote |-> log.quote, price |-> Price(log), swap |-> IsSwap(log)]
FeeRow(log) == [key |-> Key(log), token |-> log.token, amount |-> log.quote]
GraduatedToken(row) == [row EXCEPT !.status = "GRADUATED", !.progress = 100 * WAD]
ActivePool(log) ==
    [address |-> Pool(log.token), status |-> "ACTIVE", tx |-> log.tx,
     tokens |-> log.tokenReserve, quote |-> log.nativeReserve]

TokenCreatedLeaves(d, log, r) ==
    /\ Shaped(r)
    /\ r.events = d.events /\ r.trades = d.trades /\ r.fees = d.fees
    /\ r.holder = d.holder /\ r.candles = d.candles
    /\ r.wallets = d.wallets \cup {log.wallet}
    /\ r.token = [d.token EXCEPT ![log.token] = NewToken(log)]
    /\ r.pool = [d.pool EXCEPT ![log.token] = NewPool(log)]
    /\ r.stats = [d.stats EXCEPT !.tokens = @ + 1, !.bonding = @ + 1]

FeeCollectedLeaves(d, log, r) ==
    /\ Shaped(r)
    /\ r.events = d.events /\ r.trades = d.trades /\ r.candles = d.candles
    /\ r.token = d.token /\ r.pool = d.pool /\ r.holder = d.holder
    /\ r.wallets = d.wallets \cup {log.wallet}
    /\ r.fees = d.fees \cup {FeeRow(log)}
    /\ r.stats = [d.stats EXCEPT !.fees = @ + log.quote]

RecordLeaves(d, log, r) ==
    /\ Shaped(r)
    /\ r.events = d.events /\ r.fees = d.fees /\ r.pool = d.pool
    /\ r.wallets = d.wallets \cup {log.wallet}
    /\ r.candles = WithCandles(d.candles, log)
    /\ r.trades = d.trades \cup {TradeRow(log)}
    /\ r.holder = [d.holder EXCEPT ![log.token][log.wallet] = NextBalance(d, log)]
    /\ r.token = [d.token EXCEPT ![log.token] = Traded(d, log)]
    /\ r.stats = [d.stats EXCEPT !.trades = @ + 1, !.volume = @ + log.quote]

\* What a trade on the curve, and one at the pool, add to that.
CurveTradeAdds(r, log, q) ==
    /\ Shaped(q)
    /\ q.events = r.events /\ q.fees = r.fees /\ q.trades = r.trades
    /\ q.wallets = r.wallets /\ q.candles = r.candles /\ q.holder = r.holder
    /\ q.token = [r.token EXCEPT ![log.token].progress =
         Progress(r.token[log.token].circulating, r.token[log.token].threshold)]
    /\ q.pool = [r.pool EXCEPT ![log.token] =
         WithReserves(r.pool[log.token], r.pool[log.token].tokens - Signed(log),
                      log.nativeReserve)]
    /\ q.stats = [r.stats EXCEPT !.traders = IF PriorTrades(r, log) = {} THEN @ + 1 ELSE @]

DexTradeAdds(r, log, q) ==
    /\ Shaped(q)
    /\ q.events = r.events /\ q.fees = r.fees /\ q.trades = r.trades
    /\ q.wallets = r.wallets /\ q.candles = r.candles /\ q.holder = r.holder
    /\ q.token = r.token /\ q.stats = r.stats
    /\ q.pool = [r.pool EXCEPT ![log.token] =
         WithReserves(r.pool[log.token], log.tokenReserve, log.nativeReserve)]

GraduationLeaves(d, log, r) ==
    /\ Shaped(r)
    /\ r.events = d.events /\ r.fees = d.fees /\ r.trades = d.trades
    /\ r.wallets = d.wallets /\ r.candles = d.candles /\ r.holder = d.holder
    /\ r.token = [d.token EXCEPT ![log.token] = GraduatedToken(d.token[log.token])]
    /\ r.pool = [d.pool EXCEPT ![log.token] = ActivePool(log)]
    /\ r.stats = [d.stats EXCEPT !.bonding = @ - 1, !.graduated = @ + 1]

LEMMA TokenCreatedEffect ==
    ASSUME NEW d, NEW log, Shaped(d)
    PROVE  TokenCreatedLeaves(d, log, TokenCreated(d, log))
  <1> SUFFICES ASSUME NEW r, r = TokenCreated(d, log)
               PROVE  TokenCreatedLeaves(d, log, r)
    OBVIOUS
  <1>1. /\ Shaped(r)
        /\ r.events = d.events /\ r.trades = d.trades /\ r.fees = d.fees
        /\ r.holder = d.holder /\ r.candles = d.candles
        /\ r.wallets = d.wallets \cup {log.wallet}
    BY DEF Shaped, TokenCreated
  <1>2. r.token = [d.token EXCEPT ![log.token] = NewToken(log)]
    BY DEF Shaped, TokenCreated, NewToken
  <1>3. r.pool = [d.pool EXCEPT ![log.token] = NewPool(log)]
    BY DEF Shaped, TokenCreated, NewPool
  <1>4. r.stats = [d.stats EXCEPT !.tokens = @ + 1, !.bonding = @ + 1]
    BY DEF Shaped, TokenCreated
  <1> QED
    BY <1>1, <1>2, <1>3, <1>4 DEF TokenCreatedLeaves

LEMMA FeeCollectedEffect ==
    ASSUME NEW d, NEW log, Shaped(d)
    PROVE  FeeCollectedLeaves(d, log, FeeCollected(d, log))
  <1> SUFFICES ASSUME NEW r, r = FeeCollected(d, log)
               PROVE  FeeCollectedLeaves(d, log, r)
    OBVIOUS
  <1> QED
    BY DEF Shaped, FeeCollected, FeeRow, FeeCollectedLeaves

LEMMA RecordEffect ==
    ASSUME NEW d, NEW log, Shaped(d)
    PROVE  RecordLeaves(d, log, Record(d, log))
  <1> SUFFICES ASSUME NEW r, r = Record(d, log)
               PROVE  RecordLeaves(d, log, r)
    OBVIOUS
  <1>1. /\ Shaped(r)
        /\ r.events = d.events /\ r.fees = d.fees /\ r.pool = d.pool
        /\ r.wallets = d.wallets \cup {log.wallet}
        /\ r.candles = WithCandles(d.candles, log)
    BY DEF Shaped, Record
  <1>2. r.trades = d.trades \cup {TradeRow(log)}
    BY DEF Shaped, Record, TradeRow
  <1>3. r.holder = [d.holder EXCEPT ![log.token][log.wallet] = NextBalance(d, log)]
    BY DEF Shaped, Record
  <1>4. r.token = [d.token EXCEPT ![log.token] = Traded(d, log)]
    BY DEF Shaped, Record
  <1>5. r.stats = [d.stats EXCEPT !.trades = @ + 1, !.volume = @ + log.quote]
    BY DEF Shaped, Record
  <1> QED
    BY <1>1, <1>2, <1>3, <1>4, <1>5 DEF RecordLeaves

LEMMA CurveTradeEffect ==
    ASSUME NEW d, NEW log, NEW r, r = Record(d, log), Shaped(r)
    PROVE  CurveTradeAdds(r, log, CurveTrade(d, log))
  <1> SUFFICES ASSUME NEW q, q = CurveTrade(d, log)
               PROVE  CurveTradeAdds(r, log, q)
    OBVIOUS
  <1>1. q = [r EXCEPT
            !.token[log.token].progress = Progress(r.token[log.token].circulating,
                                                    r.token[log.token].threshold),
            !.pool[log.token] = WithReserves(@, @.tokens - Signed(log), log.nativeReserve),
            !.stats.traders = IF PriorTrades(r, log) = {} THEN @ + 1 ELSE @]
    BY DEF CurveTrade
  <1>2. /\ Shaped(q)
        /\ q.events = r.events /\ q.fees = r.fees /\ q.trades = r.trades
        /\ q.wallets = r.wallets /\ q.candles = r.candles /\ q.holder = r.holder
    BY <1>1 DEF Shaped
  <1>3. q.token = [r.token EXCEPT ![log.token].progress =
                Progress(r.token[log.token].circulating, r.token[log.token].threshold)]
    BY <1>1 DEF Shaped
  <1>4. q.pool = [r.pool EXCEPT ![log.token] =
                WithReserves(r.pool[log.token], r.pool[log.token].tokens - Signed(log),
                             log.nativeReserve)]
    BY <1>1 DEF Shaped
  <1>5. q.stats = [r.stats EXCEPT !.traders = IF PriorTrades(r, log) = {} THEN @ + 1 ELSE @]
    BY <1>1 DEF Shaped
  <1> QED
    BY <1>2, <1>3, <1>4, <1>5 DEF CurveTradeAdds

LEMMA DexTradeEffect ==
    ASSUME NEW d, NEW log, NEW r, r = Record(d, log), Shaped(r)
    PROVE  DexTradeAdds(r, log, DexTrade(d, log))
  <1> SUFFICES ASSUME NEW q, q = DexTrade(d, log)
               PROVE  DexTradeAdds(r, log, q)
    OBVIOUS
  <1>1. q = [r EXCEPT !.pool[log.token] = WithReserves(@, log.tokenReserve, log.nativeReserve)]
    BY DEF DexTrade
  <1> QED
    BY <1>1 DEF Shaped, DexTradeAdds

LEMMA GraduationEffect ==
    ASSUME NEW d, NEW log, Shaped(d)
    PROVE  GraduationLeaves(d, log, Graduation(d, log))
  <1> SUFFICES ASSUME NEW r, r = Graduation(d, log)
               PROVE  GraduationLeaves(d, log, r)
    OBVIOUS
  <1>1. /\ Shaped(r)
        /\ r.events = d.events /\ r.fees = d.fees /\ r.trades = d.trades
        /\ r.wallets = d.wallets /\ r.candles = d.candles /\ r.holder = d.holder
    BY DEF Shaped, Graduation
  <1>2. r.token = [d.token EXCEPT ![log.token] = GraduatedToken(d.token[log.token])]
    BY ZenonT(60) DEF Shaped, Graduation, GraduatedToken
  <1>3. r.pool = [d.pool EXCEPT ![log.token] = ActivePool(log)]
    BY ZenonT(60) DEF Shaped, Graduation, ActivePool
  <1>4. r.stats = [d.stats EXCEPT !.bonding = @ - 1, !.graduated = @ + 1]
    BY DEF Shaped, Graduation
  <1> QED
    BY <1>1, <1>2, <1>3, <1>4 DEF GraduationLeaves

-----------------------------------------------------------------------------
\* Every handler keeps the types of the columns.

LEMMA RowsAreRows ==
    ASSUME NEW d, Typed(d), NEW t \in Tokens, d.pool[t] # NoRow
    PROVE  d.token[t] \in TokenRow /\ d.pool[t] \in PoolRow /\ d.token[t] # NoRow
  BY DEF Typed

LEMMA TokenCreatedTyped ==
    ASSUME NEW d, NEW log, Typed(d), LogOK(log), log.token \in Tokens
    PROVE  Typed(TokenCreated(d, log))
  <1> SUFFICES ASSUME NEW r, TokenCreatedLeaves(d, log, r)
               PROVE  Typed(r)
    BY TokenCreatedEffect DEF Typed
  <1>1. NewToken(log) \in TokenRow /\ NewPool(log) \in PoolRow
    BY EventAssumption DEF LogOK, TokenRow, PoolRow, Pair, NewToken, NewPool
  <1>2. NewToken(log) # NoRow /\ NewPool(log) # NoRow
    BY <1>1, RowAssumption
  <1>3. r.stats \in Stats
    <2>1. d.stats \in Stats /\ r.stats = [d.stats EXCEPT !.tokens = @ + 1, !.bonding = @ + 1]
      BY DEF Typed, TokenCreatedLeaves
    <2>2. r.stats = [tokens |-> d.stats.tokens + 1, bonding |-> d.stats.bonding + 1,
                     graduated |-> d.stats.graduated, trades |-> d.stats.trades,
                     volume |-> d.stats.volume, fees |-> d.stats.fees,
                     traders |-> d.stats.traders]
      BY <2>1 DEF Stats
    <2> QED
      BY <2>1, <2>2 DEF Stats
  <1> QED
    BY <1>1, <1>2, <1>3 DEF Typed, TokenCreatedLeaves

LEMMA FeeCollectedTyped ==
    ASSUME NEW d, NEW log, Typed(d), LogOK(log)
    PROVE  Typed(FeeCollected(d, log))
  <1> SUFFICES ASSUME NEW r, FeeCollectedLeaves(d, log, r)
               PROVE  Typed(r)
    BY FeeCollectedEffect DEF Typed
  <1>1. d.stats \in Stats /\ r.stats = [d.stats EXCEPT !.fees = @ + log.quote] /\ log.quote \in Nat
    BY DEF Typed, FeeCollectedLeaves, LogOK
  <1>2. r.stats \in Stats
    BY <1>1 DEF Stats
  <1> QED
    BY <1>2 DEF Typed, FeeCollectedLeaves

LEMMA SignedType ==
    ASSUME NEW log, LogOK(log)
    PROVE  Signed(log) \in Int
  BY DEF Signed, LogOK

LEMMA BalanceType ==
    ASSUME NEW d, NEW log, Typed(d), LogOK(log), IsTrade(log), log.token \in Tokens
    PROVE  /\ log.wallet \in Wallets /\ d.holder[log.token][log.wallet] \in Nat
           /\ NextBalance(d, log) \in Int
  <1>1. log.wallet \in Wallets
    BY DEF LogOK
  <1>2. d.holder[log.token][log.wallet] \in Nat
    BY <1>1 DEF Typed
  <1> QED
    BY <1>1, <1>2, SignedType DEF NextBalance

LEMMA TradedType ==
    ASSUME NEW d, NEW log, Typed(d), LogOK(log), IsTrade(log), log.token \in Tokens,
           d.token[log.token] \in TokenRow, NextBalance(d, log) >= 0
    PROVE  /\ Traded(d, log) \in TokenRow
           /\ Traded(d, log).status = d.token[log.token].status
           /\ Traded(d, log).tx = d.token[log.token].tx
           /\ Traded(d, log).threshold = d.token[log.token].threshold
           /\ Traded(d, log).circulating = Circulating(d, log)
           /\ Traded(d, log).progress = d.token[log.token].progress
  <1> DEFINE row   == d.token[log.token]
             delta == HolderDelta(d.holder[log.token][log.wallet], NextBalance(d, log))
             c     == Circulating(d, log)
             p     == Price(log)
  <1>1. delta \in Int
    BY BalanceType DEF HolderDelta
  <1>2. c \in Int
    BY SignedType DEF Circulating, TokenRow
  <1>3. p \in Nat /\ log.quote \in Nat
    BY PriceType DEF LogOK
  <1>4. Traded(d, log) = [row EXCEPT !.price = p, !.volume = @ + log.quote,
                            !.trades = @ + 1, !.holders = @ + delta, !.circulating = c]
    BY DEF Traded
  <1> HIDE DEF row, delta, c, p
  <1>5. row \in TokenRow
    BY DEF row
  <1>6. Traded(d, log) =
          [status |-> row.status, tx |-> row.tx, supply |-> row.supply,
           threshold |-> row.threshold, circulating |-> c, progress |-> row.progress,
           price |-> p, volume |-> row.volume + log.quote, trades |-> row.trades + 1,
           holders |-> row.holders + delta]
    BY <1>4, <1>5 DEF TokenRow
  <1>7. Traded(d, log) \in TokenRow
    BY <1>1, <1>2, <1>3, <1>5, <1>6 DEF TokenRow
  <1> QED
    BY <1>6, <1>7 DEF row, c

LEMMA RecordTyped ==
    ASSUME NEW d, NEW log, Typed(d), LogOK(log), IsTrade(log), Known(d, log),
           NextBalance(d, log) >= 0
    PROVE  Typed(Record(d, log))
  <1> SUFFICES ASSUME NEW r, RecordLeaves(d, log, r)
               PROVE  Typed(r)
    BY RecordEffect DEF Typed
  <1>1. log.token \in Tokens /\ d.pool[log.token] # NoRow
    BY DEF Known
  <1>2. d.token[log.token] \in TokenRow /\ d.token[log.token] # NoRow
    BY <1>1, RowsAreRows
  <1>3. Traded(d, log) \in TokenRow /\ Traded(d, log) # NoRow
    BY <1>1, <1>2, TradedType, RowAssumption
  <1>4. log.wallet \in Wallets /\ NextBalance(d, log) \in Nat
    BY <1>1, BalanceType
  <1>5. r.stats \in Stats
    <2>1. /\ d.stats \in Stats /\ log.quote \in Nat
          /\ r.stats = [d.stats EXCEPT !.trades = @ + 1, !.volume = @ + log.quote]
      BY DEF Typed, RecordLeaves, LogOK
    <2>2. r.stats = [tokens |-> d.stats.tokens, bonding |-> d.stats.bonding,
                     graduated |-> d.stats.graduated, trades |-> d.stats.trades + 1,
                     volume |-> d.stats.volume + log.quote, fees |-> d.stats.fees,
                     traders |-> d.stats.traders]
      BY <2>1 DEF Stats
    <2> QED
      BY <2>1, <2>2 DEF Stats
  <1>6. r.holder \in [Tokens -> [Wallets -> Nat]]
    BY <1>1, <1>4 DEF Typed, RecordLeaves
  <1> QED
    BY <1>1, <1>2, <1>3, <1>5, <1>6 DEF Typed, RecordLeaves

LEMMA ReservesType ==
    ASSUME NEW row \in PoolRow, NEW tokens \in Int, NEW quote \in Nat
    PROVE  /\ WithReserves(row, tokens, quote) \in PoolRow
           /\ WithReserves(row, tokens, quote).tokens = tokens
           /\ WithReserves(row, tokens, quote).quote = quote
           /\ WithReserves(row, tokens, quote).address = row.address
           /\ WithReserves(row, tokens, quote).tx = row.tx
  <1>1. PICK r : r = WithReserves(row, tokens, quote)
    OBVIOUS
  <1>2. r = [row EXCEPT !.tokens = tokens, !.quote = quote]
    BY <1>1 DEF WithReserves
  <1>3. r = [address |-> row.address, status |-> row.status, tx |-> row.tx,
             tokens |-> tokens, quote |-> quote]
    BY <1>2 DEF PoolRow
  <1> QED
    BY <1>1, <1>3 DEF PoolRow

LEMMA CurveTradeTyped ==
    ASSUME NEW d, NEW log, Typed(d), LogOK(log), IsTrade(log), Known(d, log),
           NextBalance(d, log) >= 0
    PROVE  Typed(CurveTrade(d, log))
  <1>0. PICK r : r = Record(d, log)
    OBVIOUS
  <1>1. Typed(r) /\ RecordLeaves(d, log, r)
    BY <1>0, RecordTyped, RecordEffect DEF Typed
  <1> SUFFICES ASSUME NEW q, CurveTradeAdds(r, log, q)
               PROVE  Typed(q)
    BY <1>0, <1>1, CurveTradeEffect DEF Typed
  <1> DEFINE t == log.token
             p == Progress(r.token[t].circulating, r.token[t].threshold)
             pool == WithReserves(r.pool[t], r.pool[t].tokens - Signed(log), log.nativeReserve)
  <1>2. t \in Tokens /\ r.pool[t] # NoRow
    BY <1>1 DEF Known, RecordLeaves
  <1>3. /\ Shaped(q) /\ q.holder = r.holder
        /\ q.token = [r.token EXCEPT ![t].progress = p]
        /\ q.pool = [r.pool EXCEPT ![t] = pool]
        /\ q.stats = [r.stats EXCEPT !.traders = IF PriorTrades(r, log) = {} THEN @ + 1 ELSE @]
    BY DEF CurveTradeAdds
  <1>4. r.token[t] \in TokenRow /\ r.pool[t] \in PoolRow
    BY <1>1, <1>2, RowsAreRows
  <1>5. p \in Int
    BY <1>4, ProgressType DEF TokenRow
  <1>6. pool \in PoolRow
    <2>1. r.pool[t].tokens - Signed(log) \in Int /\ log.nativeReserve \in Nat
      BY <1>4, SignedType DEF PoolRow, LogOK
    <2> QED
      BY <2>1, <1>4, ReservesType
  <1> HIDE DEF p, pool
  <1>7. [r.token[t] EXCEPT !.progress = p] \in TokenRow
    BY <1>4, <1>5 DEF TokenRow
  <1>8. q.stats \in Stats
    <2>1. PICK n : n = IF PriorTrades(r, log) = {} THEN r.stats.traders + 1 ELSE r.stats.traders
      OBVIOUS
    <2>2. r.stats \in Stats /\ q.stats = [r.stats EXCEPT !.traders = n]
      BY <1>1, <1>3, <2>1 DEF Typed
    <2>3. n \in Nat
      BY <2>1, <2>2 DEF Stats
    <2> QED
      BY <2>2, <2>3 DEF Stats
  <1>9. /\ q.token \in [Tokens -> TokenRow \cup {NoRow}] /\ q.pool \in [Tokens -> PoolRow \cup {NoRow}]
        /\ q.token[t] \in TokenRow /\ q.pool[t] \in PoolRow
        /\ \A s \in Tokens : s # t => q.token[s] = r.token[s] /\ q.pool[s] = r.pool[s]
    <2>1. r.token \in [Tokens -> TokenRow \cup {NoRow}] /\ r.pool \in [Tokens -> PoolRow \cup {NoRow}]
      BY <1>1 DEF Typed
    <2>2. /\ q.token \in [Tokens -> TokenRow \cup {NoRow}] /\ q.token[t] \in TokenRow
          /\ \A s \in Tokens : s # t => q.token[s] = r.token[s]
      BY <1>2, <1>3, <1>7, <2>1
    <2>3. /\ q.pool \in [Tokens -> PoolRow \cup {NoRow}] /\ q.pool[t] \in PoolRow
          /\ \A s \in Tokens : s # t => q.pool[s] = r.pool[s]
      BY <1>2, <1>3, <1>6, <2>1
    <2> QED
      BY <2>2, <2>3
  <1> HIDE DEF t
  <1>10. ASSUME NEW s \in Tokens
         PROVE  q.token[s] = NoRow <=> q.pool[s] = NoRow
    <2>1. CASE s = t
      BY <1>9, <2>1, RowAssumption
    <2>2. CASE s # t
      BY <1>1, <1>9, <2>2 DEF Typed
    <2> QED
      BY <2>1, <2>2
  <1> QED
    BY <1>1, <1>3, <1>8, <1>9, <1>10 DEF Typed

LEMMA DexTradeTyped ==
    ASSUME NEW d, NEW log, Typed(d), LogOK(log), IsTrade(log), Known(d, log),
           NextBalance(d, log) >= 0
    PROVE  Typed(DexTrade(d, log))
  <1>0. PICK r : r = Record(d, log)
    OBVIOUS
  <1>1. Typed(r) /\ RecordLeaves(d, log, r)
    BY <1>0, RecordTyped, RecordEffect DEF Typed
  <1> SUFFICES ASSUME NEW q, DexTradeAdds(r, log, q)
               PROVE  Typed(q)
    BY <1>0, <1>1, DexTradeEffect DEF Typed
  <1> DEFINE t == log.token
             pool == WithReserves(r.pool[t], log.tokenReserve, log.nativeReserve)
  <1>2. t \in Tokens /\ r.pool[t] # NoRow
    BY <1>1 DEF Known, RecordLeaves
  <1>3. /\ Shaped(q) /\ q.holder = r.holder /\ q.token = r.token /\ q.stats = r.stats
        /\ q.pool = [r.pool EXCEPT ![t] = pool]
    BY DEF DexTradeAdds
  <1>4. r.pool[t] \in PoolRow /\ r.token[t] # NoRow
    BY <1>1, <1>2, RowsAreRows
  <1>5. pool \in PoolRow /\ pool # NoRow
    <2>1. log.tokenReserve \in Int /\ log.nativeReserve \in Nat
      BY DEF LogOK
    <2> QED
      BY <2>1, <1>4, ReservesType, RowAssumption
  <1> HIDE DEF pool
  <1> QED
    BY <1>1, <1>2, <1>3, <1>4, <1>5 DEF Typed

LEMMA GraduatedTokenType ==
    ASSUME NEW row \in TokenRow
    PROVE  /\ GraduatedToken(row) \in TokenRow
           /\ GraduatedToken(row).status = "GRADUATED" /\ GraduatedToken(row).tx = row.tx
           /\ GraduatedToken(row).progress = 100 * WAD
           /\ GraduatedToken(row).circulating = row.circulating
  <1>1. PICK p \in Int : p = 100 * WAD
    BY EventAssumption
  <1>2. PICK r : r = GraduatedToken(row)
    OBVIOUS
  <1>3. r = [row EXCEPT !.status = "GRADUATED", !.progress = p]
    BY <1>1, <1>2 DEF GraduatedToken
  <1>4. r = [status |-> "GRADUATED", tx |-> row.tx, supply |-> row.supply,
             threshold |-> row.threshold, circulating |-> row.circulating, progress |-> p,
             price |-> row.price, volume |-> row.volume, trades |-> row.trades,
             holders |-> row.holders]
    BY <1>3 DEF TokenRow
  <1> QED
    BY <1>1, <1>2, <1>4 DEF TokenRow

LEMMA GraduationTyped ==
    ASSUME NEW d, NEW log, Typed(d), LogOK(log), Known(d, log)
    PROVE  Typed(Graduation(d, log))
  <1> SUFFICES ASSUME NEW r, GraduationLeaves(d, log, r)
               PROVE  Typed(r)
    BY GraduationEffect DEF Typed
  <1> DEFINE t == log.token
  <1>1. t \in Tokens /\ d.pool[t] # NoRow
    BY DEF Known
  <1>2. GraduatedToken(d.token[t]) \in TokenRow
    BY <1>1, RowsAreRows, GraduatedTokenType
  <1>3. ActivePool(log) \in PoolRow
    BY <1>1 DEF LogOK, PoolRow, Pool, ActivePool
  <1>4. GraduatedToken(d.token[t]) # NoRow /\ ActivePool(log) # NoRow
    BY <1>2, <1>3, RowAssumption
  <1>5. r.stats \in Stats
    <2>1. d.stats \in Stats /\ r.stats = [d.stats EXCEPT !.bonding = @ - 1, !.graduated = @ + 1]
      BY DEF Typed, GraduationLeaves
    <2>2. r.stats = [tokens |-> d.stats.tokens, bonding |-> d.stats.bonding - 1,
                     graduated |-> d.stats.graduated + 1, trades |-> d.stats.trades,
                     volume |-> d.stats.volume, fees |-> d.stats.fees,
                     traders |-> d.stats.traders]
      BY <2>1 DEF Stats
    <2> QED
      BY <2>1, <2>2 DEF Stats
  <1> QED
    BY <1>1, <1>2, <1>3, <1>4, <1>5 DEF Typed, GraduationLeaves

-----------------------------------------------------------------------------
\* process() keeps the types of the columns and the keys of the rows.

LEMMA HandleIs ==
    ASSUME NEW d, NEW log, LogOK(log)
    PROVE  /\ log.name = "TokenCreated" => Handle(d, log) = TokenCreated(d, log)
           /\ log.name = "FeeCollected" => Handle(d, log) = FeeCollected(d, log)
           /\ log.name \notin {"TokenCreated", "FeeCollected", "Garbled"} /\ ~Known(d, log) =>
                Handle(d, log) = d
           /\ log.name \in {"Buy", "Sell"} /\ Known(d, log) => Handle(d, log) = CurveTrade(d, log)
           /\ log.name \in {"SwapIn", "SwapOut"} /\ Known(d, log) => Handle(d, log) = DexTrade(d, log)
           /\ log.name = "Graduated" /\ Known(d, log) => Handle(d, log) = Graduation(d, log)
  BY DEF Handle, IsSwap, LogOK, Names

LEMMA TradeLinked ==
    ASSUME NEW d, NEW log, Shaped(d), NEW keys, Linked(d, keys), Key(log) \in keys
    PROVE  /\ Linked(CurveTrade(d, log), keys) /\ CurveTrade(d, log).events = d.events
           /\ Linked(DexTrade(d, log), keys) /\ DexTrade(d, log).events = d.events
  <1>0. PICK r : r = Record(d, log)
    OBVIOUS
  <1>1. RecordLeaves(d, log, r) /\ Shaped(r)
    <2>1. RecordLeaves(d, log, Record(d, log))
      BY RecordEffect
    <2>2. RecordLeaves(d, log, r)
      BY <1>0, <2>1
    <2> QED
      BY <2>2 DEF RecordLeaves
  <1>2. TradeRow(log).key = Key(log) /\ TradeRow(log).wallet = log.wallet
    BY DEF TradeRow
  <1>3. Linked(r, keys) /\ r.events = d.events
    BY <1>1, <1>2 DEF RecordLeaves, Linked
  <1>4. CurveTradeAdds(r, log, CurveTrade(d, log)) /\ DexTradeAdds(r, log, DexTrade(d, log))
    BY <1>0, <1>1, CurveTradeEffect, DexTradeEffect
  <1>5. Linked(CurveTrade(d, log), keys) /\ CurveTrade(d, log).events = d.events
    BY <1>3, <1>4 DEF CurveTradeAdds, Linked
  <1>6. Linked(DexTrade(d, log), keys) /\ DexTrade(d, log).events = d.events
    BY <1>3, <1>4 DEF DexTradeAdds, Linked
  <1> QED
    BY <1>5, <1>6

LEMMA HandleKeeps ==
    ASSUME NEW d, NEW log, Typed(d), LogOK(log), Kept(log), ~Refused(d, log),
           NEW keys, Linked(d, keys), Key(log) \in keys
    PROVE  /\ Typed(Handle(d, log)) /\ Linked(Handle(d, log), keys)
           /\ Handle(d, log).events = d.events
  <1>0. Shaped(d)
    BY DEF Typed
  <1>1. CASE log.name = "TokenCreated"
    <2>1. Handle(d, log) = TokenCreated(d, log) /\ log.token \in Tokens
      BY <1>1, HandleIs DEF LogOK
    <2>2. TokenCreatedLeaves(d, log, TokenCreated(d, log)) /\ Typed(TokenCreated(d, log))
      BY <2>1, <1>0, TokenCreatedEffect, TokenCreatedTyped
    <2> QED
      BY <2>1, <2>2 DEF TokenCreatedLeaves, Linked
  <1>2. CASE log.name = "FeeCollected"
    <2>1. Handle(d, log) = FeeCollected(d, log) /\ FeeRow(log).key = Key(log)
      BY <1>2, HandleIs DEF FeeRow
    <2>2. FeeCollectedLeaves(d, log, FeeCollected(d, log)) /\ Typed(FeeCollected(d, log))
      BY <1>0, FeeCollectedEffect, FeeCollectedTyped
    <2> QED
      BY <2>1, <2>2 DEF FeeCollectedLeaves, Linked
  <1>3. CASE log.name \notin {"TokenCreated", "FeeCollected", "Garbled"} /\ ~Known(d, log)
    BY <1>3, HandleIs
  <1>4. CASE log.name \in {"Buy", "Sell"} /\ Known(d, log)
    <2>1. Handle(d, log) = CurveTrade(d, log)
      BY <1>4, HandleIs
    <2>2. IsTrade(log)
      BY <1>4 DEF IsTrade
    <2>3. NextBalance(d, log) >= 0
      BY <1>4, <2>2, BalanceType DEF Refused, Known
    <2> QED
      BY <1>0, <1>4, <2>1, <2>2, <2>3, CurveTradeTyped, TradeLinked
  <1>5. CASE log.name \in {"SwapIn", "SwapOut"} /\ Known(d, log)
    <2>1. Handle(d, log) = DexTrade(d, log)
      BY <1>5, HandleIs
    <2>2. IsTrade(log)
      BY <1>5 DEF IsTrade, IsSwap
    <2>3. NextBalance(d, log) >= 0
      BY <1>5, <2>2, BalanceType DEF Refused, Known
    <2> QED
      BY <1>0, <1>5, <2>1, <2>2, <2>3, DexTradeTyped, TradeLinked
  <1>6. CASE log.name = "Graduated" /\ Known(d, log)
    <2>1. Handle(d, log) = Graduation(d, log)
      BY <1>6, HandleIs
    <2>2. GraduationLeaves(d, log, Graduation(d, log)) /\ Typed(Graduation(d, log))
      BY <1>0, <1>6, GraduationEffect, GraduationTyped
    <2> QED
      BY <2>1, <2>2 DEF GraduationLeaves, Linked
  <1>7. log.name # "Garbled"
    BY DEF Refused
  <1> QED
    BY <1>1, <1>2, <1>3, <1>4, <1>5, <1>6, <1>7 DEF LogOK, Names

\* The outcome decides: the handler's writes and the key, or nothing.
SameRows(d, r) ==
    /\ r.wallets = d.wallets /\ r.trades = d.trades /\ r.fees = d.fees /\ r.token = d.token
    /\ r.pool = d.pool /\ r.holder = d.holder /\ r.candles = d.candles /\ r.stats = d.stats

LEMMA KeyAdded ==
    ASSUME NEW d, NEW log, Shaped(Handle(d, log)), Outcome(d, log) = "processed"
    PROVE  /\ Shaped(Apply(d, log)) /\ SameRows(Handle(d, log), Apply(d, log))
           /\ Apply(d, log).events = Handle(d, log).events \cup {Key(log)}
  <1>1. PICK h : h = Handle(d, log)
    OBVIOUS
  <1>2. PICK r : r = Apply(d, log)
    OBVIOUS
  <1>3. r = [h EXCEPT !.events = @ \cup {Key(log)}] /\ Shaped(h)
    BY <1>1, <1>2 DEF Apply
  <1>4. Shaped(r) /\ SameRows(h, r) /\ r.events = h.events \cup {Key(log)}
    BY <1>3 DEF Shaped, SameRows
  <1> QED
    BY <1>1, <1>2, <1>4

LEMMA OutcomeIs ==
    ASSUME NEW d, NEW log
    PROVE  /\ Outcome(d, log) \in {"processed", "refused", "duplicate"}
           /\ Outcome(d, log) = "processed" <=>
                Key(log) \notin d.events /\ ~Refused(d, log) /\ ~Conflict(d, log)
           /\ Key(log) \in d.events => Outcome(d, log) = "duplicate"
           /\ Outcome(d, log) # "processed" => Apply(d, log) = d
  BY DEF Outcome, Apply

LEMMA Processed ==
    ASSUME NEW d, NEW log, DbOK(d), LogOK(log), Kept(log), Outcome(d, log) = "processed"
    PROVE  /\ SameRows(Handle(d, log), Apply(d, log))
           /\ Apply(d, log).events = d.events \cup {Key(log)}
           /\ DbOK(Apply(d, log))
  <1> DEFINE keys == d.events \cup {Key(log)}
  <1>1. Typed(d) /\ Linked(d, keys) /\ ~Refused(d, log)
    BY OutcomeIs DEF DbOK, Linked
  <1>2. /\ Typed(Handle(d, log)) /\ Linked(Handle(d, log), keys)
        /\ Handle(d, log).events = d.events
    BY <1>1, HandleKeeps
  <1>3. /\ Shaped(Apply(d, log)) /\ SameRows(Handle(d, log), Apply(d, log))
        /\ Apply(d, log).events = keys
    BY <1>2, KeyAdded DEF Typed
  <1>4. Typed(Apply(d, log)) /\ Linked(Apply(d, log), keys)
    BY <1>2, <1>3 DEF Typed, SameRows, Linked
  <1> QED
    BY <1>3, <1>4 DEF DbOK

LEMMA ApplyKeeps ==
    ASSUME NEW d, NEW log, DbOK(d), LogOK(log), Kept(log)
    PROVE  /\ DbOK(Apply(d, log)) /\ d.events \subseteq Apply(d, log).events
           /\ Apply(d, log).events \subseteq d.events \cup {Key(log)}
           /\ Outcome(d, log) = "processed" => Key(log) \in Apply(d, log).events
  BY OutcomeIs, Processed

\* What a trade leaves in the rows the chain is compared with, when the pool's
\* reserves become `tokens` and `quote`.
TradeLeaves(d, log, r, tokens, quote) ==
    /\ r.events = d.events \cup {Key(log)}
    /\ r.holder = [d.holder EXCEPT ![log.token][log.wallet] = NextBalance(d, log)]
    /\ \A s \in Tokens : s # log.token => r.token[s] = d.token[s] /\ r.pool[s] = d.pool[s]
    /\ r.token[log.token] # NoRow
    /\ r.token[log.token].status = d.token[log.token].status
    /\ r.token[log.token].tx = d.token[log.token].tx
    /\ r.pool[log.token].address = d.pool[log.token].address
    /\ r.pool[log.token].tx = d.pool[log.token].tx
    /\ r.pool[log.token].tokens = tokens /\ r.pool[log.token].quote = quote

LEMMA RecordRows ==
    ASSUME NEW d, Typed(d), NEW log, LogOK(log), IsTrade(log), Known(d, log),
           NextBalance(d, log) >= 0, NEW r, RecordLeaves(d, log, r)
    PROVE  /\ r.token \in [Tokens -> TokenRow \cup {NoRow}] /\ r.pool = d.pool
           /\ d.pool[log.token] \in PoolRow
           /\ r.token[log.token] \in TokenRow
           /\ r.token[log.token].status = d.token[log.token].status
           /\ r.token[log.token].tx = d.token[log.token].tx
           /\ \A s \in Tokens : s # log.token => r.token[s] = d.token[s]
  <1>1. log.token \in Tokens /\ d.token[log.token] \in TokenRow /\ d.pool[log.token] \in PoolRow
    BY RowsAreRows DEF Known
  <1>2. /\ Traded(d, log) \in TokenRow
        /\ Traded(d, log).status = d.token[log.token].status
        /\ Traded(d, log).tx = d.token[log.token].tx
    BY <1>1, TradedType
  <1>3. r.token = [d.token EXCEPT ![log.token] = Traded(d, log)] /\ r.pool = d.pool
    BY DEF RecordLeaves
  <1>4. d.token \in [Tokens -> TokenRow \cup {NoRow}]
    BY DEF Typed
  <1> QED
    BY <1>1, <1>2, <1>3, <1>4

LEMMA CurveTradeRows ==
    ASSUME NEW d, DbOK(d), NEW log, LogOK(log), Kept(log), Known(d, log),
           log.name \in {"Buy", "Sell"}, Outcome(d, log) = "processed"
    PROVE  TradeLeaves(d, log, Apply(d, log), d.pool[log.token].tokens - Signed(log),
                       log.nativeReserve)
  <1>1. PICK r : r = Record(d, log)
    OBVIOUS
  <1>2. PICK q : q = Apply(d, log)
    OBVIOUS
  <1> DEFINE t == log.token
  <1>3. Typed(d) /\ Shaped(d) /\ IsTrade(log) /\ t \in Tokens
    BY DEF DbOK, Typed, IsTrade, Known
  <1>4. NextBalance(d, log) >= 0
    BY <1>3, OutcomeIs, BalanceType DEF Refused
  <1>5. RecordLeaves(d, log, r) /\ Shaped(r) /\ Typed(r)
    BY <1>1, <1>3, <1>4, RecordEffect, RecordTyped DEF Typed
  <1>6. SameRows(Handle(d, log), q) /\ q.events = d.events \cup {Key(log)}
    BY <1>2, Processed
  <1>7. CurveTradeAdds(r, log, Handle(d, log))
    BY <1>1, <1>5, HandleIs, CurveTradeEffect
  <1>8. /\ r.token \in [Tokens -> TokenRow \cup {NoRow}] /\ r.pool = d.pool
        /\ r.pool[t] \in PoolRow /\ r.token[t] \in TokenRow
        /\ r.token[t].status = d.token[t].status /\ r.token[t].tx = d.token[t].tx
        /\ \A s \in Tokens : s # t => r.token[s] = d.token[s]
    BY <1>3, <1>4, <1>5, RecordRows
  <1>9. PICK p : p = Progress(r.token[t].circulating, r.token[t].threshold)
    OBVIOUS
  <1>10. PICK pool : pool = WithReserves(r.pool[t], r.pool[t].tokens - Signed(log), log.nativeReserve)
    OBVIOUS
  <1>11. /\ q.holder = r.holder /\ q.token = [r.token EXCEPT ![t].progress = p]
         /\ q.pool = [r.pool EXCEPT ![t] = pool]
    BY <1>6, <1>7, <1>9, <1>10 DEF CurveTradeAdds, SameRows
  <1>12. /\ pool.tokens = d.pool[t].tokens - Signed(log) /\ pool.quote = log.nativeReserve
         /\ pool.address = d.pool[t].address /\ pool.tx = d.pool[t].tx
    <2>1. r.pool[t].tokens - Signed(log) \in Int /\ log.nativeReserve \in Nat
      BY <1>8, SignedType DEF PoolRow, LogOK
    <2> QED
      BY <2>1, <1>8, <1>10, ReservesType
  <1>13. /\ q.token[t].status = d.token[t].status /\ q.token[t].tx = d.token[t].tx
         /\ q.token[t] # NoRow
    <2>1. p \in Int
      BY <1>8, <1>9, ProgressType DEF TokenRow
    <2>2. q.token[t] = [r.token[t] EXCEPT !.progress = p]
      BY <1>3, <1>8, <1>11
    <2>3. q.token[t] \in TokenRow
      BY <1>8, <2>1, <2>2 DEF TokenRow
    <2> QED
      BY <1>8, <2>2, <2>3, RowAssumption DEF TokenRow
  <1>14. q.pool[t] = pool /\ \A s \in Tokens : s # t => q.pool[s] = d.pool[s]
    BY <1>3, <1>8, <1>11 DEF Typed
  <1>15. \A s \in Tokens : s # t => q.token[s] = d.token[s]
    BY <1>3, <1>8, <1>11
  <1>16. q.holder = [d.holder EXCEPT ![t][log.wallet] = NextBalance(d, log)]
    BY <1>5, <1>11 DEF RecordLeaves
  <1> QED
    BY <1>2, <1>6, <1>12, <1>13, <1>14, <1>15, <1>16 DEF TradeLeaves

LEMMA DexTradeRows ==
    ASSUME NEW d, DbOK(d), NEW log, LogOK(log), Kept(log), Known(d, log),
           log.name \in {"SwapIn", "SwapOut"}, Outcome(d, log) = "processed"
    PROVE  TradeLeaves(d, log, Apply(d, log), log.tokenReserve, log.nativeReserve)
  <1>1. PICK r : r = Record(d, log)
    OBVIOUS
  <1>2. PICK q : q = Apply(d, log)
    OBVIOUS
  <1> DEFINE t == log.token
  <1>3. Typed(d) /\ Shaped(d) /\ IsTrade(log) /\ t \in Tokens
    BY DEF DbOK, Typed, IsTrade, IsSwap, Known
  <1>4. NextBalance(d, log) >= 0
    BY <1>3, OutcomeIs, BalanceType DEF Refused
  <1>5. RecordLeaves(d, log, r) /\ Shaped(r) /\ Typed(r)
    BY <1>1, <1>3, <1>4, RecordEffect, RecordTyped DEF Typed
  <1>6. SameRows(Handle(d, log), q) /\ q.events = d.events \cup {Key(log)}
    BY <1>2, Processed
  <1>7. DexTradeAdds(r, log, Handle(d, log))
    BY <1>1, <1>5, HandleIs, DexTradeEffect
  <1>8. /\ r.token \in [Tokens -> TokenRow \cup {NoRow}] /\ r.pool = d.pool
        /\ r.pool[t] \in PoolRow /\ r.token[t] \in TokenRow
        /\ r.token[t].status = d.token[t].status /\ r.token[t].tx = d.token[t].tx
        /\ \A s \in Tokens : s # t => r.token[s] = d.token[s]
    BY <1>3, <1>4, <1>5, RecordRows
  <1>9. PICK pool : pool = WithReserves(r.pool[t], log.tokenReserve, log.nativeReserve)
    OBVIOUS
  <1>10. /\ q.holder = r.holder /\ q.token = r.token
         /\ q.pool = [r.pool EXCEPT ![t] = pool]
    BY <1>6, <1>7, <1>9 DEF DexTradeAdds, SameRows
  <1>11. /\ pool.tokens = log.tokenReserve /\ pool.quote = log.nativeReserve
         /\ pool.address = d.pool[t].address /\ pool.tx = d.pool[t].tx
    <2>1. log.tokenReserve \in Int /\ log.nativeReserve \in Nat
      BY DEF LogOK
    <2> QED
      BY <2>1, <1>8, <1>9, ReservesType
  <1>12. q.pool[t] = pool /\ \A s \in Tokens : s # t => q.pool[s] = d.pool[s]
    BY <1>3, <1>8, <1>10 DEF Typed
  <1>13. q.holder = [d.holder EXCEPT ![t][log.wallet] = NextBalance(d, log)]
    BY <1>5, <1>10 DEF RecordLeaves
  <1>14. q.token[t] # NoRow
    BY <1>8, <1>10, RowAssumption
  <1> QED
    BY <1>2, <1>6, <1>8, <1>10, <1>11, <1>12, <1>13, <1>14 DEF TradeLeaves

-----------------------------------------------------------------------------
\* Where the rows of a database come from.

\* PumpNow's own logs come from the pair before a graduation, and at it, and
\* from the pool after it.
Sourced(log) ==
    Genuine(log) /\ log.token \in Tokens =>
        /\ log.name \in {"Buy", "Sell", "Graduated"} => log.address = Pair(log.token)
        /\ IsSwap(log) => log.address = Pool(log.token)

LogRecord ==
    [name : Names, address : {Factory, Treasury, Elsewhere} \cup ({"pair", "pool"} \X Tokens),
     token : Tokens \cup {Stranger}, wallet : Wallets, tx : Nat, index : Nat,
     amount : Nat, quote : Nat, tokenReserve : Nat, nativeReserve : Nat]

\* A history: its logs are numbered in its order, and none is later than x.
Lined(ls, x) ==
    /\ ls \in Seq(LogRecord)
    /\ \A i \in 1 .. Len(ls) :
        /\ LogOK(ls[i]) /\ Sourced(ls[i]) /\ ls[i].index = i /\ ls[i].tx <= x
        /\ \A j \in 1 .. i : ls[j].tx <= ls[i].tx

\* A pool with a transaction is the one its token graduated to.
Live(d) ==
    \A t \in Tokens : d.pool[t] # NoRow /\ d.pool[t].tx # NoRow => d.pool[t].address = Pool(t)

Begins(log, event, t) == Genuine(log) /\ log.name = event /\ log.token = t

\* What a log leaves of the rows that conflicts are with.
Ties(d, log, r) ==
    /\ d.events \subseteq r.events
    /\ \A t \in Tokens : d.token[t] # NoRow => r.token[t] # NoRow /\ r.token[t].tx = d.token[t].tx
    /\ \A t \in Tokens : d.pool[t] # NoRow =>
         r.pool[t] # NoRow /\ (d.pool[t].tx # NoRow => r.pool[t].tx = d.pool[t].tx)
    /\ \A t \in Tokens : r.pool[t] # NoRow /\ r.pool[t].tx # NoRow =>
         \/ d.pool[t] # NoRow /\ d.pool[t].tx = r.pool[t].tx
         \/ Begins(log, "Graduated", t) /\ log.tx = r.pool[t].tx
    /\ \A t \in Tokens : r.token[t] # NoRow =>
         \/ d.token[t] # NoRow
         \/ Begins(log, "TokenCreated", t) /\ log.tx = r.token[t].tx
    /\ Live(r)

LEMMA TiesStay ==
    ASSUME NEW d, Live(d), NEW log, NEW r, d.events \subseteq r.events,
           r.token = d.token, r.pool = d.pool
    PROVE  Ties(d, log, r)
  BY DEF Ties, Live

LEMMA Addresses ==
    /\ Factory # Elsewhere /\ Treasury # Elsewhere /\ Factory # Treasury
    /\ \A a \in {"pair", "pool"} \X Tokens : a # Elsewhere
    /\ \A t \in Tokens : /\ Pair(t) # Pool(t) /\ Pair(t) # Elsewhere /\ Pool(t) # Elsewhere
                         /\ Pair(t) \in {"pair", "pool"} \X Tokens
                         /\ Pool(t) \in {"pair", "pool"} \X Tokens
  BY DEF Factory, Treasury, Elsewhere, Pair, Pool

\* A log of a known token that is not refused comes from PumpNow's contract.
LEMMA KnownSource ==
    ASSUME NEW d, Typed(d), NEW log, LogOK(log), Known(d, log), ~Refused(d, log),
           log.name \notin {"TokenCreated", "FeeCollected"}
    PROVE  /\ Genuine(log) /\ log.token \in Tokens
           /\ d.pool[log.token] \in PoolRow /\ d.pool[log.token].address = log.address
  <1>1. log.token \in Tokens /\ d.pool[log.token] \in PoolRow
    BY RowsAreRows DEF Known
  <1>2. log.name \in {"Buy", "Sell", "SwapIn", "SwapOut", "Graduated"}
    BY DEF LogOK, Names, Refused
  <1>3. d.pool[log.token].address = log.address
    BY <1>2 DEF Refused, WrongSource
  <1>4. d.pool[log.token].address \in {"pair", "pool"} \X Tokens
    BY <1>1 DEF PoolRow
  <1> QED
    BY <1>1, <1>3, <1>4, Addresses DEF Genuine

LEMMA ApplyTies ==
    ASSUME NEW d, DbOK(d), Live(d), NEW log, LogOK(log), Sourced(log), Kept(log)
    PROVE  Ties(d, log, Apply(d, log))
  <1> SUFFICES ASSUME Outcome(d, log) = "processed"
               PROVE  Ties(d, log, Apply(d, log))
    BY OutcomeIs, TiesStay
  <1> DEFINE t == log.token
  <1>1. PICK r : r = Apply(d, log)
    OBVIOUS
  <1>2. PICK q : q = Handle(d, log)
    OBVIOUS
  <1>3. r.token = q.token /\ r.pool = q.pool /\ d.events \subseteq r.events
    BY <1>1, <1>2, Processed DEF SameRows
  <1>4. Typed(d) /\ ~Refused(d, log)
    BY OutcomeIs DEF DbOK
  <1>5. CASE log.name = "TokenCreated"
    <2>1. TokenCreatedLeaves(d, log, q)
      BY <1>2, <1>4, <1>5, HandleIs, TokenCreatedEffect DEF Typed
    <2>2. t \in Tokens /\ d.token[t] = NoRow /\ d.pool[t] = NoRow
      BY <1>4, <1>5, OutcomeIs DEF Conflict, LogOK, Typed
    <2>3. /\ r.pool[t].tx = NoRow /\ r.token[t].tx = log.tx
          /\ \A s \in Tokens : s # t => r.token[s] = d.token[s] /\ r.pool[s] = d.pool[s]
      BY <1>3, <1>4, <2>1, <2>2 DEF TokenCreatedLeaves, NewPool, NewToken, Typed
    <2>4. Begins(log, "TokenCreated", t)
      BY <1>5, Addresses DEF Begins, Genuine, Kept
    <2> HIDE DEF t
    <2> QED
      BY <1>1, <1>3, <2>2, <2>3, <2>4 DEF Ties, Live
  <1>6. CASE log.name = "FeeCollected"
    <2>1. FeeCollectedLeaves(d, log, q)
      BY <1>2, <1>4, <1>6, HandleIs, FeeCollectedEffect DEF Typed
    <2> QED
      BY <1>1, <1>3, <2>1, TiesStay DEF FeeCollectedLeaves
  <1>7. CASE log.name \notin {"TokenCreated", "FeeCollected", "Garbled"} /\ ~Known(d, log)
    BY <1>1, <1>2, <1>3, <1>7, HandleIs, TiesStay
  <1>8. ASSUME Known(d, log), NEW tokens, NEW quote, TradeLeaves(d, log, r, tokens, quote)
        PROVE  Ties(d, log, r)
    <2>1. t \in Tokens /\ d.token[t] # NoRow /\ d.pool[t] # NoRow
      BY <1>4, <1>8 DEF Known, Typed
    <2>2. /\ r.token[t].tx = d.token[t].tx /\ r.token[t] # NoRow /\ r.pool[t].tx = d.pool[t].tx
          /\ r.pool[t].address = d.pool[t].address
          /\ \A s \in Tokens : s # t => r.token[s] = d.token[s] /\ r.pool[s] = d.pool[s]
      BY <1>8 DEF TradeLeaves
    <2>3. Typed(r)
      BY <1>1, ApplyKeeps DEF DbOK
    <2>4. r.pool[t] # NoRow
      BY <2>1, <2>2, <2>3 DEF Typed
    <2> HIDE DEF t
    <2> QED
      BY <1>3, <2>1, <2>2, <2>4 DEF Ties, Live
  <1>9. CASE log.name \in {"Buy", "Sell"} /\ Known(d, log)
    BY <1>1, <1>8, <1>9, CurveTradeRows
  <1>10. CASE log.name \in {"SwapIn", "SwapOut"} /\ Known(d, log)
    BY <1>1, <1>8, <1>10, DexTradeRows
  <1>11. CASE log.name = "Graduated" /\ Known(d, log)
    <2>1. GraduationLeaves(d, log, q)
      BY <1>2, <1>4, <1>11, HandleIs, GraduationEffect DEF Typed
    <2>2. t \in Tokens /\ d.token[t] \in TokenRow /\ d.pool[t] # NoRow
      BY <1>4, <1>11, RowsAreRows DEF Known
    <2>3. /\ r.token[t] = GraduatedToken(d.token[t]) /\ r.pool[t].tx = log.tx
          /\ r.pool[t].address = Pool(t)
          /\ \A s \in Tokens : s # t => r.token[s] = d.token[s] /\ r.pool[s] = d.pool[s]
      BY <1>3, <1>4, <2>1, <2>2 DEF GraduationLeaves, ActivePool, Typed
    <2>4. r.token[t] # NoRow /\ r.token[t].tx = d.token[t].tx /\ d.token[t] # NoRow
      BY <2>2, <2>3, GraduatedTokenType, RowAssumption
    <2>5. Typed(r)
      BY <1>1, ApplyKeeps DEF DbOK
    <2>6. r.pool[t] # NoRow
      BY <2>2, <2>4, <2>5 DEF Typed
    <2>7. Genuine(log) /\ d.pool[t].address = log.address
      BY <1>4, <1>11, KnownSource
    <2>8. log.address = Pair(t)
      BY <1>11, <2>2, <2>7 DEF Sourced
    <2>9. d.pool[t].tx = NoRow
      BY <2>2, <2>7, <2>8, Addresses DEF Live
    <2>10. Begins(log, "Graduated", t)
      BY <1>11, <2>7 DEF Begins
    <2> HIDE DEF t
    <2> QED
      BY <1>1, <1>3, <2>2, <2>3, <2>4, <2>6, <2>9, <2>10 DEF Ties, Live
  <1>12. log.name # "Garbled"
    BY <1>4 DEF Refused
  <1> QED
    BY <1>1, <1>5, <1>6, <1>7, <1>9, <1>10, <1>11, <1>12 DEF LogOK, Names

\* One pass over a history: h[n] is what the first n logs make of an empty
\* database, and none of them is refused.
Step(d, log) == IF Kept(log) THEN Apply(d, log) ELSE d
Pass(h, ls, n) ==
    /\ h[0] = EmptyDb
    /\ \A j \in 1 .. n : /\ h[j] = Step(h[j - 1], ls[j])
                         /\ Kept(ls[j]) => Outcome(h[j - 1], ls[j]) # "refused"

\* Each row of the database has its log among the first n.
Sound(d, ls, n) ==
    /\ DbOK(d) /\ Live(d)
    /\ \A k \in d.events : \E j \in 1 .. n : k = Key(ls[j])
    /\ \A t \in Tokens : d.token[t] # NoRow =>
         \E j \in 1 .. n : Begins(ls[j], "TokenCreated", t) /\ ls[j].tx = d.token[t].tx
    /\ \A t \in Tokens : d.pool[t] # NoRow /\ d.pool[t].tx # NoRow =>
         \E j \in 1 .. n : Begins(ls[j], "Graduated", t) /\ ls[j].tx = d.pool[t].tx

LEMMA EmptyDbOK == DbOK(EmptyDb)
  <1>1. /\ EmptyDb.events = {} /\ EmptyDb.trades = {} /\ EmptyDb.fees = {}
        /\ EmptyDb.token = [t \in Tokens |-> NoRow] /\ EmptyDb.pool = [t \in Tokens |-> NoRow]
        /\ EmptyDb.holder = [t \in Tokens |-> [w \in Wallets |-> 0]]
        /\ Shaped(EmptyDb)
        /\ EmptyDb.stats = [tokens |-> 0, bonding |-> 0, graduated |-> 0, trades |-> 0,
                            volume |-> 0, fees |-> 0, traders |-> 0]
    BY DEF EmptyDb, Shaped
  <1>2. EmptyDb.stats \in Stats
    BY <1>1 DEF Stats
  <1> QED
    BY <1>1, <1>2 DEF DbOK, Typed, Linked

LEMMA StepSound ==
    ASSUME NEW ls, NEW x, Lined(ls, x), NEW n \in 1 .. Len(ls), NEW d, Sound(d, ls, n - 1)
    PROVE  Sound(Step(d, ls[n]), ls, n)
  <1>0. Len(ls) \in Nat /\ n \in Nat /\ n - 1 \in Nat /\ n \in 1 .. n
        /\ \A j \in 1 .. n - 1 : j \in 1 .. n
    BY DEF Lined
  <1>1. LogOK(ls[n]) /\ Sourced(ls[n])
    BY DEF Lined
  <1>2. CASE ~Kept(ls[n])
    BY <1>0, <1>2 DEF Step, Sound
  <1>3. CASE Kept(ls[n])
    <2>1. PICK r : r = Apply(d, ls[n])
      OBVIOUS
    <2>2. PICK log : log = ls[n]
      OBVIOUS
    <2>3. DbOK(r) /\ Ties(d, log, r) /\ r.events \subseteq d.events \cup {Key(log)}
      BY <1>1, <1>3, <2>1, <2>2, ApplyKeeps, ApplyTies DEF Sound
    <2>4. \A k \in r.events : \E j \in 1 .. n : k = Key(ls[j])
      BY <1>0, <2>2, <2>3 DEF Sound
    <2>5. ASSUME NEW t \in Tokens, r.token[t] # NoRow
          PROVE  \E j \in 1 .. n : Begins(ls[j], "TokenCreated", t) /\ ls[j].tx = r.token[t].tx
      <3>1. CASE d.token[t] # NoRow
        <4>1. r.token[t].tx = d.token[t].tx
          BY <2>3, <3>1 DEF Ties
        <4> QED
          BY <1>0, <3>1, <4>1 DEF Sound
      <3>2. CASE d.token[t] = NoRow
        <4>1. Begins(log, "TokenCreated", t) /\ log.tx = r.token[t].tx
          BY <2>3, <2>5, <3>2 DEF Ties
        <4> QED
          BY <1>0, <2>2, <4>1
      <3> QED
        BY <3>1, <3>2
    <2>6. ASSUME NEW t \in Tokens, r.pool[t] # NoRow /\ r.pool[t].tx # NoRow
          PROVE  \E j \in 1 .. n : Begins(ls[j], "Graduated", t) /\ ls[j].tx = r.pool[t].tx
      <3>1. CASE d.pool[t] # NoRow /\ d.pool[t].tx = r.pool[t].tx
        BY <1>0, <2>6, <3>1 DEF Sound
      <3>2. CASE Begins(log, "Graduated", t) /\ log.tx = r.pool[t].tx
        BY <1>0, <2>2, <3>2
      <3> QED
        BY <2>3, <2>6, <3>1, <3>2 DEF Ties
    <2>7. Live(r)
      BY <2>3 DEF Ties
    <2>8. Step(d, ls[n]) = r
      BY <1>3, <2>1 DEF Step
    <2> QED
      BY <2>3, <2>4, <2>5, <2>6, <2>7, <2>8 DEF Sound
  <1> QED
    BY <1>2, <1>3

LEMMA EmptySound == ASSUME NEW ls PROVE Sound(EmptyDb, ls, 0)
  BY EmptyDbOK DEF Sound, Live, EmptyDb

\* By induction on the place of the first database that is not sound.
LEMMA PassSound ==
    ASSUME NEW ls, NEW x, Lined(ls, x), NEW h, NEW n \in 0 .. Len(ls), Pass(h, ls, n)
    PROVE  Sound(h[n], ls, n)
  <1> DEFINE Bad == {i \in 0 .. n : ~Sound(h[i], ls, i)}
  <1>0. Len(ls) \in Nat /\ n \in Nat
    BY DEF Lined
  <1> SUFFICES ASSUME Bad # {}
               PROVE  FALSE
    BY <1>0
  <1>1. Bad \in SUBSET Nat
    BY <1>0
  <1>2. PICK k \in Bad : \A y \in Bad : k <= y
    <2> HIDE DEF Bad
    <2> QED
      BY <1>1, LeastNat
  <1>3. k # 0
    BY EmptySound DEF Pass
  <1>4. k \in 1 .. n /\ k \in 1 .. Len(ls) /\ k - 1 \in 0 .. n /\ k - 1 \notin Bad
    BY <1>0, <1>1, <1>2, <1>3
  <1>5. Sound(h[k - 1], ls, k - 1)
    BY <1>4
  <1>6. h[k] = Step(h[k - 1], ls[k])
    BY <1>4 DEF Pass
  <1> QED
    BY <1>2, <1>4, <1>5, <1>6, StepSound

-----------------------------------------------------------------------------
\* The database against the chain, one log at a time.  `c`, `b` and `m` are
\* the markets, the balances and the pairs that moved unseen.

MirrorsOne(d, c, b, m, t) ==
    /\ c[t] = NoRow <=> d.token[t] = NoRow
    /\ c[t] # NoRow =>
        /\ d.pool[t].quote = c[t].native
        /\ d.pool[t].tokens = IF c[t].pool # NoRow THEN c[t].pool ELSE Supply - c[t].sold
        /\ d.token[t].status = "GRADUATED" <=> c[t].pool # NoRow
        /\ d.pool[t].address = IF c[t].pool # NoRow THEN Pool(t) ELSE Pair(t)
    /\ \A w \in Wallets : <<t, w>> \in m \/ d.holder[t][w] = b[t][w]

\* All tokens but those in `o`.
Mirrors(d, c, b, m, o) == \A t \in Tokens \ o : MirrorsOne(d, c, b, m, t)

\* A wallet's balance changes by what the log says, or it moved unseen.
Credited(b, m, t, w, change, after, moves) ==
    /\ m \subseteq moves
    /\ \A s \in Tokens, v \in Wallets :
        <<s, v>> \in moves
          \/ after[s][v] = IF s = t /\ v = w THEN b[s][v] + change ELSE b[s][v]

Balances == [Tokens -> [Wallets -> Nat]]
Markets  == [Tokens -> Market \cup {NoRow}]

LEMMA MirroredRow ==
    ASSUME NEW d, Typed(d), NEW c \in Markets, NEW b \in Balances, NEW m,
           NEW t \in Tokens, MirrorsOne(d, c, b, m, t), c[t] # NoRow
    PROVE  /\ c[t] \in Market /\ d.token[t] # NoRow /\ d.pool[t] # NoRow
           /\ d.token[t] \in TokenRow /\ d.pool[t] \in PoolRow
           /\ d.pool[t].quote = c[t].native
           /\ d.pool[t].tokens = IF c[t].pool # NoRow THEN c[t].pool ELSE Supply - c[t].sold
           /\ d.token[t].status = "GRADUATED" <=> c[t].pool # NoRow
           /\ d.pool[t].address = IF c[t].pool # NoRow THEN Pool(t) ELSE Pair(t)
  <1>1. c[t] \in Market /\ d.token[t] # NoRow /\ d.pool[t] # NoRow
    BY DEF Markets, MirrorsOne, Typed
  <1> QED
    BY <1>1, RowsAreRows DEF MirrorsOne

\* What the processor makes of a log: it is indexed and the database mirrors
\* the chain after it, or it is refused and the wallet's tokens moved unseen.
Answered(d, log, c2, after, moves) ==
    \/ /\ Outcome(d, log) = "processed"
       /\ MirrorsOne(Apply(d, log), c2, after, moves, log.token)
    \/ /\ Outcome(d, log) = "refused" /\ <<log.token, log.wallet>> \in moves

\* The row that a unique index would refuse the log for, beside its own.
Rival(d, log) ==
    \E s \in Tokens \ {log.token} :
        \/ log.name = "TokenCreated" /\ d.token[s] # NoRow /\ d.token[s].tx = log.tx
        \/ log.name = "Graduated" /\ d.pool[s] # NoRow /\ d.pool[s].tx = log.tx

LEMMA FeeLog ==
    ASSUME NEW d, DbOK(d), NEW c \in Markets, NEW b \in Balances, NEW m,
           NEW log, LogOK(log), Kept(log), Key(log) \notin d.events,
           log.name = "FeeCollected", NEW t \in Tokens, log.token = t,
           MirrorsOne(d, c, b, m, t), c[t] # NoRow
    PROVE  Answered(d, log, c, b, m)
  <1>1. Typed(d) /\ Shaped(d) /\ d.pool[t] # NoRow
    BY MirroredRow DEF DbOK, Typed
  <1>2. Outcome(d, log) = "processed"
    <2>1. ~Refused(d, log)
      BY <1>1 DEF Refused, WrongSource, IsTrade, IsSwap, Known
    <2>2. ~Conflict(d, log)
      BY DEF Conflict
    <2> QED
      BY <2>1, <2>2, OutcomeIs
  <1>3. SameRows(Handle(d, log), Apply(d, log))
    BY <1>2, Processed
  <1>4. FeeCollectedLeaves(d, log, Handle(d, log))
    BY <1>1, HandleIs, FeeCollectedEffect
  <1>5. /\ Apply(d, log).token = d.token /\ Apply(d, log).pool = d.pool
        /\ Apply(d, log).holder = d.holder
    BY <1>3, <1>4 DEF SameRows, FeeCollectedLeaves
  <1> QED
    BY <1>2, <1>5 DEF MirrorsOne, Answered

\* A trade the processor does not refuse has the balance the chain has.
LEMMA NextBalanceIs ==
    ASSUME NEW d, Typed(d), NEW c, NEW b \in Balances, NEW m,
           NEW log, LogOK(log), NEW t \in Tokens, log.token = t, IsTrade(log),
           MirrorsOne(d, c, b, m, t),
           NEW after \in Balances, NEW moves,
           Credited(b, m, t, log.wallet, Signed(log), after, moves)
    PROVE  /\ log.wallet \in Wallets
           /\ <<t, log.wallet>> \in moves \/ NextBalance(d, log) = after[t][log.wallet]
           /\ <<t, log.wallet>> \in moves \/ NextBalance(d, log) >= 0
  <1>1. log.wallet \in Wallets
    BY BalanceType
  <1>2. <<t, log.wallet>> \in moves \/ NextBalance(d, log) = after[t][log.wallet]
    BY <1>1 DEF Credited, MirrorsOne, NextBalance
  <1>3. after[t][log.wallet] \in Nat
    BY <1>1 DEF Balances
  <1> QED
    BY <1>1, <1>2, <1>3

\* What a trade does to the chain's market.
Follows(c, c2, t, tokens, quote) ==
    /\ \A s \in Tokens : s # t => c2[s] = c[s]
    /\ c2[t] # NoRow /\ (c2[t].pool = NoRow <=> c[t].pool = NoRow)
    /\ quote = c2[t].native
    /\ tokens = IF c2[t].pool # NoRow THEN c2[t].pool ELSE Supply - c2[t].sold

\* Such a trade keeps the database a mirror when the chain's market follows.
LEMMA TradeMirrors ==
    ASSUME NEW d, DbOK(d), NEW c \in Markets, NEW b \in Balances, NEW m,
           NEW log, LogOK(log), IsTrade(log),
           NEW t \in Tokens, log.token = t, MirrorsOne(d, c, b, m, t), c[t] # NoRow,
           NEW after \in Balances, NEW moves,
           Credited(b, m, t, log.wallet, Signed(log), after, moves),
           NEW c2 \in Markets, NEW tokens, NEW quote, Follows(c, c2, t, tokens, quote),
           NEW r, TradeLeaves(d, log, r, tokens, quote)
    PROVE  MirrorsOne(r, c2, after, moves, t)
  <1>1. Typed(d)
    BY DEF DbOK
  <1>2. /\ d.token[t] # NoRow
        /\ d.token[t].status = "GRADUATED" <=> c[t].pool # NoRow
        /\ d.pool[t].address = IF c[t].pool # NoRow THEN Pool(t) ELSE Pair(t)
    BY <1>1, MirroredRow
  <1>3. \A v \in Wallets : <<t, v>> \in moves \/ r.holder[t][v] = after[t][v]
    <2> SUFFICES ASSUME NEW v \in Wallets, <<t, v>> \notin moves
                 PROVE  r.holder[t][v] = after[t][v]
      OBVIOUS
    <2>1. r.holder = [d.holder EXCEPT ![t][log.wallet] = NextBalance(d, log)]
      BY DEF TradeLeaves
    <2>2. d.holder[t][v] = b[t][v]
      BY DEF MirrorsOne, Credited
    <2>3. CASE v = log.wallet
      <3>1. r.holder[t][log.wallet] = NextBalance(d, log)
        BY <1>1, <2>1, <2>3 DEF Typed
      <3>2. <<t, log.wallet>> \in moves \/ NextBalance(d, log) = after[t][log.wallet]
        BY <1>1, NextBalanceIs
      <3> QED
        BY <2>3, <3>1, <3>2
    <2>4. CASE v # log.wallet
      <3>1. r.holder[t][v] = d.holder[t][v]
        BY <1>1, <2>1, <2>4 DEF Typed
      <3> QED
        BY <2>2, <2>4, <3>1 DEF Credited
    <2> QED
      BY <2>3, <2>4
  <1>5. /\ r.token[t] # NoRow
        /\ r.pool[t].quote = c2[t].native /\ r.pool[t].tokens = tokens
        /\ r.token[t].status = "GRADUATED" <=> c2[t].pool # NoRow
        /\ r.pool[t].address = IF c2[t].pool # NoRow THEN Pool(t) ELSE Pair(t)
    BY <1>2 DEF TradeLeaves, Follows
  <1> QED
    BY <1>3, <1>5 DEF MirrorsOne, Follows

\* The contract a token's trades come from.
Source(c, t) == IF c[t].pool # NoRow THEN Pool(t) ELSE Pair(t)

LEMMA TradeOutcome ==
    ASSUME NEW d, DbOK(d), NEW c \in Markets, NEW b \in Balances, NEW m,
           NEW log, LogOK(log), Key(log) \notin d.events, IsTrade(log),
           NEW t \in Tokens, log.token = t, MirrorsOne(d, c, b, m, t), c[t] # NoRow,
           log.address = Source(c, t),
           NEW after \in Balances, NEW moves,
           Credited(b, m, t, log.wallet, Signed(log), after, moves)
    PROVE  /\ Known(d, log) /\ Kept(log)
           /\ \/ Outcome(d, log) = "processed"
              \/ Outcome(d, log) = "refused" /\ <<t, log.wallet>> \in moves
  <1>1. Typed(d)
    BY DEF DbOK
  <1>2. d.pool[t] # NoRow /\ d.pool[t].address = log.address
    BY <1>1, MirroredRow DEF Source
  <1>3. Known(d, log) /\ ~WrongSource(d, log)
    BY <1>2 DEF Known, WrongSource
  <1>5. log.name \notin {"TokenCreated", "FeeCollected", "Graduated", "Garbled"}
    BY DEF IsTrade, IsSwap
  <1>6. ~Conflict(d, log) /\ Kept(log)
    BY <1>5 DEF Conflict, Kept
  <1>7. CASE <<t, log.wallet>> \in moves
    <2>1. Outcome(d, log) \in {"processed", "refused"}
      BY <1>6 DEF Outcome
    <2> QED
      BY <1>3, <1>6, <1>7, <2>1
  <1>8. CASE <<t, log.wallet>> \notin moves
    <2>1. NextBalance(d, log) >= 0 /\ NextBalance(d, log) \in Int
      BY <1>1, <1>8, NextBalanceIs, BalanceType
    <2>2. ~(NextBalance(d, log) < 0)
      BY <2>1
    <2>3. ~Refused(d, log)
      BY <1>3, <1>5, <2>2 DEF Refused
    <2> QED
      BY <1>3, <1>6, <2>3, OutcomeIs
  <1> QED
    BY <1>7, <1>8

LEMMA CurveLog ==
    ASSUME NEW d, DbOK(d), NEW c \in Markets, NEW b \in Balances, NEW m,
           NEW log, LogOK(log), Key(log) \notin d.events, log.name \in {"Buy", "Sell"},
           NEW t \in Tokens, log.token = t, MirrorsOne(d, c, b, m, t),
           c[t] # NoRow, c[t].pool = NoRow, log.address = Pair(t),
           NEW after \in Balances, NEW moves,
           Credited(b, m, t, log.wallet, Signed(log), after, moves),
           NEW c2 \in Markets,
           Follows(c, c2, t, Supply - (c[t].sold + Signed(log)), log.nativeReserve)
    PROVE  Answered(d, log, c2, after, moves)
  <1>1. IsTrade(log)
    BY DEF IsTrade
  <1>2. /\ Known(d, log) /\ Kept(log)
        /\ \/ Outcome(d, log) = "processed"
           \/ Outcome(d, log) = "refused" /\ <<t, log.wallet>> \in moves
    <2>1. log.address = Source(c, t)
      BY DEF Source
    <2> QED
      BY <1>1, <2>1, TradeOutcome, SMTT(30)
  <1>3. ASSUME Outcome(d, log) = "processed"
        PROVE  MirrorsOne(Apply(d, log), c2, after, moves, t)
    <2>1. TradeLeaves(d, log, Apply(d, log), d.pool[t].tokens - Signed(log), log.nativeReserve)
      BY <1>2, <1>3, CurveTradeRows
    <2>2. d.pool[t].tokens - Signed(log) = Supply - (c[t].sold + Signed(log))
      <3>1. d.pool[t].tokens = Supply - c[t].sold /\ c[t] \in Market
        BY MirroredRow DEF DbOK
      <3>2. c[t].sold \in Int /\ Supply \in Int /\ Signed(log) \in Int
        BY <3>1, SignedType, EventAssumption DEF Market
      <3> QED
        BY <3>1, <3>2
    <2>3. PICK tokens : tokens = Supply - (c[t].sold + Signed(log))
      OBVIOUS
    <2>4. /\ TradeLeaves(d, log, Apply(d, log), tokens, log.nativeReserve)
          /\ Follows(c, c2, t, tokens, log.nativeReserve)
      BY <2>1, <2>2, <2>3
    <2> QED
      BY <1>1, <2>4, TradeMirrors
  <1> QED
    BY <1>2, <1>3 DEF Answered

LEMMA DexLog ==
    ASSUME NEW d, DbOK(d), NEW c \in Markets, NEW b \in Balances, NEW m,
           NEW log, LogOK(log), Key(log) \notin d.events, log.name \in {"SwapIn", "SwapOut"},
           NEW t \in Tokens, log.token = t, MirrorsOne(d, c, b, m, t),
           c[t] # NoRow, c[t].pool # NoRow, log.address = Pool(t),
           NEW after \in Balances, NEW moves,
           Credited(b, m, t, log.wallet, Signed(log), after, moves),
           NEW c2 \in Markets, Follows(c, c2, t, log.tokenReserve, log.nativeReserve)
    PROVE  Answered(d, log, c2, after, moves)
  <1>1. IsTrade(log)
    BY DEF IsTrade, IsSwap
  <1>2. /\ Known(d, log) /\ Kept(log)
        /\ \/ Outcome(d, log) = "processed"
           \/ Outcome(d, log) = "refused" /\ <<t, log.wallet>> \in moves
    <2>1. log.address = Source(c, t)
      BY DEF Source
    <2> QED
      BY <1>1, <2>1, TradeOutcome, SMTT(30)
  <1>3. ASSUME Outcome(d, log) = "processed"
        PROVE  MirrorsOne(Apply(d, log), c2, after, moves, t)
    <2>1. TradeLeaves(d, log, Apply(d, log), log.tokenReserve, log.nativeReserve)
      BY <1>2, <1>3, DexTradeRows
    <2> QED
      BY <1>1, <2>1, TradeMirrors
  <1> QED
    BY <1>2, <1>3 DEF Answered

\* The log of a graduation: the market's reserves are now the pool's.
LEMMA GraduatedLog ==
    ASSUME NEW d, DbOK(d), NEW c \in Markets, NEW b \in Balances, NEW m,
           NEW log, LogOK(log), Key(log) \notin d.events, ~Rival(d, log),
           log.name = "Graduated", NEW t \in Tokens, log.token = t, MirrorsOne(d, c, b, m, t),
           c[t] # NoRow, c[t].pool = NoRow, log.address = Pair(t),
           NEW c2 \in Markets,
           c2[t] # NoRow, c2[t].pool = log.tokenReserve, c2[t].native = log.nativeReserve
    PROVE  Answered(d, log, c2, b, m)
  <1>1. Typed(d) /\ Shaped(d)
    BY DEF DbOK, Typed
  <1>2. /\ d.pool[t] # NoRow /\ d.token[t] # NoRow /\ d.token[t] \in TokenRow
        /\ d.pool[t].address = Pair(t)
    BY <1>1, MirroredRow
  <1>3. Known(d, log) /\ Kept(log)
    BY <1>2 DEF Known, Kept
  <1>4. ~Refused(d, log)
    BY <1>2 DEF Refused, WrongSource, IsTrade, IsSwap
  <1>5. ~Conflict(d, log)
    BY DEF Conflict, Rival
  <1>6. Outcome(d, log) = "processed"
    BY <1>4, <1>5, OutcomeIs
  <1>7. PICK r : r = Apply(d, log)
    OBVIOUS
  <1>8. SameRows(Handle(d, log), r) /\ Typed(r)
    BY <1>3, <1>6, <1>7, Processed DEF DbOK
  <1>9. GraduationLeaves(d, log, Handle(d, log))
    BY <1>1, <1>3, HandleIs, GraduationEffect
  <1>10. /\ r.token = [d.token EXCEPT ![t] = GraduatedToken(d.token[t])]
         /\ r.pool = [d.pool EXCEPT ![t] = ActivePool(log)] /\ r.holder = d.holder
    BY <1>8, <1>9 DEF SameRows, GraduationLeaves
  <1>11. /\ GraduatedToken(d.token[t]) # NoRow
         /\ GraduatedToken(d.token[t]).status = "GRADUATED"
    BY <1>2, GraduatedTokenType, RowAssumption
  <1>12. /\ ActivePool(log).tokens = log.tokenReserve /\ ActivePool(log).quote = log.nativeReserve
         /\ ActivePool(log).address = Pool(t)
    BY DEF ActivePool
  <1>13. r.token[t] = GraduatedToken(d.token[t]) /\ r.pool[t] = ActivePool(log)
    BY <1>1, <1>10 DEF Typed
  <1>14. c2[t].pool # NoRow
    BY RowAssumption DEF LogOK
  <1>15. /\ r.token[t] # NoRow
         /\ r.pool[t].quote = c2[t].native /\ r.pool[t].tokens = c2[t].pool
         /\ r.token[t].status = "GRADUATED" /\ r.pool[t].address = Pool(t)
    BY <1>11, <1>12, <1>13
  <1>16. MirrorsOne(r, c2, b, m, t)
    BY <1>10, <1>14, <1>15 DEF MirrorsOne
  <1> QED
    BY <1>6, <1>7, <1>16 DEF Answered

\* The log of a creation.
LEMMA CreatedLog ==
    ASSUME NEW d, DbOK(d), NEW c \in Markets, NEW b \in Balances, NEW m,
           NEW log, LogOK(log), Kept(log), Key(log) \notin d.events, ~Rival(d, log),
           log.name = "TokenCreated", NEW t \in Tokens, log.token = t,
           MirrorsOne(d, c, b, m, t), c[t] = NoRow, log.tokenReserve = Supply,
           NEW c2 \in Markets, c2[t] # NoRow, c2[t].sold = 0, c2[t].native = 0, c2[t].pool = NoRow
    PROVE  Answered(d, log, c2, b, m)
  <1>1. Typed(d) /\ Shaped(d)
    BY DEF DbOK, Typed
  <1>2. d.token[t] = NoRow /\ d.pool[t] = NoRow
    BY <1>1 DEF MirrorsOne, Typed
  <1>3. ~Refused(d, log)
    BY DEF Refused, WrongSource, IsTrade, IsSwap
  <1>4. ~Conflict(d, log)
    BY <1>2 DEF Conflict, Rival
  <1>5. Outcome(d, log) = "processed"
    BY <1>3, <1>4, OutcomeIs
  <1>6. PICK r : r = Apply(d, log)
    OBVIOUS
  <1>7. SameRows(Handle(d, log), r)
    BY <1>5, <1>6, Processed
  <1>8. TokenCreatedLeaves(d, log, Handle(d, log))
    BY <1>1, HandleIs, TokenCreatedEffect
  <1>9. /\ r.token = [d.token EXCEPT ![t] = NewToken(log)]
        /\ r.pool = [d.pool EXCEPT ![t] = NewPool(log)] /\ r.holder = d.holder
    BY <1>7, <1>8 DEF SameRows, TokenCreatedLeaves
  <1>10. /\ NewToken(log) # NoRow /\ NewToken(log).status = "BONDING"
         /\ NewPool(log).tokens = Supply /\ NewPool(log).quote = 0
         /\ NewPool(log).address = Pair(t)
    <2>1. NewToken(log) \in TokenRow
      BY EventAssumption DEF LogOK, TokenRow, NewToken
    <2> QED
      BY <2>1, RowAssumption DEF NewToken, NewPool
  <1>11. r.token[t] = NewToken(log) /\ r.pool[t] = NewPool(log)
    BY <1>1, <1>9 DEF Typed
  <1>12. /\ r.token[t] # NoRow
         /\ r.pool[t].quote = c2[t].native /\ r.pool[t].tokens = Supply - c2[t].sold
         /\ r.token[t].status # "GRADUATED" /\ r.pool[t].address = Pair(t)
    <2>1. r.token[t] # NoRow /\ r.token[t].status # "GRADUATED"
      BY <1>10, <1>11
    <2>2. c2[t].native = 0 /\ Supply - c2[t].sold = Supply
      BY EventAssumption
    <2> QED
      BY <1>10, <1>11, <2>1, <2>2
  <1>13. MirrorsOne(r, c2, b, m, t)
    BY <1>9, <1>12 DEF MirrorsOne
  <1> QED
    BY <1>5, <1>6, <1>13 DEF Answered

-----------------------------------------------------------------------------
\* The rest of the database at one log.

\* A log of one token leaves the rows of the others.
OthersStay(d, r, t) ==
    \A s \in Tokens : s # t =>
        r.token[s] = d.token[s] /\ r.pool[s] = d.pool[s] /\ r.holder[s] = d.holder[s]

LEMMA ApplyOthers ==
    ASSUME NEW d, DbOK(d), NEW log, LogOK(log), Kept(log)
    PROVE  /\ OthersStay(d, Apply(d, log), log.token)
           /\ log.token \notin Tokens =>
                /\ Apply(d, log).token = d.token /\ Apply(d, log).pool = d.pool
                /\ Apply(d, log).holder = d.holder
  <1> SUFFICES ASSUME Outcome(d, log) = "processed"
               PROVE  /\ OthersStay(d, Apply(d, log), log.token)
                      /\ log.token \notin Tokens =>
                           /\ Apply(d, log).token = d.token /\ Apply(d, log).pool = d.pool
                           /\ Apply(d, log).holder = d.holder
    BY OutcomeIs DEF OthersStay
  <1>1. PICK r : r = Apply(d, log)
    OBVIOUS
  <1>2. PICK q : q = Handle(d, log)
    OBVIOUS
  <1>3. r.token = q.token /\ r.pool = q.pool /\ r.holder = q.holder
    BY <1>1, <1>2, Processed DEF SameRows
  <1>4. Typed(d) /\ Shaped(d) /\ ~Refused(d, log)
    BY OutcomeIs DEF DbOK, Typed
  <1>5. CASE log.name = "TokenCreated"
    <2>1. TokenCreatedLeaves(d, log, q) /\ log.token \in Tokens
      BY <1>2, <1>4, <1>5, HandleIs, TokenCreatedEffect DEF LogOK
    <2> QED
      BY <1>1, <1>3, <1>4, <2>1 DEF TokenCreatedLeaves, OthersStay, Typed
  <1>6. CASE log.name = "FeeCollected"
    <2>1. FeeCollectedLeaves(d, log, q)
      BY <1>2, <1>4, <1>6, HandleIs, FeeCollectedEffect
    <2> QED
      BY <1>1, <1>3, <2>1 DEF FeeCollectedLeaves, OthersStay
  <1>7. CASE log.name \notin {"TokenCreated", "FeeCollected", "Garbled"} /\ ~Known(d, log)
    BY <1>1, <1>2, <1>3, <1>7, HandleIs DEF OthersStay
  <1>8. ASSUME Known(d, log), NEW tokens, NEW quote, TradeLeaves(d, log, r, tokens, quote)
        PROVE  OthersStay(d, r, log.token) /\ log.token \in Tokens
    BY <1>4, <1>8 DEF TradeLeaves, OthersStay, Typed, Known
  <1>9. CASE log.name \in {"Buy", "Sell"} /\ Known(d, log)
    BY <1>1, <1>8, <1>9, CurveTradeRows
  <1>10. CASE log.name \in {"SwapIn", "SwapOut"} /\ Known(d, log)
    BY <1>1, <1>8, <1>10, DexTradeRows
  <1>11. CASE log.name = "Graduated" /\ Known(d, log)
    <2>1. GraduationLeaves(d, log, q) /\ log.token \in Tokens
      BY <1>2, <1>4, <1>11, HandleIs, GraduationEffect DEF Known
    <2> QED
      BY <1>1, <1>3, <1>4, <2>1 DEF GraduationLeaves, OthersStay, Typed
  <1>12. log.name # "Garbled"
    BY <1>4 DEF Refused
  <1> QED
    BY <1>1, <1>5, <1>6, <1>7, <1>9, <1>10, <1>11, <1>12 DEF LogOK, Names

\* Nor does what happens to one token touch the others on the chain.
Apart(c, b, m, c2, after, moves, t) ==
    /\ m \subseteq moves
    /\ \A s \in Tokens : s # t =>
        c2[s] = c[s] /\ \A v \in Wallets : <<s, v>> \in moves \/ after[s][v] = b[s][v]

LEMMA OtherMirrors ==
    ASSUME NEW d, NEW r, NEW c, NEW b, NEW m, NEW c2, NEW after, NEW moves, NEW t,
           OthersStay(d, r, t), Apart(c, b, m, c2, after, moves, t),
           NEW s \in Tokens, s # t, MirrorsOne(d, c, b, m, s)
    PROVE  MirrorsOne(r, c2, after, moves, s)
  <1>1. /\ r.token[s] = d.token[s] /\ r.pool[s] = d.pool[s] /\ r.holder[s] = d.holder[s]
        /\ c2[s] = c[s]
    BY DEF OthersStay, Apart
  <1>2. \A v \in Wallets : <<s, v>> \in moves \/ r.holder[s][v] = after[s][v]
    BY <1>1 DEF Apart, MirrorsOne
  <1> QED
    BY <1>1, <1>2 DEF MirrorsOne

\* The tokens of `Overlooked` in the history ls.
OverlookedIn(ls) ==
    {ls[i].token : i \in {j \in DOMAIN ls :
        /\ ls[j].name \in {"TokenCreated", "Graduated"} /\ Genuine(ls[j])
        /\ \E k \in 1 .. j - 1 : /\ ls[k].name = ls[j].name /\ Genuine(ls[k])
                               /\ ls[k].tx = ls[j].tx}}

LEMMA OverlookedMore ==
    ASSUME NEW ls \in Seq(LogRecord), NEW log \in LogRecord
    PROVE  /\ OverlookedIn(ls) \subseteq OverlookedIn(Append(ls, log))
           /\ \A k \in 1 .. Len(ls) :
                /\ log.name \in {"TokenCreated", "Graduated"} /\ Genuine(log)
                /\ Genuine(ls[k]) /\ ls[k].name = log.name /\ ls[k].tx = log.tx
                => log.token \in OverlookedIn(Append(ls, log))
  <1>1. PICK a : a = Append(ls, log)
    OBVIOUS
  <1>2. /\ DOMAIN ls = 1 .. Len(ls) /\ DOMAIN a = 1 .. Len(ls) + 1 /\ Len(ls) \in Nat
        /\ \A i \in 1 .. Len(ls) : a[i] = ls[i]
        /\ a[Len(ls) + 1] = log
    BY <1>1
  <1>3. OverlookedIn(ls) \subseteq OverlookedIn(a)
    <2> SUFFICES ASSUME NEW i \in DOMAIN ls,
                        ls[i].name \in {"TokenCreated", "Graduated"}, Genuine(ls[i]),
                        NEW k \in 1 .. i - 1, ls[k].name = ls[i].name, Genuine(ls[k]),
                        ls[k].tx = ls[i].tx
                 PROVE  ls[i].token \in OverlookedIn(a)
      BY DEF OverlookedIn
    <2>1. i \in DOMAIN a /\ a[i] = ls[i] /\ a[k] = ls[k]
      BY <1>2
    <2> QED
      BY <2>1 DEF OverlookedIn
  <1>4. ASSUME NEW k \in 1 .. Len(ls),
               log.name \in {"TokenCreated", "Graduated"}, Genuine(log),
               Genuine(ls[k]), ls[k].name = log.name, ls[k].tx = log.tx
        PROVE  log.token \in OverlookedIn(a)
    <2>1. PICK i : i = Len(ls) + 1
      OBVIOUS
    <2>2. i \in DOMAIN a /\ a[i] = log /\ a[k] = ls[k] /\ k \in 1 .. i - 1
      BY <1>2, <2>1
    <2> QED
      BY <1>4, <2>2 DEF OverlookedIn
  <1> QED
    BY <1>1, <1>3, <1>4

\* The next log of a history has a key of its own, and only an overlooked one
\* has a rival.
LEMMA NextKey ==
    ASSUME NEW ls, NEW log, LogOK(log), Lined(ls, log.tx), log.index = Len(ls) + 1,
           NEW d, Sound(d, ls, Len(ls))
    PROVE  Key(log) \notin d.events
  <1>1. Len(ls) \in Nat
    BY DEF Lined
  <1>2. ASSUME NEW j \in 1 .. Len(ls), Key(log) = Key(ls[j])
        PROVE  FALSE
    BY <1>1, <1>2 DEF Lined, Key
  <1> QED
    BY <1>2 DEF Sound

LEMMA NoRival ==
    ASSUME NEW ls, NEW log \in LogRecord, LogOK(log), Lined(ls, log.tx), Genuine(log),
           NEW d, Sound(d, ls, Len(ls)), log.token \notin OverlookedIn(Append(ls, log))
    PROVE  ~Rival(d, log)
  <1> SUFFICES ASSUME Rival(d, log)
               PROVE  FALSE
    OBVIOUS
  <1>1. ls \in Seq(LogRecord) /\ log.tx \in Nat
    BY DEF Lined, LogOK
  <1>2. PICK s \in Tokens :
            \/ log.name = "TokenCreated" /\ d.token[s] # NoRow /\ d.token[s].tx = log.tx
            \/ log.name = "Graduated" /\ d.pool[s] # NoRow /\ d.pool[s].tx = log.tx
    BY DEF Rival
  <1>3. CASE log.name = "TokenCreated"
    <2>1. PICK j \in 1 .. Len(ls) : Begins(ls[j], "TokenCreated", s) /\ ls[j].tx = d.token[s].tx
      BY <1>2, <1>3 DEF Sound
    <2> QED
      BY <1>1, <1>2, <1>3, <2>1, OverlookedMore DEF Begins
  <1>4. CASE log.name = "Graduated"
    <2>1. d.pool[s] # NoRow /\ d.pool[s].tx = log.tx /\ log.tx # NoRow
      BY <1>1, <1>2, <1>4, RowAssumption
    <2>2. PICK j \in 1 .. Len(ls) : Begins(ls[j], "Graduated", s) /\ ls[j].tx = d.pool[s].tx
      BY <2>1 DEF Sound
    <2> QED
      BY <1>1, <1>4, <2>1, <2>2, OverlookedMore DEF Begins
  <1> QED
    BY <1>2, <1>3, <1>4

-----------------------------------------------------------------------------
\* What is told of a history: each of its logs is accounted for at its turn,
\* and a pass over all of them ends as a mirror of the chain.

\* The processor indexes the log; or it answers "duplicate", to a launch or a
\* graduation that is overlooked; or it stops, for one of the known reasons.
Excused(log, o, m) ==
    IF Genuine(log) THEN log.token \in o \/ <<log.token, log.wallet>> \in m
    ELSE log.name = "Garbled" \/ log.token \in Tokens
Accounted(d, log, o, m) ==
    \/ Outcome(d, log) = "processed"
    \/ Outcome(d, log) = "refused" /\ Excused(log, o, m)
    \/ /\ Outcome(d, log) = "duplicate" /\ Genuine(log)
       /\ log.name \in {"TokenCreated", "Graduated"} /\ log.token \in o

Told(ls, x, c, b, m) ==
    /\ Lined(ls, x)
    /\ \A h :
        /\ \A n \in 0 .. Len(ls) - 1 : Pass(h, ls, n) /\ Kept(ls[n + 1]) =>
             Accounted(h[n], ls[n + 1], OverlookedIn(ls), m)
        /\ Pass(h, ls, Len(ls)) => Mirrors(h[Len(ls)], c, b, m, OverlookedIn(ls))

Advances(d, log, c, b, m, o) ==
    /\ Kept(log) => Accounted(d, log, o, m)
    /\ \/ Kept(log) /\ Outcome(d, log) = "refused"
       \/ Mirrors(Step(d, log), c, b, m, o)

\* The log may come next when the chain goes from c, b, m to c2, after, moves.
Fits(log, c, b, m, c2, after, moves) ==
    /\ m \subseteq moves
    /\ \A ls, d : /\ Lined(ls, log.tx) /\ log.index = Len(ls) + 1
                  /\ Sound(d, ls, Len(ls)) /\ Mirrors(d, c, b, m, OverlookedIn(ls))
         => Advances(d, log, c2, after, moves, OverlookedIn(Append(ls, log)))

LEMMA AccountedMore ==
    ASSUME NEW d, NEW log, NEW o, NEW m, Accounted(d, log, o, m),
           NEW o2, o \subseteq o2, NEW moves, m \subseteq moves
    PROVE  Accounted(d, log, o2, moves)
  BY DEF Accounted, Excused

LEMMA MirrorsMore ==
    ASSUME NEW d, NEW c, NEW b, NEW m, NEW o, Mirrors(d, c, b, m, o),
           NEW o2, o \subseteq o2, NEW moves, m \subseteq moves
    PROVE  Mirrors(d, c, b, moves, o2)
  BY DEF Mirrors, MirrorsOne

\* A genuine log of an overlooked token.
LEMMA OverlookedLog ==
    ASSUME NEW d, NEW log, Genuine(log), Key(log) \notin d.events, NEW o, log.token \in o, NEW m
    PROVE  Accounted(d, log, o, m)
  BY OutcomeIs DEF Accounted, Excused, Outcome, Conflict

\* A genuine log fits when it is answered for its own token.
Answers(log, c, b, m, c2, after, moves) ==
    \A d : /\ DbOK(d) /\ MirrorsOne(d, c, b, m, log.token)
           /\ Key(log) \notin d.events /\ ~Rival(d, log)
        => Answered(d, log, c2, after, moves)

LEMMA TokenFits ==
    ASSUME NEW log \in LogRecord, LogOK(log), Kept(log), Genuine(log), log.token \in Tokens,
           NEW c, NEW b, NEW m, NEW c2, NEW after, NEW moves,
           Apart(c, b, m, c2, after, moves, log.token),
           Answers(log, c, b, m, c2, after, moves)
    PROVE  Fits(log, c, b, m, c2, after, moves)
  <1> DEFINE t == log.token
  <1>0. m \subseteq moves
    BY DEF Apart
  <1> SUFFICES ASSUME NEW ls, NEW d, Lined(ls, log.tx), log.index = Len(ls) + 1,
                      Sound(d, ls, Len(ls)), Mirrors(d, c, b, m, OverlookedIn(ls))
               PROVE  Advances(d, log, c2, after, moves, OverlookedIn(Append(ls, log)))
    BY <1>0 DEF Fits
  <1>1. PICK o : o = OverlookedIn(ls)
    OBVIOUS
  <1>2. PICK o2 : o2 = OverlookedIn(Append(ls, log))
    OBVIOUS
  <1>3. o \subseteq o2 /\ Mirrors(d, c, b, m, o)
    BY <1>1, <1>2, OverlookedMore DEF Lined
  <1> SUFFICES Advances(d, log, c2, after, moves, o2)
    BY <1>2
  <1>4. DbOK(d) /\ Key(log) \notin d.events
    BY NextKey DEF Sound
  <1>5. PICK r : r = Apply(d, log)
    OBVIOUS
  <1>6. Step(d, log) = r /\ OthersStay(d, r, t)
    BY <1>4, <1>5, ApplyOthers DEF Step
  <1>7. \A s \in Tokens \ o2 : s # t => MirrorsOne(r, c2, after, moves, s)
    BY <1>3, <1>6, OtherMirrors DEF Mirrors
  <1>8. CASE t \in o2
    BY <1>4, <1>6, <1>7, <1>8, OverlookedLog DEF Advances, Mirrors
  <1>9. CASE t \notin o2
    <2>1. ~Rival(d, log)
      BY <1>2, <1>9, NoRival
    <2>2. MirrorsOne(d, c, b, m, t)
      BY <1>3, <1>9 DEF Mirrors
    <2>3. Answered(d, log, c2, after, moves)
      BY <1>4, <2>1, <2>2 DEF Answers
    <2>4. CASE Outcome(d, log) = "processed" /\ MirrorsOne(r, c2, after, moves, t)
      BY <1>6, <1>7, <2>4 DEF Advances, Accounted, Mirrors
    <2>5. CASE Outcome(d, log) = "refused" /\ <<t, log.wallet>> \in moves
      BY <2>5 DEF Advances, Accounted, Excused
    <2> QED
      BY <1>5, <2>3, <2>4, <2>5 DEF Answered
  <1> QED
    BY <1>8, <1>9

LEMMA CreditedApart ==
    ASSUME NEW c, NEW b, NEW m, NEW c2, NEW after, NEW moves, NEW t, NEW w, NEW change,
           Credited(b, m, t, w, change, after, moves), \A s \in Tokens : s # t => c2[s] = c[s]
    PROVE  Apart(c, b, m, c2, after, moves, t)
  BY DEF Credited, Apart

LEMMA FeeFits ==
    ASSUME NEW c \in Markets, NEW b \in Balances, NEW m,
           NEW log \in LogRecord, LogOK(log),
           log.name = "FeeCollected", log.address = Treasury,
           log.token \in Tokens, c[log.token] # NoRow
    PROVE  Fits(log, c, b, m, c, b, m)
  <1>1. Kept(log) /\ Genuine(log)
    BY Addresses DEF Kept, Genuine
  <1>2. Answers(log, c, b, m, c, b, m)
    BY <1>1, FeeLog DEF Answers
  <1>3. Apart(c, b, m, c, b, m, log.token)
    BY DEF Apart
  <1> QED
    BY <1>1, <1>2, <1>3, TokenFits

LEMMA CurveFits ==
    ASSUME NEW c \in Markets, NEW b \in Balances, NEW m,
           NEW log \in LogRecord, LogOK(log),
           log.name \in {"Buy", "Sell"},
           NEW t \in Tokens, log.token = t, c[t] # NoRow, c[t].pool = NoRow,
           log.address = Pair(t),
           NEW after \in Balances, NEW moves,
           Credited(b, m, t, log.wallet, Signed(log), after, moves),
           NEW c2 \in Markets,
           Follows(c, c2, t, Supply - (c[t].sold + Signed(log)), log.nativeReserve)
    PROVE  Fits(log, c, b, m, c2, after, moves)
  <1>1. Kept(log) /\ Genuine(log)
    BY Addresses DEF Kept, Genuine
  <1>2. Answers(log, c, b, m, c2, after, moves)
    BY CurveLog DEF Answers
  <1>3. Apart(c, b, m, c2, after, moves, log.token)
    BY CreditedApart DEF Follows
  <1> QED
    BY <1>1, <1>2, <1>3, TokenFits

LEMMA DexFits ==
    ASSUME NEW c \in Markets, NEW b \in Balances, NEW m,
           NEW log \in LogRecord, LogOK(log),
           log.name \in {"SwapIn", "SwapOut"},
           NEW t \in Tokens, log.token = t, c[t] # NoRow, c[t].pool # NoRow,
           log.address = Pool(t),
           NEW after \in Balances, NEW moves,
           Credited(b, m, t, log.wallet, Signed(log), after, moves),
           NEW c2 \in Markets, Follows(c, c2, t, log.tokenReserve, log.nativeReserve)
    PROVE  Fits(log, c, b, m, c2, after, moves)
  <1>1. Kept(log) /\ Genuine(log)
    BY Addresses DEF Kept, Genuine
  <1>2. Answers(log, c, b, m, c2, after, moves)
    BY DexLog DEF Answers
  <1>3. Apart(c, b, m, c2, after, moves, log.token)
    BY CreditedApart DEF Follows
  <1> QED
    BY <1>1, <1>2, <1>3, TokenFits

LEMMA GraduatedFits ==
    ASSUME NEW c \in Markets, NEW b \in Balances, NEW m,
           NEW log \in LogRecord, LogOK(log),
           log.name = "Graduated",
           NEW t \in Tokens, log.token = t, c[t] # NoRow, c[t].pool = NoRow,
           log.address = Pair(t),
           NEW c2 \in Markets, \A s \in Tokens : s # t => c2[s] = c[s],
           c2[t] # NoRow, c2[t].pool = log.tokenReserve, c2[t].native = log.nativeReserve
    PROVE  Fits(log, c, b, m, c2, b, m)
  <1>1. Kept(log) /\ Genuine(log)
    BY Addresses DEF Kept, Genuine
  <1>2. Answers(log, c, b, m, c2, b, m)
    BY GraduatedLog DEF Answers
  <1>3. Apart(c, b, m, c2, b, m, log.token)
    BY DEF Apart
  <1> QED
    BY <1>1, <1>2, <1>3, TokenFits

LEMMA CreatedFits ==
    ASSUME NEW c \in Markets, NEW b \in Balances, NEW m,
           NEW log \in LogRecord, LogOK(log),
           log.name = "TokenCreated", log.address = Factory, log.tokenReserve = Supply,
           NEW t \in Tokens, log.token = t, c[t] = NoRow,
           NEW c2 \in Markets, \A s \in Tokens : s # t => c2[s] = c[s],
           c2[t] # NoRow, c2[t].sold = 0, c2[t].native = 0, c2[t].pool = NoRow
    PROVE  Fits(log, c, b, m, c2, b, m)
  <1>1. Kept(log) /\ Genuine(log)
    BY Addresses DEF Kept, Genuine
  <1>2. Answers(log, c, b, m, c2, b, m)
    BY <1>1, CreatedLog DEF Answers
  <1>3. Apart(c, b, m, c2, b, m, log.token)
    BY DEF Apart
  <1> QED
    BY <1>1, <1>2, <1>3, TokenFits

\* A stranger's log is not read, or it is ignored, or it stops the processor
\* and is excused.
LEMMA StrangerFits ==
    ASSUME NEW c, NEW b, NEW m,
           NEW log \in LogRecord, LogOK(log),
           log.address = Elsewhere
    PROVE  Fits(log, c, b, m, c, b, m)
  <1> SUFFICES ASSUME NEW ls, NEW d, Lined(ls, log.tx), log.index = Len(ls) + 1,
                      Sound(d, ls, Len(ls)), Mirrors(d, c, b, m, OverlookedIn(ls))
               PROVE  Advances(d, log, c, b, m, OverlookedIn(Append(ls, log)))
    BY DEF Fits
  <1>2. PICK o2 : o2 = OverlookedIn(Append(ls, log))
    OBVIOUS
  <1>3. OverlookedIn(ls) \subseteq o2
    BY <1>2, OverlookedMore DEF Lined
  <1> SUFFICES Advances(d, log, c, b, m, o2)
    BY <1>2
  <1>4. Mirrors(d, c, b, m, o2)
    BY <1>3, MirrorsMore
  <1>5. CASE ~Kept(log)
    BY <1>4, <1>5 DEF Advances, Step
  <1>6. CASE Kept(log)
    <2>1. DbOK(d) /\ Typed(d) /\ Key(log) \notin d.events /\ ~Genuine(log)
      BY NextKey DEF Sound, DbOK, Genuine
    <2>2. log.name \notin {"TokenCreated", "FeeCollected"}
      BY <1>6, Addresses DEF Kept
    <2>3. CASE Refused(d, log)
      <3>1. Outcome(d, log) = "refused"
        BY <2>1, <2>3 DEF Outcome
      <3>2. log.name = "Garbled" \/ log.token \in Tokens
        BY <2>2, <2>3 DEF Refused, WrongSource, Known
      <3> QED
        BY <1>6, <2>1, <3>1, <3>2 DEF Advances, Accounted, Excused
    <2>4. CASE ~Refused(d, log)
      <3>1. ~Known(d, log) /\ log.name # "Garbled"
        BY <2>1, <2>2, <2>4, KnownSource DEF Refused
      <3>2. Outcome(d, log) = "processed"
        BY <2>1, <2>2, <2>4, <3>1, OutcomeIs DEF Conflict
      <3>3. Handle(d, log) = d
        BY <2>2, <3>1, HandleIs
      <3>4. SameRows(d, Apply(d, log))
        BY <1>6, <2>1, <3>2, <3>3, Processed
      <3>5. Mirrors(Apply(d, log), c, b, m, o2)
        BY <1>4, <3>4 DEF SameRows, Mirrors, MirrorsOne
      <3> QED
        BY <1>6, <3>2, <3>5 DEF Advances, Accounted, Step
    <2> QED
      BY <2>3, <2>4
  <1> QED
    BY <1>5, <1>6

\* A history grows by a log that fits.
LEMMA LinedMore ==
    ASSUME NEW ls, NEW x \in Nat, Lined(ls, x),
           NEW log \in LogRecord, LogOK(log), Sourced(log), log.index = Len(ls) + 1, x <= log.tx
    PROVE  /\ Lined(ls, log.tx) /\ Lined(Append(ls, log), log.tx)
           /\ Len(Append(ls, log)) = Len(ls) + 1
  <1>1. PICK a : a = Append(ls, log)
    OBVIOUS
  <1>2. /\ ls \in Seq(LogRecord) /\ Len(ls) \in Nat /\ log.tx \in Nat
        /\ a \in Seq(LogRecord) /\ Len(a) = Len(ls) + 1
        /\ \A i \in 1 .. Len(ls) : a[i] = ls[i]
        /\ a[Len(ls) + 1] = log
    BY <1>1 DEF Lined, LogOK
  <1>3. \A i \in 1 .. Len(ls) : ls[i].tx \in Nat /\ ls[i].tx <= log.tx
    <2>1. \A i \in 1 .. Len(ls) : ls[i].tx \in Nat /\ ls[i].tx <= x
      BY DEF Lined, LogOK
    <2> QED
      BY <1>2, <2>1
  <1>4. Lined(ls, log.tx)
    BY <1>3 DEF Lined
  <1>5. ASSUME NEW i \in 1 .. Len(a)
        PROVE  /\ LogOK(a[i]) /\ Sourced(a[i]) /\ a[i].index = i /\ a[i].tx <= log.tx
               /\ \A j \in 1 .. i : a[j].tx <= a[i].tx
    <2>1. CASE i \in 1 .. Len(ls)
      <3>1. \A j \in 1 .. i : j \in 1 .. Len(ls) /\ a[j] = ls[j]
        BY <1>2, <2>1
      <3> QED
        BY <1>2, <1>3, <2>1, <3>1 DEF Lined
    <2>2. CASE i = Len(ls) + 1
      <3>1. \A j \in 1 .. i : (j \in 1 .. Len(ls) /\ a[j] = ls[j]) \/ a[j] = log
        BY <1>2, <2>2
      <3> QED
        BY <1>2, <1>3, <2>2, <3>1
    <2> QED
      BY <1>2, <2>1, <2>2
  <1> QED
    BY <1>1, <1>2, <1>4, <1>5 DEF Lined

LEMMA ToldMore ==
    ASSUME NEW ls, NEW x \in Nat, NEW c, NEW b, NEW m, Told(ls, x, c, b, m),
           NEW log \in LogRecord, LogOK(log), Sourced(log), log.index = Len(ls) + 1, x <= log.tx,
           NEW c2, NEW after, NEW moves, Fits(log, c, b, m, c2, after, moves)
    PROVE  Told(Append(ls, log), log.tx, c2, after, moves)
  <1>1. PICK a : a = Append(ls, log)
    OBVIOUS
  <1>2. Lined(ls, x) /\ Lined(ls, log.tx) /\ Lined(a, log.tx) /\ Len(a) = Len(ls) + 1
    BY <1>1, LinedMore DEF Told
  <1>3. /\ ls \in Seq(LogRecord) /\ Len(ls) \in Nat
        /\ \A i \in 1 .. Len(ls) : a[i] = ls[i]
        /\ a[Len(ls) + 1] = log
    BY <1>1, <1>2 DEF Lined
  <1>4. OverlookedIn(ls) \subseteq OverlookedIn(a) /\ m \subseteq moves
    BY <1>1, <1>3, OverlookedMore DEF Fits
  <1>5. ASSUME NEW h, NEW n \in 0 .. Len(ls), Pass(h, a, n)
        PROVE  Pass(h, ls, n)
    <2>1. \A j \in 1 .. n : a[j] = ls[j]
      BY <1>3
    <2> QED
      BY <1>5, <2>1 DEF Pass
  <1>6. ASSUME NEW h, Pass(h, a, Len(ls))
        PROVE  Advances(h[Len(ls)], log, c2, after, moves, OverlookedIn(a))
    <2>1. Pass(h, ls, Len(ls))
      BY <1>3, <1>5, <1>6
    <2>2. Sound(h[Len(ls)], ls, Len(ls))
      BY <1>2, <1>3, <2>1, PassSound
    <2>3. Mirrors(h[Len(ls)], c, b, m, OverlookedIn(ls))
      BY <2>1 DEF Told
    <2> QED
      BY <1>1, <1>2, <2>2, <2>3 DEF Fits
  <1>7. ASSUME NEW h, NEW n \in 0 .. Len(a) - 1, Pass(h, a, n), Kept(a[n + 1])
        PROVE  Accounted(h[n], a[n + 1], OverlookedIn(a), moves)
    <2>1. n \in 0 .. Len(ls)
      BY <1>2, <1>3
    <2>2. CASE n = Len(ls)
      BY <1>3, <1>6, <1>7, <2>2 DEF Advances
    <2>3. CASE n # Len(ls)
      <3>1. n \in 0 .. Len(ls) - 1 /\ a[n + 1] = ls[n + 1]
        BY <1>3, <2>1, <2>3
      <3>2. Accounted(h[n], ls[n + 1], OverlookedIn(ls), m)
        BY <1>5, <1>7, <2>1, <3>1 DEF Told
      <3> QED
        BY <1>4, <3>1, <3>2, AccountedMore
    <2> QED
      BY <2>2, <2>3
  <1>8. ASSUME NEW h, Pass(h, a, Len(a))
        PROVE  Mirrors(h[Len(a)], c2, after, moves, OverlookedIn(a))
    <2>1. PICK k : k = Len(ls) + 1
      OBVIOUS
    <2>2. Len(a) = k /\ k \in 1 .. k /\ k - 1 = Len(ls) /\ a[k] = log
          /\ \A j \in 1 .. Len(ls) : j \in 1 .. k
      BY <1>2, <1>3, <2>1
    <2>3. Pass(h, a, Len(ls))
      BY <1>8, <2>2 DEF Pass
    <2>4. /\ h[k] = Step(h[Len(ls)], log)
          /\ Kept(log) => Outcome(h[Len(ls)], log) # "refused"
      BY <1>8, <2>2 DEF Pass
    <2> QED
      BY <1>6, <2>2, <2>3, <2>4 DEF Advances
  <1> QED
    BY <1>1, <1>2, <1>7, <1>8 DEF Told

\* Nothing is logged of what only moves unseen.
LEMMA ToldSilently ==
    ASSUME NEW ls, NEW x \in Nat, NEW c, NEW b, NEW m, Told(ls, x, c, b, m),
           NEW y \in Nat, x <= y, NEW c2, NEW after, NEW moves, m \subseteq moves,
           \A d, o : Mirrors(d, c, b, m, o) => Mirrors(d, c2, after, moves, o)
    PROVE  Told(ls, y, c2, after, moves)
  <1>1. Lined(ls, y)
    <2>1. \A i \in 1 .. Len(ls) : ls[i].tx \in Nat /\ ls[i].tx <= x
      BY DEF Told, Lined, LogOK
    <2>2. \A i \in 1 .. Len(ls) : ls[i].tx <= y
      BY <2>1
    <2> QED
      BY <2>2 DEF Told, Lined
  <1>2. ASSUME NEW h, NEW n \in 0 .. Len(ls) - 1, Pass(h, ls, n), Kept(ls[n + 1])
        PROVE  Accounted(h[n], ls[n + 1], OverlookedIn(ls), moves)
    BY <1>2, AccountedMore DEF Told
  <1>3. ASSUME NEW h, Pass(h, ls, Len(ls))
        PROVE  Mirrors(h[Len(ls)], c2, after, moves, OverlookedIn(ls))
    BY <1>3 DEF Told
  <1> QED
    BY <1>1, <1>2, <1>3 DEF Told

-----------------------------------------------------------------------------
\* The logs of one call, numbered from n + 1 on in the transaction x.

Entry(log, x, k) == [log EXCEPT !.tx = x, !.index = k]
Numbered(s, x, n) == [i \in DOMAIN s |-> Entry(s[i], x, n + i)]

Copies(e, a, x, k) ==
    /\ e \in LogRecord /\ e.tx = x /\ e.index = k
    /\ e.name = a.name /\ e.address = a.address /\ e.token = a.token
    /\ e.wallet = a.wallet /\ e.amount = a.amount /\ e.quote = a.quote
    /\ e.tokenReserve = a.tokenReserve /\ e.nativeReserve = a.nativeReserve

LEMMA EntryFields ==
    ASSUME NEW a \in LogRecord, NEW x \in Nat, NEW k \in Nat
    PROVE  Copies(Entry(a, x, k), a, x, k)
  BY DEF Entry, LogRecord, Copies

LEMMA NumberedSeq ==
    ASSUME NEW s \in Seq(LogRecord), NEW x \in Nat, NEW n \in Nat,
           NEW q, q = Numbered(s, x, n)
    PROVE  /\ q \in Seq(LogRecord) /\ Len(q) = Len(s)
           /\ \A i \in 1 .. Len(s) : q[i] = Entry(s[i], x, n + i)
  <1>1. DOMAIN s = 1 .. Len(s) /\ Len(s) \in Nat /\ \A i \in 1 .. Len(s) : s[i] \in LogRecord
    OBVIOUS
  <1>2. ASSUME NEW i \in 1 .. Len(s) PROVE Entry(s[i], x, n + i) \in LogRecord
    <2>1. n + i \in Nat
      BY <1>1
    <2> QED
      BY <1>1, <2>1, EntryFields DEF Copies
  <1>3. q = [i \in 1 .. Len(s) |-> Entry(s[i], x, n + i)]
    BY <1>1 DEF Numbered
  <1>4. q \in [1 .. Len(s) -> LogRecord]
    BY <1>2, <1>3
  <1> QED
    BY <1>1, <1>3, <1>4

LEMMA OneEntry ==
    ASSUME NEW ls \in Seq(LogRecord), NEW s \in Seq(LogRecord), NEW a \in LogRecord,
           NEW x \in Nat
    PROVE  /\ s \o <<a>> \in Seq(LogRecord) /\ Len(s \o <<a>>) = Len(s) + 1
           /\ ls \o Numbered(s, x, Len(ls)) \in Seq(LogRecord)
           /\ Len(ls \o Numbered(s, x, Len(ls))) = Len(ls) + Len(s)
           /\ ls \o Numbered(s \o <<a>>, x, Len(ls))
                = Append(ls \o Numbered(s, x, Len(ls)), Entry(a, x, Len(ls) + Len(s) + 1))
  <1> DEFINE n == Len(s)
             k == Len(ls)
             e == Entry(a, x, k + n + 1)
             r == s \o <<a>>
             p == Numbered(s, x, k)
             q == Numbered(r, x, k)
  <1>1. n \in Nat /\ k \in Nat /\ <<a>> \in Seq(LogRecord) /\ Len(<<a>>) = 1 /\ <<a>>[1] = a
    OBVIOUS
  <1>2. e \in LogRecord
    <2>1. k + n + 1 \in Nat
      BY <1>1
    <2> QED
      BY <2>1, EntryFields DEF Copies
  <1>3. <<e>> \in Seq(LogRecord) /\ Len(<<e>>) = 1 /\ <<e>>[1] = e
    BY <1>2
  <1>4. /\ r \in Seq(LogRecord) /\ Len(r) = n + 1
        /\ \A i \in 1 .. n + 1 : r[i] = IF i <= n THEN s[i] ELSE <<a>>[i - n]
    BY <1>1, ConcatProperties
  <1>5. /\ p \in Seq(LogRecord) /\ Len(p) = n
        /\ \A i \in 1 .. n : p[i] = Entry(s[i], x, k + i)
    BY <1>1, NumberedSeq
  <1>6. /\ q \in Seq(LogRecord) /\ Len(q) = n + 1
        /\ \A i \in 1 .. n + 1 : q[i] = Entry(r[i], x, k + i)
    <2>1. r \in Seq(LogRecord) /\ Len(r) = n + 1
      BY <1>4
    <2>2. PICK z : z = q
      OBVIOUS
    <2> HIDE DEF r
    <2>3. /\ z \in Seq(LogRecord) /\ Len(z) = Len(r)
          /\ \A i \in 1 .. Len(r) : z[i] = Entry(r[i], x, k + i)
      BY <1>1, <2>1, <2>2, NumberedSeq
    <2> HIDE DEF n, k, q
    <2> QED
      BY <2>1, <2>2, <2>3
  <1>7. /\ p \o <<e>> \in Seq(LogRecord) /\ Len(p \o <<e>>) = n + 1
        /\ \A i \in 1 .. n + 1 : (p \o <<e>>)[i] = IF i <= n THEN p[i] ELSE <<e>>[i - n]
    BY <1>3, <1>5, ConcatProperties
  <1>8. ASSUME NEW i \in 1 .. n + 1 PROVE q[i] = (p \o <<e>>)[i]
    <2>1. CASE i <= n
      <3>1. i \in 1 .. n
        BY <1>1, <2>1
      <3> QED
        BY <1>4, <1>5, <1>6, <1>7, <2>1, <3>1
    <2>2. CASE i = n + 1
      <3>1. ~(i <= n) /\ i - n = 1 /\ k + i = k + n + 1
        BY <1>1, <2>2
      <3>2. r[i] = a /\ (p \o <<e>>)[i] = e
        BY <1>1, <1>3, <1>4, <1>7, <3>1
      <3> QED
        BY <1>6, <2>2, <3>1, <3>2
    <2>3. i <= n \/ i = n + 1
      BY <1>1
    <2> QED
      BY <2>1, <2>2, <2>3
  <1> HIDE DEF n, k, e, r, p, q
  <1>9. q = p \o <<e>>
    BY <1>6, <1>7, <1>8, SeqEqual
  <1>10. ls \o p \in Seq(LogRecord) /\ Len(ls \o p) = k + n
    BY <1>5, ConcatProperties DEF k
  <1>11. Append(ls \o p, e) = (ls \o p) \o <<e>>
    BY <1>2, <1>10, AppendIsConcat
  <1>12. (ls \o p) \o <<e>> = ls \o (p \o <<e>>)
    BY <1>3, <1>5, ConcatAssociative
  <1>13. ls \o q = Append(ls \o p, e)
    BY <1>9, <1>11, <1>12
  <1> QED
    BY <1>4, <1>10, <1>13 DEF n, k, e, r, p, q

-----------------------------------------------------------------------------
\* The history grows: after every call it tells what the chain is.

History ==
    /\ curve \in Markets /\ balance \in Balances /\ txs \in Nat
    /\ Told(logs, txs, curve, balance, moved)

\* In the middle of a call that has emitted the logs `s` in the transaction x.
Emitted(s, x, c, b, m) ==
    /\ s \in Seq(LogRecord) /\ x \in Nat /\ txs <= x
    /\ Told(logs \o Numbered(s, x, Len(logs)), x, c, b, m)

LEMMA EmitIs ==
    ASSUME History, NEW emitted, Emit(emitted)
    PROVE  /\ txs' \in Nat /\ txs <= txs'
           /\ logs' = logs \o Numbered(emitted, txs', Len(logs))
  <1>1. txs' \in Nat /\ txs <= txs'
    <2>1. txs' = txs + 1 \/ txs' = txs
      BY Zenon DEF Emit
    <2>2. txs \in Nat
      BY DEF History
    <2> QED
      BY <2>1, <2>2
  <1>2. PICK x : x = txs'
    OBVIOUS
  <1>3. logs' = logs \o [i \in DOMAIN emitted |->
                            [emitted[i] EXCEPT !.tx = x, !.index = Len(logs) + i]]
    BY <1>2 DEF Emit
  <1> QED
    BY <1>1, <1>2, <1>3 DEF Numbered, Entry

LEMMA EmittedNone ==
    ASSUME History, NEW x \in Nat, txs <= x
    PROVE  Emitted(<<>>, x, curve, balance, moved)
  <1>1. logs \in Seq(LogRecord) /\ txs \in Nat
    BY DEF History, Told, Lined
  <1>2. /\ <<>> \in Seq(LogRecord) /\ Numbered(<<>>, x, Len(logs)) = <<>>
        /\ logs \o <<>> = logs
    BY <1>1, ConcatEmptySeq DEF Numbered
  <1>3. Told(logs, x, curve, balance, moved)
    <2>1. Told(logs, txs, curve, balance, moved)
      BY DEF History
    <2> QED
      BY <1>1, <2>1, ToldSilently
  <1> QED
    BY <1>2, <1>3 DEF Emitted

LEMMA EmittedOne ==
    ASSUME History, NEW s, NEW x, NEW c, NEW b, NEW m, Emitted(s, x, c, b, m),
           NEW a \in LogRecord, NEW e, e = Entry(a, x, Len(logs) + Len(s) + 1),
           LogOK(e), Sourced(e), NEW c2, NEW after, NEW moves,
           Fits(e, c, b, m, c2, after, moves)
    PROVE  /\ Emitted(s \o <<a>>, x, c2, after, moves)
           /\ Len(s \o <<a>>) = Len(s) + 1 /\ Len(s) \in Nat
  <1>1. /\ logs \in Seq(LogRecord) /\ s \in Seq(LogRecord) /\ x \in Nat /\ txs <= x
        /\ Told(logs \o Numbered(s, x, Len(logs)), x, c, b, m)
    BY DEF History, Emitted, Told, Lined
  <1>2. PICK ls : ls = logs \o Numbered(s, x, Len(logs))
    OBVIOUS
  <1>3. /\ s \o <<a>> \in Seq(LogRecord) /\ Len(s \o <<a>>) = Len(s) + 1
        /\ Len(ls) = Len(logs) + Len(s)
        /\ logs \o Numbered(s \o <<a>>, x, Len(logs)) = Append(ls, e)
    BY <1>1, <1>2, OneEntry
  <1>4. Len(s) \in Nat /\ Len(logs) \in Nat /\ Len(logs) + Len(s) + 1 \in Nat
    BY <1>1
  <1>5. e \in LogRecord /\ e.tx = x /\ e.index = Len(ls) + 1
    <2>1. Copies(e, a, x, Len(logs) + Len(s) + 1)
      BY <1>1, <1>4, EntryFields
    <2> QED
      BY <1>3, <2>1 DEF Copies
  <1>6. Told(Append(ls, e), x, c2, after, moves)
    <2>1. Told(ls, x, c, b, m) /\ x <= e.tx
      BY <1>1, <1>2, <1>5
    <2> QED
      BY <1>1, <1>5, <2>1, ToldMore
  <1> QED
    BY <1>1, <1>3, <1>4, <1>6 DEF Emitted

\* A call that has told what it leaves behind keeps the history.
LEMMA EmittedAll ==
    ASSUME History, NEW s, Emit(s), curve' \in Markets, balance' \in Balances,
           Emitted(s, txs', curve', balance', moved')
    PROVE  History'
  <1>1. txs' \in Nat /\ logs' = logs \o Numbered(s, txs', Len(logs))
    BY EmitIs
  <1>2. Told(logs', txs', curve', balance', moved')
    BY <1>1 DEF Emitted
  <1> QED
    BY <1>1, <1>2 DEF History

\* The log of the fee, when there is one, comes first.
LEMMA FeeFirst ==
    ASSUME History, NEW x \in Nat, txs <= x,
           NEW t \in Tokens, curve[t] # NoRow, NEW w \in Wallets, NEW fee \in Nat
    PROVE  /\ Emitted(FeeLogs(t, w, fee), x, curve, balance, moved)
           /\ Len(FeeLogs(t, w, fee)) \in Nat
  <1>1. CASE fee = 0
    <2>1. FeeLogs(t, w, fee) = <<>> /\ Len(<<>>) = 0
      BY <1>1 DEF FeeLogs
    <2> QED
      BY <2>1, EmittedNone
  <1>2. CASE fee # 0
    <2> DEFINE f == Log("FeeCollected", Treasury, t, w, 0, fee, 0, 0)
    <2>1. FeeLogs(t, w, fee) = <<f>>
      BY <1>2 DEF FeeLogs
    <2>2. /\ f \in LogRecord /\ f.name = "FeeCollected" /\ f.address = Treasury /\ f.token = t
      BY DEF Log, LogRecord, Names
    <2> HIDE DEF f
    <2>3. PICK k : k = Len(logs) + Len(<<>>) + 1
      OBVIOUS
    <2>4. k \in Nat
      <3>1. Len(logs) \in Nat /\ Len(<<>>) = 0
        BY DEF History, Told, Lined
      <3> QED
        BY <2>3, <3>1
    <2>5. PICK e : e = Entry(f, x, k)
      OBVIOUS
    <2>6. e \in LogRecord /\ e.name = "FeeCollected" /\ e.address = Treasury /\ e.token = t
      BY <2>2, <2>4, <2>5, EntryFields DEF Copies
    <2>7. LogOK(e) /\ Sourced(e)
      BY <2>6 DEF LogOK, IsTrade, IsSwap, LogRecord, Sourced
    <2>8. Fits(e, curve, balance, moved, curve, balance, moved)
      <3>1. curve \in Markets /\ balance \in Balances
        BY DEF History
      <3> QED
        BY <2>6, <2>7, <3>1, FeeFits
    <2>9. <<>> \o <<f>> = <<f>> /\ Len(<<f>>) = 1
      BY <2>2, ConcatEmptySeq
    <2>10. Emitted(<<>> \o <<f>>, x, curve, balance, moved)
      BY <2>2, <2>3, <2>5, <2>7, <2>8, EmittedNone, EmittedOne
    <2> QED
      BY <2>1, <2>9, <2>10
  <1> QED
    BY <1>1, <1>2

\* The balance of one wallet changes.
LEMMA BalanceChanges ==
    ASSUME balance \in Balances, NEW t \in Tokens, NEW w \in Wallets, NEW change \in Int,
           balance[t][w] + change >= 0, NEW after,
           after = [balance EXCEPT ![t][w] = @ + change]
    PROVE  /\ after \in Balances
           /\ Credited(balance, moved, t, w, change, after, moved)
  <1>1. balance[t][w] \in Nat /\ balance[t][w] + change \in Nat
    BY DEF Balances
  <1> QED
    BY <1>1 DEF Balances, Credited

\* A trade on the curve whose logs are the fee's and its own.
LEMMA CurveEmits ==
    ASSUME History, NEW x \in Nat, txs <= x,
           NEW t \in Tokens, NEW w \in Wallets, curve[t] # NoRow, curve[t].pool = NoRow,
           NEW n \in Nat \ {0}, NEW event \in {"Buy", "Sell"}, NEW fee \in Nat,
           NEW quote \in Nat, NEW native \in Nat, NEW a,
           a = Log(event, Pair(t), t, w, n, quote, 0, native),
           NEW change, change = IF event = "Buy" THEN n ELSE -n,
           NEW after \in Balances, Credited(balance, moved, t, w, change, after, moved),
           NEW mid \in Markets,
           Follows(curve, mid, t, Supply - (curve[t].sold + change), native),
           NEW fs, fs = FeeLogs(t, w, fee)
    PROVE  /\ Emitted(fs \o <<a>>, x, mid, after, moved)
           /\ Len(fs \o <<a>>) \in Nat
  <1>1. PICK k : k = Len(logs) + Len(fs) + 1
    OBVIOUS
  <1>2. Emitted(fs, x, curve, balance, moved) /\ Len(fs) \in Nat
    BY FeeFirst
  <1>3. k \in Nat
    <2>1. Len(logs) \in Nat
      BY DEF History, Told, Lined
    <2> QED
      BY <1>1, <1>2, <2>1
  <1>4. PICK e : e = Entry(a, x, k)
    OBVIOUS
  <1>5. event \in Names /\ Pair(t) \in {"pair", "pool"} \X Tokens
    BY Addresses DEF Names
  <1>6. /\ a \in LogRecord /\ a.name = event /\ a.address = Pair(t) /\ a.token = t
        /\ a.wallet = w /\ a.amount = n /\ a.quote = quote /\ a.nativeReserve = native
    BY <1>5 DEF LogRecord, Log
  <1>7. /\ e \in LogRecord /\ e.name = event /\ e.address = Pair(t) /\ e.token = t
        /\ e.wallet = w /\ e.amount = n /\ e.quote = quote /\ e.nativeReserve = native
    <2>1. Copies(e, a, x, k)
      BY <1>3, <1>4, <1>6, EntryFields
    <2> QED
      BY <1>6, <2>1 DEF Copies
  <1>8. LogOK(e) /\ Sourced(e)
    BY <1>7 DEF LogOK, IsTrade, IsSwap, LogRecord, Sourced
  <1>9. Signed(e) = change
    BY <1>7 DEF Signed, IsBuy
  <1>10. Fits(e, curve, balance, moved, mid, after, moved)
    <2>1. curve \in Markets /\ balance \in Balances
      BY DEF History
    <2> QED
      BY <1>7, <1>8, <1>9, <2>1, CurveFits
  <1>11. /\ Emitted(fs \o <<a>>, x, mid, after, moved)
         /\ Len(fs \o <<a>>) = Len(fs) + 1
    BY <1>1, <1>2, <1>4, <1>6, <1>8, <1>10, EmittedOne
  <1> QED
    BY <1>2, <1>11

LEMMA BuyHistory ==
    ASSUME History, NEW t \in Tokens, NEW w \in Wallets, NEW n \in Amounts, NEW cost \in Prices,
           Buy(t, w, n, cost)
    PROVE  History'
  <1>1. /\ n \in Nat \ {0} /\ cost \in Nat /\ FeeOf(cost) \in Nat
        /\ txs \in Nat /\ curve \in Markets /\ balance \in Balances
    BY EventAssumption, Quotient DEF FeeOf, History
  <1>2. /\ curve[t] \in Market /\ curve[t] # NoRow /\ curve[t].pool = NoRow
        /\ curve[t].sold \in Int /\ curve[t].native \in Nat /\ curve[t].gift \in Nat
    BY <1>1 DEF Buy, Bonding, Markets, Market
  <1> DEFINE sold == curve[t].sold + n
             pool == IF sold = Target THEN Supply - Target + curve[t].gift ELSE NoRow
             native == curve[t].native + cost
             bought == [curve[t] EXCEPT !.sold = sold, !.native = native]
             after == [bought EXCEPT !.pool = pool]
             mid == [curve EXCEPT ![t] = bought]
             fs == FeeLogs(t, w, FeeOf(cost))
             a == Log("Buy", Pair(t), t, w, n, cost, 0, native)
             g == Log("Graduated", Pair(t), t, w, 0, 0, after.pool, after.native)
  <1>3. sold \in Int /\ native \in Nat /\ (pool # NoRow => pool \in Nat)
    BY <1>1, <1>2, EventAssumption
  <1>4. /\ bought \in Market /\ bought.sold = sold /\ bought.native = native
        /\ bought.pool = NoRow
        /\ after \in Market /\ after.sold = sold /\ after.native = native /\ after.pool = pool
        /\ (pool = NoRow => after = bought)
    BY <1>2, <1>3 DEF Market
  <1>5. /\ curve' = [curve EXCEPT ![t] = after]
        /\ balance' = [balance EXCEPT ![t][w] = @ + n] /\ moved' = moved
        /\ Emit(BuyLogs(t, w, n, cost, after))
    BY <1>2 DEF Buy, Market
  <1>6. /\ BuyLogs(t, w, n, cost, after) = (fs \o <<a>>) \o GraduationLogs(t, w, after)
        /\ GraduationLogs(t, w, after) = IF pool = NoRow THEN <<>> ELSE <<g>>
    BY <1>4 DEF BuyLogs, GraduationLogs
  <1> HIDE DEF sold, pool, native, bought, after, fs, a
  <1>7. /\ mid \in Markets /\ mid[t] = bought /\ mid[t] # NoRow
        /\ \A s \in Tokens : s # t => mid[s] = curve[s]
    BY <1>1, <1>4, RowAssumption DEF Markets
  <1>8. /\ curve' \in Markets /\ curve'[t] = after /\ curve'[t] # NoRow
        /\ \A s \in Tokens : s # t => curve'[s] = curve[s]
    BY <1>1, <1>4, <1>5, RowAssumption DEF Markets
  <1>9. balance' \in Balances /\ Credited(balance, moved, t, w, n, balance', moved)
    <2>1. balance[t][w] + n >= 0 /\ n \in Int
      BY <1>1 DEF Balances
    <2> QED
      BY <1>1, <1>5, <2>1, BalanceChanges
  <1>10. Follows(curve, mid, t, Supply - (curve[t].sold + n), native)
    BY <1>2, <1>4, <1>7 DEF Follows, sold
  <1> HIDE DEF mid
  <1>20. PICK x : x = txs'
    OBVIOUS
  <1>21. x \in Nat /\ txs <= x
    BY <1>5, <1>20, EmitIs
  <1>11. /\ Emitted(fs \o <<a>>, x, mid, balance', moved)
         /\ Len(fs \o <<a>>) \in Nat
    <2>1. /\ fs = FeeLogs(t, w, FeeOf(cost)) /\ a = Log("Buy", Pair(t), t, w, n, cost, 0, native)
          /\ n = IF "Buy" = "Buy" THEN n ELSE -n
      BY DEF fs, a
    <2> QED
      BY <1>1, <1>2, <1>3, <1>7, <1>9, <1>10, <1>21, <2>1, CurveEmits, SMTT(30)
  <1>12. CASE pool = NoRow
    <2>1. curve' = mid
      BY <1>4, <1>5, <1>12 DEF mid
    <2>2. (fs \o <<a>>) \o <<>> = fs \o <<a>>
      BY <1>11, ConcatEmptySeq DEF Emitted
    <2>3. Emit(fs \o <<a>>)
      BY <1>5, <1>6, <1>12, <2>2
    <2>4. Emitted(fs \o <<a>>, txs', curve', balance', moved')
      BY <1>5, <1>11, <1>20, <2>1
    <2> QED
      BY <1>8, <1>9, <2>3, <2>4, EmittedAll
  <1>13. CASE pool # NoRow
    <2>1. PICK k : k = Len(logs) + Len(fs \o <<a>>) + 1
      OBVIOUS
    <2>2. PICK e : e = Entry(g, x, k)
      OBVIOUS
    <2>3. k \in Nat
      <3>1. Len(logs) \in Nat
        BY DEF History, Told, Lined
      <3> QED
        BY <1>11, <2>1, <3>1
    <2>4. /\ "Graduated" \in Names /\ 0 \in Nat /\ after.pool \in Nat /\ after.native \in Nat
          /\ Pair(t) \in {"pair", "pool"} \X Tokens
      BY <1>3, <1>4, <1>13, Addresses DEF Names
    <2>5. /\ g \in LogRecord /\ g.name = "Graduated" /\ g.address = Pair(t) /\ g.token = t
          /\ g.tokenReserve = after.pool /\ g.nativeReserve = after.native
      BY <2>4 DEF LogRecord, Log
    <2> HIDE DEF g
    <2>6. /\ e \in LogRecord /\ e.name = "Graduated" /\ e.address = Pair(t) /\ e.token = t
          /\ e.tokenReserve = after.pool /\ e.nativeReserve = after.native
      <3>1. Copies(e, g, x, k)
        BY <1>21, <2>2, <2>3, <2>5, EntryFields
      <3> QED
        BY <2>5, <3>1 DEF Copies
    <2>7. LogOK(e) /\ Sourced(e)
      BY <2>6 DEF LogOK, IsTrade, IsSwap, LogRecord, Sourced
    <2>8. \A s \in Tokens : s # t => curve'[s] = mid[s]
      BY <1>7, <1>8
    <2>9. Fits(e, mid, balance', moved, curve', balance', moved)
      <3>1. mid[t].pool = NoRow /\ curve'[t].pool = e.tokenReserve
            /\ curve'[t].native = e.nativeReserve
        BY <1>4, <1>7, <1>8, <2>6
      <3> QED
        BY <1>7, <1>8, <1>9, <2>6, <2>7, <2>8, <3>1, GraduatedFits
    <2>10. Emitted((fs \o <<a>>) \o <<g>>, x, curve', balance', moved)
      BY <1>11, <2>1, <2>2, <2>5, <2>7, <2>9, EmittedOne
    <2>11. Emit((fs \o <<a>>) \o <<g>>)
      BY <1>5, <1>6, <1>13 DEF g
    <2>12. Emitted((fs \o <<a>>) \o <<g>>, txs', curve', balance', moved')
      BY <1>5, <1>20, <2>10
    <2> QED
      BY <1>8, <1>9, <2>11, <2>12, EmittedAll
  <1> QED
    BY <1>12, <1>13

LEMMA SellHistory ==
    ASSUME History, NEW t \in Tokens, NEW w \in Wallets, NEW n \in Amounts, NEW gross \in Prices,
           Sell(t, w, n, gross)
    PROVE  History'
  <1> DEFINE fee == FeeOf(gross)
             native == curve[t].native - gross
             sold == curve[t].sold - n
             row == [curve[t] EXCEPT !.sold = sold, !.native = native]
             fs == FeeLogs(t, w, fee)
             a == Log("Sell", Pair(t), t, w, n, gross - fee, 0, native)
  <1>1. /\ n \in Nat \ {0} /\ gross \in Nat /\ fee \in Nat /\ gross - fee \in Nat
        /\ curve \in Markets /\ balance \in Balances
    BY EventAssumption DEF FeeOf, History
  <1>2. /\ curve[t] \in Market /\ curve[t] # NoRow /\ curve[t].pool = NoRow
        /\ curve[t].sold \in Int /\ sold \in Int /\ native \in Nat
    BY <1>1 DEF Sell, Bonding, Markets, Market
  <1>3. /\ row \in Market /\ row.sold = sold /\ row.native = native
        /\ row.pool = NoRow
    BY <1>1, <1>2 DEF Market
  <1>4. /\ curve' = [curve EXCEPT ![t] = row]
        /\ balance' = [balance EXCEPT ![t][w] = @ + (-n)] /\ moved' = moved
        /\ Emit(fs \o <<a>>)
    <2>1. balance[t][w] - n = balance[t][w] + (-n)
      BY <1>1 DEF Balances
    <2> QED
      BY <1>1, <1>2, <2>1 DEF Sell, Market, Markets, Balances
  <1> HIDE DEF fee, sold, native, row, fs, a
  <1>5. /\ curve' \in Markets /\ curve'[t] = row /\ curve'[t] # NoRow
        /\ \A s \in Tokens : s # t => curve'[s] = curve[s]
    BY <1>1, <1>3, <1>4, RowAssumption DEF Markets
  <1>6. balance' \in Balances /\ Credited(balance, moved, t, w, -n, balance', moved)
    <2>1. balance[t][w] + (-n) >= 0 /\ -n \in Int
      BY <1>1 DEF Balances, Sell
    <2> QED
      BY <1>1, <1>4, <2>1, BalanceChanges
  <1>7. Follows(curve, curve', t, Supply - (curve[t].sold + (-n)), native)
    <2>1. sold = curve[t].sold + (-n)
      BY <1>1, <1>2 DEF sold
    <2> QED
      BY <1>2, <1>3, <1>5, <2>1 DEF Follows
  <1>8. PICK x : x = txs'
    OBVIOUS
  <1>9. x \in Nat /\ txs <= x
    BY <1>4, <1>8, EmitIs
  <1>10. Emitted(fs \o <<a>>, x, curve', balance', moved)
    <2>1. /\ fs = FeeLogs(t, w, fee)
          /\ a = Log("Sell", Pair(t), t, w, n, gross - fee, 0, native)
          /\ -n = IF "Sell" = "Buy" THEN n ELSE -n
      BY DEF fs, a
    <2> QED
      BY <1>1, <1>2, <1>5, <1>6, <1>7, <1>9, <2>1, CurveEmits, SMTT(30)
  <1> QED
    BY <1>4, <1>5, <1>6, <1>8, <1>10, EmittedAll

\* A call that emits one log, which fits.
LEMMA OneLogHistory ==
    ASSUME History, NEW a \in LogRecord, Emit(<<a>>), curve' \in Markets, balance' \in Balances,
           \A e : Copies(e, a, txs', Len(logs) + 1) =>
                LogOK(e) /\ Sourced(e) /\ Fits(e, curve, balance, moved, curve', balance', moved')
    PROVE  History'
  <1>1. PICK x : x = txs'
    OBVIOUS
  <1>2. x \in Nat /\ txs <= x
    BY <1>1, EmitIs
  <1>3. Emitted(<<>>, x, curve, balance, moved)
    BY <1>2, EmittedNone
  <1>4. <<>> \o <<a>> = <<a>> /\ Len(<<>>) = 0 /\ Len(logs) + 1 \in Nat
        /\ Len(logs) + Len(<<>>) + 1 = Len(logs) + 1
    <2>1. Len(logs) \in Nat
      BY DEF History, Told, Lined
    <2> QED
      BY <2>1, ConcatEmptySeq
  <1>5. PICK e : e = Entry(a, x, Len(logs) + 1)
    OBVIOUS
  <1>6. LogOK(e) /\ Sourced(e) /\ Fits(e, curve, balance, moved, curve', balance', moved')
    <2>1. Copies(e, a, x, Len(logs) + 1)
      BY <1>2, <1>4, <1>5, EntryFields
    <2> QED
      BY <1>1, <2>1
  <1>7. Emitted(<<>> \o <<a>>, x, curve', balance', moved')
    <2>1. e = Entry(a, x, Len(logs) + Len(<<>>) + 1)
      BY <1>4, <1>5
    <2> QED
      BY <1>3, <1>6, <2>1, EmittedOne
  <1> QED
    BY <1>1, <1>4, <1>7, EmittedAll

\* A swap, by the log of the pool.
LEMMA SwapEmits ==
    ASSUME History, NEW t \in Tokens, NEW w \in Wallets, curve[t] # NoRow, curve[t].pool # NoRow,
           NEW n \in Nat \ {0}, NEW event \in {"SwapIn", "SwapOut"},
           NEW quote \in Nat, NEW tokens \in Nat, NEW native \in Nat, NEW a,
           a = Log(event, Pool(t), t, w, n, quote, tokens, native),
           NEW change, change = IF event = "SwapIn" THEN n ELSE -n,
           balance' \in Balances, Credited(balance, moved, t, w, change, balance', moved'),
           curve' \in Markets, Follows(curve, curve', t, tokens, native), Emit(<<a>>)
    PROVE  History'
  <1>1. /\ event \in Names /\ n \in Nat /\ Pool(t) \in {"pair", "pool"} \X Tokens
        /\ curve \in Markets /\ balance \in Balances
    BY Addresses DEF Names, History
  <1>2. /\ a \in LogRecord
        /\ a.name = event /\ a.address = Pool(t) /\ a.token = t /\ a.wallet = w
        /\ a.amount = n /\ a.tokenReserve = tokens /\ a.nativeReserve = native
    BY <1>1 DEF Log, LogRecord
  <1>3. ASSUME NEW e, Copies(e, a, txs', Len(logs) + 1)
        PROVE  LogOK(e) /\ Sourced(e) /\ Fits(e, curve, balance, moved, curve', balance', moved')
    <2>1. /\ e \in LogRecord /\ e.name = event /\ e.address = Pool(t) /\ e.token = t
          /\ e.wallet = w /\ e.amount = n /\ e.tokenReserve = tokens /\ e.nativeReserve = native
      BY <1>2, <1>3 DEF Copies
    <2>2. LogOK(e) /\ Sourced(e)
      BY <2>1 DEF LogOK, IsTrade, IsSwap, LogRecord, Sourced
    <2>3. Signed(e) = change
      BY <2>1 DEF Signed, IsBuy
    <2>4. Fits(e, curve, balance, moved, curve', balance', moved')
      BY <1>1, <2>1, <2>2, <2>3, DexFits
    <2> QED
      BY <2>2, <2>4
  <1> QED
    BY <1>2, <1>3, OneLogHistory

LEMMA SwapForTokenHistory ==
    ASSUME History, NEW t \in Tokens, NEW w \in Wallets, NEW to \in Wallets,
           NEW n \in Amounts, NEW paid \in Prices, SwapForToken(t, w, to, n, paid)
    PROVE  History'
  <1> DEFINE tokens == curve[t].pool - n
             native == curve[t].native + paid
             row == [curve[t] EXCEPT !.pool = tokens, !.native = native]
             a == Log("SwapIn", Pool(t), t, w, n, paid, tokens, native)
  <1>1. /\ n \in Nat \ {0} /\ paid \in Nat /\ curve \in Markets /\ balance \in Balances
    BY EventAssumption DEF History
  <1>2. /\ curve[t] \in Market /\ curve[t] # NoRow /\ curve[t].pool # NoRow
        /\ tokens \in Nat /\ native \in Nat
    BY <1>1 DEF SwapForToken, Graduated, Markets, Market
  <1>3. row \in Market /\ row.pool = tokens /\ row.native = native /\ tokens # NoRow
    BY <1>2, RowAssumption DEF Market
  <1>4. /\ curve' = [curve EXCEPT ![t] = row] /\ Emit(<<a>>)
        /\ balance' = [balance EXCEPT ![t][to] = @ + n]
    BY <1>2 DEF SwapForToken, Market
  <1> HIDE DEF tokens, native, row, a
  <1>5. /\ curve' \in Markets /\ curve'[t] = row /\ curve'[t] # NoRow
        /\ \A s \in Tokens : s # t => curve'[s] = curve[s]
    BY <1>1, <1>3, <1>4, RowAssumption DEF Markets
  <1>6. balance' \in Balances /\ Credited(balance, moved, t, to, n, balance', moved)
    <2>1. balance[t][to] + n >= 0 /\ n \in Int
      BY <1>1 DEF Balances
    <2> QED
      BY <1>1, <1>4, <2>1, BalanceChanges
  <1>7. Credited(balance, moved, t, w, n, balance', moved')
    <2>1. CASE to = w
      BY <1>6, <2>1 DEF SwapForToken
    <2>2. CASE to # w
      <3>1. moved' = moved \cup {<<t, w>>, <<t, to>>}
        BY <2>2 DEF SwapForToken
      <3> QED
        BY <1>6, <3>1 DEF Credited
    <2> QED
      BY <2>1, <2>2
  <1>8. Follows(curve, curve', t, tokens, native)
    BY <1>2, <1>3, <1>5 DEF Follows
  <1>9. n = IF "SwapIn" = "SwapIn" THEN n ELSE -n
    OBVIOUS
  <1> QED
    BY <1>1, <1>2, <1>4, <1>5, <1>6, <1>7, <1>8, <1>9, SwapEmits DEF a

LEMMA SwapForNativeHistory ==
    ASSUME History, NEW t \in Tokens, NEW w \in Wallets, NEW n \in Amounts,
           NEW received \in Prices, SwapForNative(t, w, n, received)
    PROVE  History'
  <1> DEFINE tokens == curve[t].pool + n
             native == curve[t].native - received
             row == [curve[t] EXCEPT !.pool = tokens, !.native = native]
             a == Log("SwapOut", Pool(t), t, w, n, received, tokens, native)
  <1>1. /\ n \in Nat \ {0} /\ received \in Nat /\ curve \in Markets /\ balance \in Balances
    BY EventAssumption DEF History
  <1>2. /\ curve[t] \in Market /\ curve[t] # NoRow /\ curve[t].pool # NoRow
        /\ tokens \in Nat /\ native \in Nat
    BY <1>1 DEF SwapForNative, Graduated, Markets, Market
  <1>3. row \in Market /\ row.pool = tokens /\ row.native = native /\ tokens # NoRow
    BY <1>2, RowAssumption DEF Market
  <1>4. /\ curve' = [curve EXCEPT ![t] = row] /\ Emit(<<a>>) /\ moved' = moved
        /\ balance' = [balance EXCEPT ![t][w] = @ + (-n)]
    <2>1. balance[t][w] - n = balance[t][w] + (-n)
      BY <1>1 DEF Balances
    <2> QED
      BY <1>1, <1>2, <2>1 DEF SwapForNative, Market, Balances
  <1> HIDE DEF tokens, native, row, a
  <1>5. /\ curve' \in Markets /\ curve'[t] = row /\ curve'[t] # NoRow
        /\ \A s \in Tokens : s # t => curve'[s] = curve[s]
    BY <1>1, <1>3, <1>4, RowAssumption DEF Markets
  <1>6. balance' \in Balances /\ Credited(balance, moved, t, w, -n, balance', moved')
    <2>1. balance[t][w] + (-n) >= 0 /\ -n \in Int
      BY <1>1 DEF Balances, SwapForNative
    <2> QED
      BY <1>1, <1>4, <2>1, BalanceChanges
  <1>7. Follows(curve, curve', t, tokens, native)
    BY <1>2, <1>3, <1>5 DEF Follows
  <1>8. -n = IF "SwapOut" = "SwapIn" THEN n ELSE -n
    OBVIOUS
  <1> QED
    BY <1>1, <1>2, <1>4, <1>5, <1>6, <1>7, <1>8, SwapEmits DEF a

\* A call that logs nothing, and moves tokens unseen.
LEMMA SilentHistory ==
    ASSUME History, Emit(<<>>), curve' \in Markets, balance' \in Balances, moved \subseteq moved',
           \A s \in Tokens : curve'[s] = NoRow <=> curve[s] = NoRow,
           \A s \in Tokens : curve[s] # NoRow =>
               /\ curve'[s].native = curve[s].native /\ curve'[s].pool = curve[s].pool
               /\ curve'[s].sold = curve[s].sold,
           \A s \in Tokens, v \in Wallets : <<s, v>> \in moved' \/ balance'[s][v] = balance[s][v]
    PROVE  History'
  <1>1. PICK x : x = txs'
    OBVIOUS
  <1>2. x \in Nat /\ txs <= x /\ txs \in Nat
    BY <1>1, EmitIs DEF History
  <1>3. ASSUME NEW d, NEW o, Mirrors(d, curve, balance, moved, o)
        PROVE  Mirrors(d, curve', balance', moved', o)
    <2> SUFFICES ASSUME NEW t \in Tokens \ o
                 PROVE  MirrorsOne(d, curve', balance', moved', t)
      BY DEF Mirrors
    <2>1. MirrorsOne(d, curve, balance, moved, t)
      BY <1>3 DEF Mirrors
    <2>2. \A w \in Wallets : <<t, w>> \in moved' \/ d.holder[t][w] = balance'[t][w]
      BY <2>1 DEF MirrorsOne
    <2> QED
      BY <2>1, <2>2 DEF MirrorsOne
  <1>4. Told(logs, txs, curve, balance, moved)
    BY DEF History
  <1>5. PICK c2 : c2 = curve'
    OBVIOUS
  <1>6. PICK after : after = balance'
    OBVIOUS
  <1>7. PICK moves : moves = moved'
    OBVIOUS
  <1>8. Told(logs, x, c2, after, moves)
    <2>1. \A d, o : Mirrors(d, curve, balance, moved, o) => Mirrors(d, c2, after, moves, o)
      BY <1>3, <1>5, <1>6, <1>7
    <2>2. moved \subseteq moves
      BY <1>7
    <2> QED
      BY <1>2, <1>4, <2>1, <2>2, ToldSilently
  <1>9. logs' = logs
    <2>1. logs' = logs \o Numbered(<<>>, x, Len(logs))
      BY <1>1, EmitIs
    <2>2. logs \in Seq(LogRecord) /\ Numbered(<<>>, x, Len(logs)) = <<>>
      BY DEF Numbered, History, Told, Lined
    <2> QED
      BY <2>1, <2>2, ConcatEmptySeq
  <1> QED
    BY <1>1, <1>2, <1>5, <1>6, <1>7, <1>8, <1>9 DEF History

LEMMA TransferHistory ==
    ASSUME History, NEW t \in Tokens, NEW w \in Wallets, NEW to \in Wallets, NEW n \in Amounts,
           Transfer(t, w, to, n)
    PROVE  History'
  <1>1. /\ n \in Nat /\ n <= balance[t][w] /\ w # to
        /\ curve' = curve /\ moved' = moved \cup {<<t, w>>, <<t, to>>} /\ Emit(<<>>)
        /\ balance' = [balance EXCEPT ![t][w] = @ - n, ![t][to] = @ + n]
        /\ curve \in Markets /\ balance \in Balances
    BY EventAssumption DEF Transfer, History
  <1>2. balance[t][w] - n \in Nat /\ balance[t][to] + n \in Nat
    BY <1>1 DEF Balances
  <1>3. balance' \in Balances
    BY <1>1, <1>2 DEF Balances
  <1>4. \A s \in Tokens, v \in Wallets : <<s, v>> \in moved' \/ balance'[s][v] = balance[s][v]
    BY <1>1 DEF Balances
  <1>5. /\ moved \subseteq moved' /\ curve' \in Markets
        /\ \A s \in Tokens : curve'[s] = NoRow <=> curve[s] = NoRow
        /\ \A s \in Tokens : curve[s] # NoRow =>
             /\ curve'[s].native = curve[s].native /\ curve'[s].pool = curve[s].pool
             /\ curve'[s].sold = curve[s].sold
    BY <1>1
  <1> QED
    BY <1>1, <1>3, <1>4, <1>5, SilentHistory

LEMMA TransferToPairHistory ==
    ASSUME History, NEW t \in Tokens, NEW w \in Wallets, NEW n \in Amounts,
           TransferToPair(t, w, n)
    PROVE  History'
  <1> DEFINE row == [curve[t] EXCEPT !.gift = @ + n]
  <1>1. /\ n \in Nat /\ n <= balance[t][w]
        /\ moved' = moved \cup {<<t, w>>} /\ Emit(<<>>)
        /\ balance' = [balance EXCEPT ![t][w] = @ - n]
        /\ curve \in Markets /\ balance \in Balances /\ curve[t] # NoRow
    BY EventAssumption DEF TransferToPair, Bonding, History
  <1>2. /\ curve[t] \in Market /\ curve[t].gift + n \in Nat
        /\ curve' = [curve EXCEPT ![t] = row]
    BY <1>1 DEF TransferToPair, Markets, Market
  <1>3. /\ row \in Market /\ row.native = curve[t].native /\ row.pool = curve[t].pool
        /\ row.sold = curve[t].sold
    BY <1>2 DEF Market
  <1> HIDE DEF row
  <1>4. /\ curve' \in Markets /\ curve'[t] = row /\ curve'[t] # NoRow
        /\ \A s \in Tokens : s # t => curve'[s] = curve[s]
    BY <1>1, <1>2, <1>3, RowAssumption DEF Markets
  <1>5. balance[t][w] - n \in Nat
    BY <1>1 DEF Balances
  <1>6. balance' \in Balances
    BY <1>1, <1>5 DEF Balances
  <1>7. \A s \in Tokens, v \in Wallets : <<s, v>> \in moved' \/ balance'[s][v] = balance[s][v]
    BY <1>1 DEF Balances
  <1>8. \A s \in Tokens : curve'[s] = NoRow <=> curve[s] = NoRow
    BY <1>1, <1>4
  <1>9. \A s \in Tokens : curve[s] # NoRow =>
            /\ curve'[s].native = curve[s].native /\ curve'[s].pool = curve[s].pool
            /\ curve'[s].sold = curve[s].sold
    BY <1>3, <1>4
  <1>10. moved \subseteq moved'
    BY <1>1
  <1> QED
    BY <1>1, <1>4, <1>6, <1>7, <1>8, <1>9, <1>10, SilentHistory

LEMMA SomebodyIs == Somebody \in Wallets
  BY EventAssumption DEF Somebody

LEMMA ForeignHistory ==
    ASSUME History, NEW event, NEW t, <<event, t>> \in StrangeEvents,
           ForeignLog(event, t, Somebody)
    PROVE  History'
  <1> DEFINE a == Log(event, Elsewhere, t, Somebody, 1, 1, 1, 1)
  <1>1. /\ Emit(<<a>>) /\ curve' = curve /\ balance' = balance /\ moved' = moved
        /\ curve \in Markets /\ balance \in Balances
    BY DEF ForeignLog, History
  <1>2. event \in Names /\ t \in Tokens \cup {Stranger} /\ Somebody \in Wallets
    BY EventAssumption, SomebodyIs DEF Names
  <1>3. /\ a \in LogRecord
        /\ a.name = event /\ a.address = Elsewhere /\ a.token = t /\ a.amount = 1
    BY <1>2 DEF Log, LogRecord
  <1> HIDE DEF a
  <1>4. ASSUME NEW e, Copies(e, a, txs', Len(logs) + 1)
        PROVE  LogOK(e) /\ Sourced(e) /\ Fits(e, curve, balance, moved, curve', balance', moved')
    <2>1. e \in LogRecord /\ e.address = Elsewhere /\ e.amount = 1
      BY <1>3, <1>4 DEF Copies
    <2>2. LogOK(e) /\ Sourced(e)
      BY <2>1, Addresses DEF LogOK, LogRecord, Kept, Sourced, Genuine
    <2>3. Fits(e, curve, balance, moved, curve, balance, moved)
      BY <2>1, <2>2, StrangerFits
    <2> QED
      BY <1>1, <2>2, <2>3
  <1>5. curve' \in Markets /\ balance' \in Balances
    BY <1>1
  <1> QED
    BY <1>1, <1>3, <1>4, <1>5, OneLogHistory

LEMMA CreateHistory ==
    ASSUME History, NEW t \in Tokens, CreateToken(t, Somebody)
    PROVE  History'
  <1> DEFINE row == [sold |-> 0, native |-> 0, gift |-> 0, pool |-> NoRow]
             a == Log("TokenCreated", Factory, t, Somebody, 0, 0, Supply, 0)
  <1>1. /\ curve[t] = NoRow /\ balance' = balance /\ moved' = moved
        /\ curve' = [curve EXCEPT ![t] = row] /\ Emit(<<a>>)
        /\ curve \in Markets /\ balance \in Balances
    BY DEF CreateToken, History
  <1>2. "TokenCreated" \in Names /\ Supply \in Nat /\ Somebody \in Wallets
    BY EventAssumption, SomebodyIs DEF Names
  <1>3. /\ a \in LogRecord /\ a.name = "TokenCreated" /\ a.address = Factory /\ a.token = t
        /\ a.tokenReserve = Supply
    BY <1>2 DEF Log, LogRecord
  <1> HIDE DEF a
  <1>4. row \in Market /\ row.sold = 0 /\ row.native = 0 /\ row.pool = NoRow
    BY DEF Market
  <1> HIDE DEF row
  <1>5. /\ curve' \in Markets /\ curve'[t] = row /\ curve'[t] # NoRow
        /\ \A s \in Tokens : s # t => curve'[s] = curve[s]
    BY <1>1, <1>4, RowAssumption DEF Markets
  <1>6. ASSUME NEW e, Copies(e, a, txs', Len(logs) + 1)
        PROVE  LogOK(e) /\ Sourced(e) /\ Fits(e, curve, balance, moved, curve', balance', moved')
    <2>1. /\ e \in LogRecord /\ e.name = "TokenCreated" /\ e.address = Factory /\ e.token = t
          /\ e.tokenReserve = Supply
      BY <1>3, <1>6 DEF Copies
    <2>2. LogOK(e) /\ Sourced(e)
      BY <2>1 DEF LogOK, LogRecord, Kept, IsTrade, IsSwap, Sourced
    <2>3. Fits(e, curve, balance, moved, curve', balance, moved)
      <3>1. PICK c2 : c2 = curve'
        OBVIOUS
      <3>2. /\ c2 \in Markets /\ c2[t] # NoRow /\ c2[t].sold = 0 /\ c2[t].native = 0
            /\ c2[t].pool = NoRow /\ \A s \in Tokens : s # t => c2[s] = curve[s]
        BY <1>4, <1>5, <3>1
      <3>3. Fits(e, curve, balance, moved, c2, balance, moved)
        BY <1>1, <2>1, <2>2, <3>2, CreatedFits
      <3> QED
        BY <3>1, <3>3
    <2> QED
      BY <1>1, <2>2, <2>3
  <1>7. balance' \in Balances
    BY <1>1
  <1> QED
    BY <1>1, <1>3, <1>5, <1>6, <1>7, OneLogHistory

LEMMA InitHistory == Init => History
  <1> SUFFICES ASSUME Init PROVE History
    OBVIOUS
  <1>1. /\ curve \in Markets /\ balance \in Balances /\ txs = 0 /\ logs = <<>>
        /\ logs \in Seq(LogRecord) /\ Len(logs) = 0
    BY DEF Init, Markets, Balances
  <1>2. /\ EmptyDb.token = [t \in Tokens |-> NoRow]
        /\ EmptyDb.holder = [t \in Tokens |-> [w \in Wallets |-> 0]]
    BY DEF EmptyDb
  <1>3. ASSUME NEW h, Pass(h, logs, Len(logs))
        PROVE  Mirrors(h[Len(logs)], curve, balance, moved, OverlookedIn(logs))
    <2>1. h[Len(logs)] = EmptyDb
      BY <1>1, <1>3 DEF Pass
    <2>2. Mirrors(EmptyDb, curve, balance, moved, OverlookedIn(logs))
      BY <1>2 DEF Init, Mirrors, MirrorsOne
    <2> QED
      BY <2>1, <2>2
  <1>4. Lined(logs, txs)
    BY <1>1 DEF Lined
  <1>5. 0 .. Len(logs) - 1 = {}
    BY <1>1
  <1> QED
    BY <1>1, <1>3, <1>4, <1>5 DEF History, Told

LEMMA NextHistory ==
    ASSUME History, [Next]_vars
    PROVE  History'
  <1>1. ASSUME NEW t \in Tokens, CreateToken(t, Somebody) PROVE History'
    BY <1>1, CreateHistory
  <1>2. ASSUME NEW w \in Wallets, NEW t \in Tokens, NEW n \in Amounts, NEW q \in Prices,
               Buy(t, w, n, q) \/ Sell(t, w, n, q)
        PROVE  History'
    BY <1>2, BuyHistory, SellHistory
  <1>3. ASSUME NEW w \in Wallets, NEW t \in Tokens, NEW n \in Amounts, NEW q \in Prices,
               (\E to \in Wallets : SwapForToken(t, w, to, n, q)) \/ SwapForNative(t, w, n, q)
        PROVE  History'
    BY <1>3, SwapForTokenHistory, SwapForNativeHistory
  <1>4. ASSUME NEW w \in Wallets, NEW t \in Tokens, NEW n \in Amounts,
               (\E to \in Wallets : Transfer(t, w, to, n)) \/ TransferToPair(t, w, n)
        PROVE  History'
    BY <1>4, TransferHistory, TransferToPairHistory
  <1>5. ASSUME NEW e \in StrangeEvents, ForeignLog(e[1], e[2], Somebody) PROVE History'
    <2>1. PICK event, t : event = e[1] /\ t = e[2]
      OBVIOUS
    <2>2. e = <<event, t>>
      BY <2>1, EventAssumption
    <2> QED
      BY <1>5, <2>1, <2>2, ForeignHistory
  <1>6. CASE Process \/ Restart \/ UNCHANGED vars
    <2>1. curve' = curve /\ balance' = balance /\ moved' = moved /\ logs' = logs /\ txs' = txs
      BY <1>6 DEF Process, Restart, vars, chain
    <2> QED
      BY <2>1 DEF History, Told, Lined, Pass
  <1> QED
    BY <1>1, <1>2, <1>3, <1>4, <1>5, <1>6 DEF Next

-----------------------------------------------------------------------------
\* The books: what the counters and the sums are of.  They are kept log by
\* log, whatever else the log does.

Created(d) == {t \in Tokens : d.token[t] # NoRow}
Left(d) == {t \in Created(d) : d.token[t].status = "GRADUATED"}
Holding(b) == {w \in Wallets : b[w] > 0}

TradeRows(d) ==
    /\ IsFiniteSet(d.trades)
    /\ \A x \in d.trades : x.token \in Tokens /\ d.token[x.token] # NoRow /\ x.quote \in Nat
    /\ \A x, y \in d.trades : x.key = y.key => x = y
FeeRows(d) == IsFiniteSet(d.fees) /\ \A x \in d.fees : x.amount \in Nat

\* The rows of one token.
Stage(d, t) ==
    /\ d.token[t].status = "GRADUATED" => d.pool[t].address = Pool(t)
    /\ d.token[t].status # "GRADUATED" => d.pool[t].address = Pair(t)
    /\ d.token[t].threshold = Target
Circulation(d, t) == d.token[t].circulating = Total(d.holder[t])
Counts(d, t) ==
    /\ d.token[t].trades = Cardinality(RowsOf(t, d))
    /\ d.token[t].volume = SumOver(RowsOf(t, d), QuoteOf)
    /\ d.token[t].holders = Cardinality(Holding(d.holder[t]))
Advance(d, t) ==
    d.token[t].progress = IF d.token[t].status = "GRADUATED" THEN 100 * WAD
                          ELSE Progress(d.token[t].circulating, Target)
TokenBook(d, t) == Stage(d, t) /\ Circulation(d, t) /\ Counts(d, t) /\ Advance(d, t)

\* The statistics of the platform.
MarketCounts(d) ==
    /\ d.stats.tokens = Cardinality(Created(d))
    /\ d.stats.graduated = Cardinality(Left(d))
    /\ d.stats.bonding = Cardinality(Created(d) \ Left(d))
PlatformSums(d) ==
    /\ d.stats.trades = Cardinality(d.trades)
    /\ d.stats.volume = SumOver(d.trades, QuoteOf)
    /\ d.stats.fees = SumOver(d.fees, AmountOf)

Books(d) ==
    /\ TradeRows(d) /\ FeeRows(d)
    /\ \A t \in Tokens : IF d.token[t] = NoRow THEN \A w \in Wallets : d.holder[t][w] = 0
                         ELSE TokenBook(d, t)
    /\ MarketCounts(d) /\ PlatformSums(d)

\* A row more.
LEMMA QuotesMore ==
    ASSUME NEW rows, IsFiniteSet(rows), NEW x, x \notin rows, NEW all, all = rows \cup {x},
           \A y \in all : y.quote \in Nat
    PROVE  /\ IsFiniteSet(all) /\ Cardinality(all) = Cardinality(rows) + 1
           /\ SumOver(all, QuoteOf) = SumOver(rows, QuoteOf) + x.quote
  <1>1. PICK f : f = [y \in all |-> QuoteOf(y)]
    OBVIOUS
  <1>2. PICK e : e = [y \in rows |-> QuoteOf(y)]
    OBVIOUS
  <1>3. f \in [rows \cup {x} -> Nat] /\ f[x] = x.quote /\ e = [y \in rows |-> f[y]]
    BY <1>1, <1>2 DEF QuoteOf
  <1>4. Total(f) = Total(e) + f[x]
    BY <1>3, TotalMore
  <1>5. SumOver(all, QuoteOf) = Total(f) /\ SumOver(rows, QuoteOf) = Total(e)
    BY <1>1, <1>2 DEF SumOver
  <1>6. IsFiniteSet(all) /\ Cardinality(all) = Cardinality(rows) + 1
    BY FS_AddElement
  <1> QED
    BY <1>3, <1>4, <1>5, <1>6

LEMMA AmountsMore ==
    ASSUME NEW rows, IsFiniteSet(rows), NEW x, x \notin rows, NEW all, all = rows \cup {x},
           \A y \in all : y.amount \in Nat
    PROVE  IsFiniteSet(all) /\ SumOver(all, AmountOf) = SumOver(rows, AmountOf) + x.amount
  <1>1. PICK f : f = [y \in all |-> AmountOf(y)]
    OBVIOUS
  <1>2. PICK e : e = [y \in rows |-> AmountOf(y)]
    OBVIOUS
  <1>3. f \in [rows \cup {x} -> Nat] /\ f[x] = x.amount /\ e = [y \in rows |-> f[y]]
    BY <1>1, <1>2 DEF AmountOf
  <1>4. Total(f) = Total(e) + f[x]
    BY <1>3, TotalMore
  <1>5. SumOver(all, AmountOf) = Total(f) /\ SumOver(rows, AmountOf) = Total(e)
    BY <1>1, <1>2 DEF SumOver
  <1>6. IsFiniteSet(all) /\ Cardinality(all) = Cardinality(rows) + 1
    BY FS_AddElement
  <1> QED
    BY <1>3, <1>4, <1>5, <1>6

\* A balance that changes moves its wallet in or out of the holders.
LEMMA HoldersChange ==
    ASSUME NEW b \in [Wallets -> Nat], NEW w \in Wallets, NEW next \in Nat,
           NEW after, after = [b EXCEPT ![w] = next]
    PROVE  /\ Cardinality(Holding(after)) = Cardinality(Holding(b)) + HolderDelta(b[w], next)
           /\ Total(after) = Total(b) - b[w] + next /\ Total(b) \in Nat
  <1> DEFINE H == Holding(b)
             K == Holding(after)
  <1>1. IsFiniteSet(Wallets) /\ b[w] \in Nat
    BY EventAssumption
  <1>2. IsFiniteSet(H) /\ Cardinality(H) \in Nat
    <2>1. H \in SUBSET Wallets
      BY DEF Holding
    <2> QED
      BY <1>1, <2>1, FS_Subset, FS_CardinalityType
  <1>3. w \in H <=> b[w] > 0
    BY DEF Holding
  <1>4. K = IF next > 0 THEN H \cup {w} ELSE H \ {w}
    BY <1>1 DEF Holding
  <1> HIDE DEF H, K
  <1>5. Cardinality(K) = Cardinality(H) + HolderDelta(b[w], next)
    <2>1. CASE next > 0 /\ b[w] > 0
      <3>1. K = H
        BY <1>1, <1>3, <1>4, <2>1
      <3> QED
        BY <1>1, <1>2, <2>1, <3>1 DEF HolderDelta
    <2>2. CASE next > 0 /\ b[w] = 0
      <3>1. K = H \cup {w} /\ w \notin H
        BY <1>1, <1>3, <1>4, <2>2
      <3>2. Cardinality(K) = Cardinality(H) + 1
        BY <1>2, <3>1, FS_AddElement
      <3> QED
        BY <2>2, <3>2 DEF HolderDelta
    <2>3. CASE next = 0 /\ b[w] > 0
      <3>1. K = H \ {w} /\ w \in H
        BY <1>1, <1>3, <1>4, <2>3
      <3>2. Cardinality(K) = Cardinality(H) - 1
        BY <1>2, <3>1, FS_RemoveElement
      <3> QED
        BY <1>2, <2>3, <3>2 DEF HolderDelta
    <2>4. CASE next = 0 /\ b[w] = 0
      <3>1. K = H
        BY <1>1, <1>3, <1>4, <2>4
      <3> QED
        BY <1>2, <2>4, <3>1 DEF HolderDelta
    <2> QED
      BY <1>1, <2>1, <2>2, <2>3, <2>4
  <1>6. Total([b EXCEPT ![w] = next]) = Total(b) - b[w] + next /\ Total(b) \in Nat
    BY <1>1, TotalChanged
  <1> QED
    BY <1>5, <1>6 DEF H, K

\* A token whose rows are not touched.
LEMMA BookStays ==
    ASSUME NEW d, NEW r, NEW t, r.token[t] = d.token[t], r.pool[t] = d.pool[t],
           r.holder[t] = d.holder[t], RowsOf(t, r) = RowsOf(t, d), TokenBook(d, t)
    PROVE  TokenBook(r, t)
  BY DEF TokenBook, Stage, Circulation, Counts, Advance, Holding

\* The row of a trade.
LEMMA TradeMore ==
    ASSUME NEW d, DbOK(d), TradeRows(d), NEW log, LogOK(log), Known(d, log),
           Key(log) \notin d.events, NEW r, RecordLeaves(d, log, r),
           r.token[log.token] # NoRow
    PROVE  /\ TradeRows(r)
           /\ Cardinality(r.trades) = Cardinality(d.trades) + 1
           /\ SumOver(r.trades, QuoteOf) = SumOver(d.trades, QuoteOf) + log.quote
           /\ Cardinality(RowsOf(log.token, r)) = Cardinality(RowsOf(log.token, d)) + 1
           /\ SumOver(RowsOf(log.token, r), QuoteOf)
                = SumOver(RowsOf(log.token, d), QuoteOf) + log.quote
           /\ \A s \in Tokens : s # log.token => RowsOf(s, r) = RowsOf(s, d)
  <1> DEFINE t == log.token
             x == TradeRow(log)
  <1>1. x.key = Key(log) /\ x.token = t /\ x.quote = log.quote /\ log.quote \in Nat
    BY DEF TradeRow, LogOK
  <1>2. /\ r.trades = d.trades \cup {x} /\ t \in Tokens
        /\ \A s \in Tokens : s # t => r.token[s] = d.token[s]
    BY DEF RecordLeaves, Known, DbOK, Typed
  <1> HIDE DEF x
  <1>3. x \notin d.trades /\ \A y \in d.trades : y.key # x.key
    BY <1>1 DEF DbOK, Linked
  <1>4. \A y \in r.trades : y.quote \in Nat
    BY <1>1, <1>2 DEF TradeRows
  <1>5. /\ IsFiniteSet(r.trades) /\ Cardinality(r.trades) = Cardinality(d.trades) + 1
        /\ SumOver(r.trades, QuoteOf) = SumOver(d.trades, QuoteOf) + x.quote
    BY <1>2, <1>3, <1>4, QuotesMore DEF TradeRows
  <1>6. TradeRows(r)
    <2>1. \A y \in r.trades : y.token \in Tokens /\ r.token[y.token] # NoRow
      BY <1>1, <1>2 DEF TradeRows
    <2>2. \A y, z \in r.trades : y.key = z.key => y = z
      BY <1>2, <1>3 DEF TradeRows
    <2> QED
      BY <1>4, <1>5, <2>1, <2>2 DEF TradeRows
  <1>7. RowsOf(t, r) = RowsOf(t, d) \cup {x} /\ x \notin RowsOf(t, d)
    BY <1>1, <1>2, <1>3 DEF RowsOf
  <1>8. IsFiniteSet(RowsOf(t, d)) /\ \A y \in RowsOf(t, r) : y.quote \in Nat
    <2>1. RowsOf(t, d) \in SUBSET d.trades /\ RowsOf(t, r) \in SUBSET r.trades
      BY DEF RowsOf
    <2> QED
      BY <1>4, <2>1, FS_Subset DEF TradeRows
  <1>9. /\ Cardinality(RowsOf(t, r)) = Cardinality(RowsOf(t, d)) + 1
        /\ SumOver(RowsOf(t, r), QuoteOf) = SumOver(RowsOf(t, d), QuoteOf) + x.quote
    BY <1>7, <1>8, QuotesMore
  <1>10. \A s \in Tokens : s # t => RowsOf(s, r) = RowsOf(s, d)
    BY <1>1, <1>2 DEF RowsOf
  <1> QED
    BY <1>1, <1>5, <1>6, <1>9, <1>10

\* What a trade adds to the row of its token.
LEMMA RecordBook ==
    ASSUME NEW d, DbOK(d), TradeRows(d), NEW log, LogOK(log), IsTrade(log), Known(d, log),
           NextBalance(d, log) >= 0, Key(log) \notin d.events, NEW r, RecordLeaves(d, log, r),
           TokenBook(d, log.token)
    PROVE  /\ r.token[log.token] \in TokenRow
           /\ r.token[log.token].status = d.token[log.token].status
           /\ r.token[log.token].threshold = Target
           /\ r.token[log.token].progress = d.token[log.token].progress
           /\ Circulation(r, log.token) /\ Counts(r, log.token)
  <1> DEFINE t == log.token
             w == log.wallet
             next == NextBalance(d, log)
  <1>0. Typed(d)
    BY DEF DbOK
  <1>1. t \in Tokens /\ d.token[t] \in TokenRow
    BY <1>0, RowsAreRows DEF Known
  <1>2. /\ w \in Wallets /\ next \in Nat /\ d.holder[t][w] \in Nat
        /\ next = d.holder[t][w] + Signed(log) /\ Signed(log) \in Int /\ log.quote \in Nat
    BY <1>0, <1>1, BalanceType, SignedType DEF NextBalance, LogOK
  <1>3. /\ r.token[t] = Traded(d, log)
        /\ r.holder = [d.holder EXCEPT ![t][w] = next]
    BY <1>0, <1>1 DEF RecordLeaves, Typed
  <1>4. /\ Traded(d, log) \in TokenRow
        /\ Traded(d, log).status = d.token[t].status
        /\ Traded(d, log).threshold = d.token[t].threshold
        /\ Traded(d, log).circulating = Circulating(d, log)
        /\ Traded(d, log).progress = d.token[t].progress
    BY <1>0, <1>1, <1>2, TradedType
  <1>5. /\ Traded(d, log).trades = d.token[t].trades + 1
        /\ Traded(d, log).volume = d.token[t].volume + log.quote
        /\ Traded(d, log).holders = d.token[t].holders + HolderDelta(d.holder[t][w], next)
    BY <1>1 DEF Traded, TokenRow
  <1> HIDE DEF next
  <1>6. /\ Cardinality(Holding(r.holder[t]))
             = Cardinality(Holding(d.holder[t])) + HolderDelta(d.holder[t][w], next)
        /\ Total(r.holder[t]) = Total(d.holder[t]) - d.holder[t][w] + next
        /\ Total(d.holder[t]) \in Nat
    <2>1. /\ d.holder[t] \in [Wallets -> Nat]
          /\ r.holder[t] = [d.holder[t] EXCEPT ![w] = next]
      BY <1>0, <1>1, <1>3 DEF Typed
    <2> QED
      BY <1>2, <2>1, HoldersChange
  <1>7. /\ Cardinality(RowsOf(t, r)) = Cardinality(RowsOf(t, d)) + 1
        /\ SumOver(RowsOf(t, r), QuoteOf) = SumOver(RowsOf(t, d), QuoteOf) + log.quote
    <2>1. r.token[t] # NoRow
      BY <1>3, <1>4, RowAssumption
    <2> QED
      BY <2>1, TradeMore
  <1>8. Circulation(r, t)
    <2>1. d.token[t].circulating = Total(d.holder[t])
      BY DEF TokenBook, Circulation
    <2>2. r.token[t].circulating = Total(d.holder[t]) + Signed(log)
      BY <1>3, <1>4, <2>1 DEF Circulating
    <2> QED
      BY <1>2, <1>6, <2>2 DEF Circulation
  <1>9. Counts(r, t)
    BY <1>3, <1>5, <1>6, <1>7 DEF Counts, TokenBook
  <1> QED
    BY <1>3, <1>4, <1>8, <1>9 DEF TokenBook, Stage

LEMMA FiniteMarkets ==
    ASSUME NEW d
    PROVE  /\ IsFiniteSet(Created(d)) /\ IsFiniteSet(Left(d)) /\ IsFiniteSet(Created(d) \ Left(d))
           /\ Cardinality(Created(d)) \in Nat /\ Cardinality(Left(d)) \in Nat
           /\ Cardinality(Created(d) \ Left(d)) \in Nat
  <1>1. IsFiniteSet(Created(d)) /\ IsFiniteSet(Left(d))
    BY FS_Subset, EventAssumption DEF Created, Left
  <1>2. IsFiniteSet(Created(d) \ Left(d))
    BY <1>1, FS_Subset
  <1> QED
    BY <1>1, <1>2, FS_CardinalityType

LEMMA SameMarkets ==
    ASSUME NEW d, NEW r,
           \A t \in Tokens : /\ r.token[t] = NoRow <=> d.token[t] = NoRow
                             /\ d.token[t] # NoRow => r.token[t].status = d.token[t].status
    PROVE  Created(r) = Created(d) /\ Left(r) = Left(d)
  BY DEF Created, Left

LEMMA CreatedBook ==
    ASSUME NEW d, DbOK(d), Books(d), NEW log, LogOK(log), log.token \in Tokens,
           d.token[log.token] = NoRow, NEW r, TokenCreatedLeaves(d, log, r)
    PROVE  Books(r)
  <1> DEFINE t == log.token
  <1>1. /\ d.token \in [Tokens -> TokenRow \cup {NoRow}] /\ d.stats \in Stats
        /\ d.pool \in [Tokens -> PoolRow \cup {NoRow}]
        /\ d.holder \in [Tokens -> [Wallets -> Nat]]
    BY DEF DbOK, Typed
  <1>2. PICK row : row = NewToken(log)
    OBVIOUS
  <1>3. /\ row.status = "BONDING" /\ row.threshold = Target /\ row.circulating = 0
        /\ row.progress = 0 /\ row.volume = 0 /\ row.trades = 0 /\ row.holders = 0
        /\ row \in TokenRow /\ row # NoRow
    <2>1. row = [status |-> "BONDING", tx |-> log.tx, supply |-> log.tokenReserve,
                 threshold |-> Target, circulating |-> 0, progress |-> 0, price |-> 0,
                 volume |-> 0, trades |-> 0, holders |-> 0]
      BY <1>2 DEF NewToken
    <2>2. row \in TokenRow
      BY <2>1, EventAssumption DEF LogOK, TokenRow
    <2> QED
      BY <2>1, <2>2, RowAssumption
  <1>4. /\ r.token[t] = row /\ r.pool[t].address = Pair(t)
        /\ \A s \in Tokens : s # t => r.token[s] = d.token[s] /\ r.pool[s] = d.pool[s]
        /\ r.trades = d.trades /\ r.fees = d.fees /\ r.holder = d.holder
        /\ \A s \in Tokens : RowsOf(s, r) = RowsOf(s, d)
    BY <1>1, <1>2 DEF TokenCreatedLeaves, NewPool, RowsOf
  <1>5. TradeRows(r) /\ FeeRows(r)
    BY <1>3, <1>4 DEF Books, TradeRows, FeeRows
  <1>6. TokenBook(r, t)
    <2>1. d.holder[t] = [w \in Wallets |-> 0]
      BY <1>1 DEF Books
    <2>2. Total(r.holder[t]) = 0
      BY <1>4, <2>1, TotalZero, EventAssumption
    <2>3. Holding(r.holder[t]) = {}
      BY <1>4, <2>1 DEF Holding
    <2>4. RowsOf(t, r) = {}
      BY <1>4 DEF Books, TradeRows, RowsOf
    <2>5. SumOver({}, QuoteOf) = 0
      <3>1. [x \in {} |-> QuoteOf(x)] = <<>>
        OBVIOUS
      <3> QED
        BY <3>1, TotalNothing DEF SumOver
    <2>6. Circulation(r, t)
      BY <1>3, <1>4, <2>2 DEF Circulation
    <2>7. Counts(r, t)
      BY <1>3, <1>4, <2>3, <2>4, <2>5, FS_EmptySet DEF Counts
    <2>8. Stage(r, t)
      BY <1>3, <1>4 DEF Stage
    <2>9. Progress(0, Target) = 0
      BY ProgressZero
    <2>10. Advance(r, t)
      BY <1>3, <1>4, <2>9 DEF Advance
    <2> QED
      BY <2>6, <2>7, <2>8, <2>10 DEF TokenBook
  <1>7. ASSUME NEW s \in Tokens, s # t
        PROVE  IF r.token[s] = NoRow THEN \A w \in Wallets : r.holder[s][w] = 0
               ELSE TokenBook(r, s)
    BY <1>4, <1>7, BookStays DEF Books
  <1>8. Created(r) = Created(d) \cup {t} /\ Left(r) = Left(d) /\ t \notin Created(d)
        /\ Created(r) \ Left(r) = (Created(d) \ Left(d)) \cup {t} /\ t \notin Created(d) \ Left(d)
    BY <1>3, <1>4 DEF Created, Left
  <1>9. /\ r.stats.tokens = d.stats.tokens + 1 /\ r.stats.bonding = d.stats.bonding + 1
        /\ r.stats.graduated = d.stats.graduated /\ r.stats.trades = d.stats.trades
        /\ r.stats.volume = d.stats.volume /\ r.stats.fees = d.stats.fees
    BY <1>1 DEF TokenCreatedLeaves, Stats
  <1>10. MarketCounts(r)
    <2>1. /\ Cardinality(Created(r)) = Cardinality(Created(d)) + 1
          /\ Cardinality(Created(r) \ Left(r)) = Cardinality(Created(d) \ Left(d)) + 1
      BY <1>8, FiniteMarkets, FS_AddElement
    <2> QED
      BY <1>8, <1>9, <2>1 DEF MarketCounts, Books
  <1>11. PlatformSums(r)
    BY <1>4, <1>9 DEF PlatformSums, Books
  <1>12. r.token[t] # NoRow
    BY <1>3, <1>4
  <1> QED
    BY <1>5, <1>6, <1>7, <1>10, <1>11, <1>12 DEF Books

LEMMA FeeBook ==
    ASSUME NEW d, DbOK(d), Books(d), NEW log, LogOK(log), Key(log) \notin d.events,
           NEW r, FeeCollectedLeaves(d, log, r)
    PROVE  Books(r)
  <1>1. /\ d.stats \in Stats /\ FeeRow(log).key = Key(log) /\ FeeRow(log).amount = log.quote
        /\ log.quote \in Nat
    BY DEF DbOK, Typed, FeeRow, LogOK
  <1>2. /\ r.token = d.token /\ r.pool = d.pool /\ r.holder = d.holder
        /\ r.trades = d.trades /\ r.fees = d.fees \cup {FeeRow(log)}
        /\ \A s \in Tokens : RowsOf(s, r) = RowsOf(s, d)
    BY DEF FeeCollectedLeaves, RowsOf
  <1>3. FeeRow(log) \notin d.fees
    BY <1>1 DEF DbOK, Linked
  <1>4. \A x \in r.fees : x.amount \in Nat
    BY <1>1, <1>2 DEF Books, FeeRows
  <1>5. /\ IsFiniteSet(r.fees)
        /\ SumOver(r.fees, AmountOf) = SumOver(d.fees, AmountOf) + log.quote
    <2>1. IsFiniteSet(d.fees)
      BY DEF Books, FeeRows
    <2> QED
      BY <1>1, <1>2, <1>3, <1>4, <2>1, AmountsMore
  <1>6. ASSUME NEW s \in Tokens
        PROVE  IF r.token[s] = NoRow THEN \A w \in Wallets : r.holder[s][w] = 0
               ELSE TokenBook(r, s)
    BY <1>2, BookStays DEF Books
  <1>7. Created(r) = Created(d) /\ Left(r) = Left(d)
    BY <1>2 DEF Created, Left
  <1>8. /\ r.stats.tokens = d.stats.tokens /\ r.stats.bonding = d.stats.bonding
        /\ r.stats.graduated = d.stats.graduated /\ r.stats.trades = d.stats.trades
        /\ r.stats.volume = d.stats.volume /\ r.stats.fees = d.stats.fees + log.quote
    BY <1>1 DEF FeeCollectedLeaves, Stats
  <1>9. MarketCounts(r) /\ PlatformSums(r)
    BY <1>2, <1>5, <1>7, <1>8 DEF MarketCounts, PlatformSums, Books
  <1>10. TradeRows(r) /\ FeeRows(r)
    BY <1>2, <1>4, <1>5 DEF Books, TradeRows, FeeRows
  <1> QED
    BY <1>6, <1>9, <1>10 DEF Books

\* What either kind of trade may still change: the row of its token, its
\* pool, and the number of traders.
Completes(r, q, t) ==
    /\ q.trades = r.trades /\ q.fees = r.fees /\ q.holder = r.holder
    /\ \A s \in Tokens : s # t => q.token[s] = r.token[s] /\ q.pool[s] = r.pool[s]
    /\ q.token[t] # NoRow /\ q.token[t].status = r.token[t].status
    /\ TokenBook(q, t)
    /\ q.stats.tokens = r.stats.tokens /\ q.stats.bonding = r.stats.bonding
    /\ q.stats.graduated = r.stats.graduated /\ q.stats.trades = r.stats.trades
    /\ q.stats.volume = r.stats.volume /\ q.stats.fees = r.stats.fees

LEMMA TradeBook ==
    ASSUME NEW d, DbOK(d), Books(d), NEW log, LogOK(log), IsTrade(log), Known(d, log),
           NextBalance(d, log) >= 0, Key(log) \notin d.events,
           NEW r, RecordLeaves(d, log, r),
           NEW q, Completes(r, q, log.token)
    PROVE  Books(q)
  <1> DEFINE t == log.token
             w == log.wallet
  <1>1. /\ Typed(d) /\ t \in Tokens /\ d.token[t] # NoRow /\ TradeRows(d) /\ FeeRows(d)
        /\ TokenBook(d, t) /\ d.stats \in Stats
    BY RowsAreRows DEF Books, Known, DbOK, Typed
  <1>2. r.token[t] \in TokenRow /\ r.token[t].status = d.token[t].status
    BY <1>1, RecordBook
  <1> USE DEF Completes
  <1>3. r.token[t] # NoRow
    BY <1>2, RowAssumption
  <1>4. /\ TradeRows(r)
        /\ Cardinality(r.trades) = Cardinality(d.trades) + 1
        /\ SumOver(r.trades, QuoteOf) = SumOver(d.trades, QuoteOf) + log.quote
        /\ \A s \in Tokens : s # t => RowsOf(s, r) = RowsOf(s, d)
    BY <1>1, <1>3, TradeMore
  <1>5. /\ \A s \in Tokens : s # t => /\ q.token[s] = d.token[s] /\ q.pool[s] = d.pool[s]
                                      /\ q.holder[s] = d.holder[s]
                                      /\ RowsOf(s, q) = RowsOf(s, d)
        /\ q.fees = d.fees
    BY <1>1, <1>4 DEF RecordLeaves, Typed, RowsOf
  <1>6. TradeRows(q) /\ FeeRows(q)
    BY <1>1, <1>3, <1>4, <1>5 DEF TradeRows, FeeRows
  <1>7. ASSUME NEW s \in Tokens, s # t
        PROVE  IF q.token[s] = NoRow THEN \A v \in Wallets : q.holder[s][v] = 0
               ELSE TokenBook(q, s)
    BY <1>5, <1>7, BookStays DEF Books
  <1>8. \A s \in Tokens : /\ q.token[s] = NoRow <=> d.token[s] = NoRow
                          /\ d.token[s] # NoRow => q.token[s].status = d.token[s].status
    BY <1>1, <1>2, <1>5
  <1>9. Created(q) = Created(d) /\ Left(q) = Left(d)
    BY <1>8, SameMarkets
  <1>10. /\ r.stats.tokens = d.stats.tokens /\ r.stats.bonding = d.stats.bonding
         /\ r.stats.graduated = d.stats.graduated /\ r.stats.trades = d.stats.trades + 1
         /\ r.stats.volume = d.stats.volume + log.quote /\ r.stats.fees = d.stats.fees
    BY <1>1 DEF RecordLeaves, Stats
  <1>11. MarketCounts(q)
    BY <1>9, <1>10 DEF MarketCounts, Books
  <1>12. PlatformSums(q)
    BY <1>4, <1>5, <1>10 DEF PlatformSums, Books
  <1> QED
    BY <1>6, <1>7, <1>11, <1>12 DEF Books

LEMMA CurveBook ==
    ASSUME NEW d, DbOK(d), Books(d), NEW log, LogOK(log), IsTrade(log), Known(d, log),
           NextBalance(d, log) >= 0, Key(log) \notin d.events, log.address = Pair(log.token),
           ~WrongSource(d, log), log.name \in {"Buy", "Sell"}
    PROVE  Books(CurveTrade(d, log))
  <1> DEFINE t == log.token
  <1>0. PICK r : r = Record(d, log)
    OBVIOUS
  <1>1. Typed(d) /\ TradeRows(d) /\ t \in Tokens /\ d.token[t] # NoRow /\ TokenBook(d, t)
    BY RowsAreRows DEF Books, Known, DbOK
  <1>2. RecordLeaves(d, log, r)
    <2>1. RecordLeaves(d, log, Record(d, log))
      BY <1>1, RecordEffect DEF Typed
    <2> QED
      BY <1>0, <2>1
  <1>3. Typed(r)
    BY <1>0, <1>1, RecordTyped
  <1>4. PICK q : q = CurveTrade(d, log)
    OBVIOUS
  <1>5. CurveTradeAdds(r, log, q)
    BY <1>0, <1>3, <1>4, CurveTradeEffect DEF Typed
  <1>6. /\ r.token[t] \in TokenRow /\ r.token[t].status = d.token[t].status
        /\ r.token[t].threshold = Target /\ Circulation(r, t) /\ Counts(r, t)
    BY <1>1, <1>2, RecordBook
  <1>7. d.pool[t].address = Pair(t)
    BY DEF WrongSource
  <1>8. d.token[t].status # "GRADUATED"
    BY <1>1, <1>7 DEF TokenBook, Stage, Pair, Pool
  <1>9. PICK p : p = Progress(r.token[t].circulating, Target)
    OBVIOUS
  <1>10. PICK row : row = [r.token[t] EXCEPT !.progress = p]
    OBVIOUS
  <1>11. /\ q.trades = r.trades /\ q.fees = r.fees /\ q.holder = r.holder
         /\ q.token = [r.token EXCEPT ![t].progress = p]
         /\ \A s \in Tokens : s # t => q.pool[s] = r.pool[s]
    BY <1>1, <1>3, <1>5, <1>6, <1>9 DEF CurveTradeAdds, Typed
  <1>12. /\ q.token[t] = row
         /\ \A s \in Tokens : s # t => q.token[s] = r.token[s]
    BY <1>1, <1>3, <1>10, <1>11 DEF Typed
  <1>13. /\ row \in TokenRow /\ row.status = r.token[t].status /\ row.threshold = Target
         /\ row.progress = p
         /\ row.circulating = r.token[t].circulating /\ row.trades = r.token[t].trades
         /\ row.volume = r.token[t].volume /\ row.holders = r.token[t].holders
    <2>1. p \in Int
      BY <1>6, <1>9, ProgressType, EventAssumption DEF TokenRow
    <2> QED
      BY <1>6, <1>10, <2>1 DEF TokenRow
  <1>14. q.pool[t].address = Pair(t)
    <2>1. r.pool[t] = d.pool[t] /\ r.pool[t] \in PoolRow
      BY <1>1, <1>2, RowsAreRows DEF RecordLeaves, Known
    <2>2. q.pool[t] = WithReserves(r.pool[t], r.pool[t].tokens - Signed(log), log.nativeReserve)
      BY <1>1, <1>3, <1>5 DEF CurveTradeAdds, Typed
    <2>3. r.pool[t].tokens - Signed(log) \in Int /\ log.nativeReserve \in Nat
      BY <2>1, SignedType DEF PoolRow, LogOK
    <2> QED
      BY <1>7, <2>1, <2>2, <2>3, ReservesType
  <1>15. Stage(q, t) /\ Advance(q, t)
    BY <1>6, <1>8, <1>9, <1>12, <1>13, <1>14 DEF Stage, Advance
  <1>16. Circulation(q, t)
    BY <1>6, <1>11, <1>12, <1>13 DEF Circulation
  <1>17. Counts(q, t)
    BY <1>6, <1>11, <1>12, <1>13 DEF Counts, RowsOf
  <1>18. TokenBook(q, t)
    BY <1>15, <1>16, <1>17 DEF TokenBook
  <1>19. q.token[t] # NoRow
    BY <1>12, <1>13, RowAssumption
  <1>20. /\ q.stats.tokens = r.stats.tokens /\ q.stats.bonding = r.stats.bonding
         /\ q.stats.graduated = r.stats.graduated /\ q.stats.trades = r.stats.trades
         /\ q.stats.volume = r.stats.volume /\ q.stats.fees = r.stats.fees
    BY <1>3, <1>5 DEF CurveTradeAdds, Typed, Stats
  <1>21. Books(q)
    <2>1. Completes(r, q, t)
      BY <1>11, <1>12, <1>13, <1>18, <1>19, <1>20 DEF Completes
    <2> QED
      BY <1>2, <2>1, TradeBook
  <1> QED
    BY <1>4, <1>21

LEMMA DexBook ==
    ASSUME NEW d, DbOK(d), Books(d), NEW log, LogOK(log), IsTrade(log), Known(d, log),
           NextBalance(d, log) >= 0, Key(log) \notin d.events, log.address = Pool(log.token),
           ~WrongSource(d, log), log.name \in {"SwapIn", "SwapOut"}
    PROVE  Books(DexTrade(d, log))
  <1> DEFINE t == log.token
  <1>0. PICK r : r = Record(d, log)
    OBVIOUS
  <1>1. Typed(d) /\ TradeRows(d) /\ t \in Tokens /\ d.token[t] # NoRow /\ TokenBook(d, t)
    BY RowsAreRows DEF Books, Known, DbOK
  <1>2. RecordLeaves(d, log, r)
    <2>1. RecordLeaves(d, log, Record(d, log))
      BY <1>1, RecordEffect DEF Typed
    <2> QED
      BY <1>0, <2>1
  <1>3. Typed(r)
    BY <1>0, <1>1, RecordTyped
  <1>4. PICK q : q = DexTrade(d, log)
    OBVIOUS
  <1>5. DexTradeAdds(r, log, q)
    BY <1>0, <1>3, <1>4, DexTradeEffect DEF Typed
  <1>6. /\ r.token[t] \in TokenRow /\ r.token[t].status = d.token[t].status
        /\ r.token[t].threshold = Target /\ Circulation(r, t) /\ Counts(r, t)
        /\ r.token[t].progress = d.token[t].progress
    BY <1>1, <1>2, RecordBook
  <1>7. d.pool[t].address = Pool(t)
    BY DEF WrongSource
  <1>8. d.token[t].status = "GRADUATED"
    BY <1>1, <1>7 DEF TokenBook, Stage, Pair, Pool
  <1>9. /\ q.trades = r.trades /\ q.fees = r.fees /\ q.holder = r.holder
        /\ q.token = r.token /\ q.stats = r.stats
        /\ \A s \in Tokens : s # t => q.pool[s] = r.pool[s]
    BY <1>1, <1>3, <1>5 DEF DexTradeAdds, Typed
  <1>10. q.pool[t].address = Pool(t)
    <2>1. r.pool[t] = d.pool[t] /\ r.pool[t] \in PoolRow
      BY <1>1, <1>2, RowsAreRows DEF RecordLeaves, Known
    <2>2. q.pool[t] = WithReserves(r.pool[t], log.tokenReserve, log.nativeReserve)
      BY <1>1, <1>3, <1>5 DEF DexTradeAdds, Typed
    <2>3. log.tokenReserve \in Int /\ log.nativeReserve \in Nat
      BY DEF LogOK
    <2> QED
      BY <1>7, <2>1, <2>2, <2>3, ReservesType
  <1>11. Stage(q, t) /\ Advance(q, t)
    <2>1. d.token[t].progress = 100 * WAD
      BY <1>1, <1>8 DEF TokenBook, Advance
    <2> QED
      BY <1>6, <1>8, <1>9, <1>10, <2>1 DEF Stage, Advance
  <1>12. Circulation(q, t)
    BY <1>6, <1>9 DEF Circulation
  <1>13. Counts(q, t)
    BY <1>6, <1>9 DEF Counts, RowsOf
  <1>14. TokenBook(q, t)
    BY <1>11, <1>12, <1>13 DEF TokenBook
  <1>15. q.token[t] # NoRow
    BY <1>6, <1>9, RowAssumption
  <1>16. Books(q)
    <2>1. Completes(r, q, t)
      BY <1>9, <1>14, <1>15 DEF Completes
    <2> QED
      BY <1>2, <2>1, TradeBook
  <1> QED
    BY <1>4, <1>16

LEMMA GraduationBook ==
    ASSUME NEW d, DbOK(d), Books(d), NEW log, LogOK(log), Known(d, log),
           log.name = "Graduated", log.address = Pair(log.token), ~WrongSource(d, log),
           NEW r, GraduationLeaves(d, log, r)
    PROVE  Books(r)
  <1> DEFINE t == log.token
  <1>1. /\ Typed(d) /\ t \in Tokens /\ d.token[t] \in TokenRow /\ d.token[t] # NoRow
        /\ TokenBook(d, t) /\ d.stats \in Stats
    BY RowsAreRows DEF Books, Known, DbOK, Typed
  <1>2. d.pool[t].address = Pair(t)
    BY DEF WrongSource
  <1>3. d.token[t].status # "GRADUATED"
    BY <1>1, <1>2 DEF TokenBook, Stage, Pair, Pool
  <1>4. PICK row : row = GraduatedToken(d.token[t])
    OBVIOUS
  <1>5. /\ row \in TokenRow /\ row.status = "GRADUATED" /\ row.progress = 100 * WAD
        /\ row.circulating = d.token[t].circulating
    BY <1>1, <1>4, GraduatedTokenType
  <1>6. /\ row.threshold = d.token[t].threshold /\ row.trades = d.token[t].trades
        /\ row.volume = d.token[t].volume /\ row.holders = d.token[t].holders
    BY <1>1, <1>4 DEF GraduatedToken, TokenRow
  <1>7. /\ r.token[t] = row /\ r.pool[t].address = Pool(t)
        /\ \A s \in Tokens : s # t => r.token[s] = d.token[s] /\ r.pool[s] = d.pool[s]
        /\ r.trades = d.trades /\ r.fees = d.fees /\ r.holder = d.holder
        /\ \A s \in Tokens : RowsOf(s, r) = RowsOf(s, d)
    BY <1>1, <1>4 DEF GraduationLeaves, ActivePool, RowsOf, Typed
  <1>8. row # NoRow
    BY <1>5, RowAssumption
  <1>9. TradeRows(r) /\ FeeRows(r)
    BY <1>7, <1>8 DEF Books, TradeRows, FeeRows
  <1>10. Stage(r, t) /\ Advance(r, t)
    BY <1>1, <1>5, <1>6, <1>7 DEF Stage, Advance, TokenBook
  <1>11. Circulation(r, t) /\ Counts(r, t)
    BY <1>1, <1>5, <1>6, <1>7 DEF Circulation, Counts, TokenBook
  <1>12. ASSUME NEW s \in Tokens, s # t
         PROVE  IF r.token[s] = NoRow THEN \A w \in Wallets : r.holder[s][w] = 0
                ELSE TokenBook(r, s)
    BY <1>7, <1>12, BookStays DEF Books
  <1>13. /\ Created(r) = Created(d) /\ Left(r) = Left(d) \cup {t} /\ t \notin Left(d)
         /\ Created(r) \ Left(r) = (Created(d) \ Left(d)) \ {t} /\ t \in Created(d) \ Left(d)
    BY <1>1, <1>3, <1>5, <1>7, <1>8 DEF Created, Left
  <1>14. /\ r.stats.tokens = d.stats.tokens /\ r.stats.bonding = d.stats.bonding - 1
         /\ r.stats.graduated = d.stats.graduated + 1 /\ r.stats.trades = d.stats.trades
         /\ r.stats.volume = d.stats.volume /\ r.stats.fees = d.stats.fees
    BY <1>1 DEF GraduationLeaves, Stats
  <1>15. MarketCounts(r)
    <2>1. /\ Cardinality(Left(r)) = Cardinality(Left(d)) + 1
          /\ Cardinality(Created(r) \ Left(r)) = Cardinality(Created(d) \ Left(d)) - 1
      <3>1. Cardinality(Left(r)) = Cardinality(Left(d)) + 1
        BY <1>13, FiniteMarkets, FS_AddElement
      <3>2. Cardinality((Created(d) \ Left(d)) \ {t}) = Cardinality(Created(d) \ Left(d)) - 1
        BY <1>13, FiniteMarkets, FS_RemoveElement
      <3> QED
        BY <1>13, <3>1, <3>2
    <2> QED
      BY <1>13, <1>14, <2>1 DEF MarketCounts, Books
  <1>16. PlatformSums(r)
    BY <1>7, <1>14 DEF PlatformSums, Books
  <1>17. r.token[t] # NoRow /\ TokenBook(r, t)
    BY <1>7, <1>8, <1>10, <1>11 DEF TokenBook
  <1> QED
    BY <1>9, <1>12, <1>15, <1>16, <1>17 DEF Books

LEMMA BooksOfRows ==
    ASSUME NEW d, NEW r, SameRows(d, r), Books(d)
    PROVE  Books(r)
  <1>1. /\ r.trades = d.trades /\ r.fees = d.fees /\ r.token = d.token /\ r.pool = d.pool
        /\ r.holder = d.holder /\ r.stats = d.stats
        /\ \A s \in Tokens : RowsOf(s, r) = RowsOf(s, d)
    BY DEF SameRows, RowsOf
  <1>2. ASSUME NEW s \in Tokens
        PROVE  IF r.token[s] = NoRow THEN \A w \in Wallets : r.holder[s][w] = 0
               ELSE TokenBook(r, s)
    BY <1>1, BookStays DEF Books
  <1>3. TradeRows(r) /\ FeeRows(r)
    BY <1>1 DEF Books, TradeRows, FeeRows
  <1>4. MarketCounts(r) /\ PlatformSums(r)
    BY <1>1 DEF Books, MarketCounts, PlatformSums, Created, Left
  <1> QED
    BY <1>2, <1>3, <1>4 DEF Books

\* One log keeps the books.
LEMMA ApplyBooks ==
    ASSUME NEW d, DbOK(d), Books(d), NEW log, LogOK(log), Sourced(log), Kept(log)
    PROVE  Books(Apply(d, log))
  <1> SUFFICES ASSUME Outcome(d, log) = "processed"
               PROVE  Books(Apply(d, log))
    BY OutcomeIs
  <1>1. /\ Key(log) \notin d.events /\ ~Refused(d, log) /\ ~Conflict(d, log)
        /\ ~WrongSource(d, log) /\ Typed(d)
    BY OutcomeIs DEF Refused, DbOK
  <1>2. SameRows(Handle(d, log), Apply(d, log))
    BY Processed
  <1> SUFFICES Books(Handle(d, log))
    BY <1>2, BooksOfRows
  <1>3. CASE log.name = "TokenCreated"
    <2>1. Handle(d, log) = TokenCreated(d, log) /\ log.token \in Tokens
      BY <1>3, HandleIs DEF LogOK
    <2>2. TokenCreatedLeaves(d, log, TokenCreated(d, log))
      BY <1>1, TokenCreatedEffect DEF Typed
    <2>3. d.token[log.token] = NoRow
      BY <1>1, <1>3, <2>1 DEF Conflict
    <2> QED
      BY <2>1, <2>2, <2>3, CreatedBook
  <1>4. CASE log.name = "FeeCollected"
    <2>1. Handle(d, log) = FeeCollected(d, log)
      BY <1>4, HandleIs
    <2>2. FeeCollectedLeaves(d, log, FeeCollected(d, log))
      BY <1>1, FeeCollectedEffect DEF Typed
    <2> QED
      BY <1>1, <2>1, <2>2, FeeBook
  <1>5. CASE log.name \notin {"TokenCreated", "FeeCollected", "Garbled"} /\ ~Known(d, log)
    BY <1>5, HandleIs
  <1>6. CASE log.name \in {"Buy", "Sell"} /\ Known(d, log)
    <2>1. Handle(d, log) = CurveTrade(d, log) /\ IsTrade(log) /\ log.address = Pair(log.token)
      <3>1. Genuine(log) /\ log.token \in Tokens
        BY <1>1, <1>6, KnownSource
      <3> QED
        BY <1>6, <3>1, HandleIs DEF IsTrade, Sourced
    <2>2. NextBalance(d, log) >= 0
      BY <1>1, <1>6, <2>1, BalanceType DEF Refused, Known
    <2>3. Books(CurveTrade(d, log))
      BY <1>1, <1>6, <2>1, <2>2, CurveBook
    <2> QED
      BY <2>1, <2>3
  <1>7. CASE log.name \in {"SwapIn", "SwapOut"} /\ Known(d, log)
    <2>1. Handle(d, log) = DexTrade(d, log) /\ IsTrade(log) /\ log.address = Pool(log.token)
      <3>1. Genuine(log) /\ log.token \in Tokens
        BY <1>1, <1>7, KnownSource
      <3> QED
        BY <1>7, <3>1, HandleIs DEF IsTrade, IsSwap, Sourced
    <2>2. NextBalance(d, log) >= 0
      BY <1>1, <1>7, <2>1, BalanceType DEF Refused, Known
    <2>3. Books(DexTrade(d, log))
      BY <1>1, <1>7, <2>1, <2>2, DexBook
    <2> QED
      BY <2>1, <2>3
  <1>8. CASE log.name = "Graduated" /\ Known(d, log)
    <2>1. Handle(d, log) = Graduation(d, log) /\ log.address = Pair(log.token)
      <3>1. Genuine(log) /\ log.token \in Tokens
        BY <1>1, <1>8, KnownSource
      <3> QED
        BY <1>8, <3>1, HandleIs DEF Sourced
    <2>2. GraduationLeaves(d, log, Graduation(d, log))
      BY <1>1, GraduationEffect DEF Typed
    <2> QED
      BY <1>1, <1>8, <2>1, <2>2, GraduationBook
  <1>9. log.name # "Garbled"
    BY <1>1 DEF Refused
  <1> QED
    BY <1>3, <1>4, <1>5, <1>6, <1>7, <1>8, <1>9 DEF LogOK, Names

LEMMA EmptyBooks == Books(EmptyDb)
  <1>1. PICK d : d = EmptyDb
    OBVIOUS
  <1>2. /\ d.trades = {} /\ d.fees = {} /\ d.token = [t \in Tokens |-> NoRow]
        /\ d.holder = [t \in Tokens |-> [w \in Wallets |-> 0]]
        /\ d.stats = [tokens |-> 0, bonding |-> 0, graduated |-> 0, trades |-> 0,
                      volume |-> 0, fees |-> 0, traders |-> 0]
    BY <1>1 DEF EmptyDb
  <1>3. [x \in {} |-> QuoteOf(x)] = <<>> /\ [x \in {} |-> AmountOf(x)] = <<>>
    OBVIOUS
  <1>4. SumOver({}, QuoteOf) = 0 /\ SumOver({}, AmountOf) = 0
    BY <1>3, TotalNothing DEF SumOver
  <1>5. Created(d) = {} /\ Left(d) = {} /\ Created(d) \ Left(d) = {}
    BY <1>2 DEF Created, Left
  <1>6. MarketCounts(d) /\ PlatformSums(d)
    BY <1>2, <1>4, <1>5, FS_EmptySet DEF MarketCounts, PlatformSums
  <1>7. TradeRows(d) /\ FeeRows(d)
    BY <1>2, FS_EmptySet DEF TradeRows, FeeRows
  <1>8. Books(d)
    BY <1>2, <1>6, <1>7 DEF Books
  <1> QED
    BY <1>1, <1>8

-----------------------------------------------------------------------------
\* What the processor can do, and how far it has been.

LEMMA ProcessorSteps ==
    ASSUME [Next]_vars
    PROVE  \/ cursor' = 0 /\ restarts' = 0 /\ db' = EmptyDb
           \/ Process
           \/ /\ db' = db /\ logs' = logs
              /\ \/ cursor' = cursor /\ restarts' = restarts
                 \/ /\ cursor' \in 0 .. cursor - 1
                    /\ restarts < MaxRestarts /\ restarts' = restarts + 1
  <1>1. ASSUME NEW s, Emit(s) PROVE cursor' = 0 /\ restarts' = 0 /\ db' = EmptyDb
    BY <1>1 DEF Emit
  <1>2. ASSUME NEW t, CreateToken(t, Somebody)
        PROVE  cursor' = 0 /\ restarts' = 0 /\ db' = EmptyDb
    BY <1>1, <1>2 DEF CreateToken
  <1>3. ASSUME NEW w, NEW t, NEW n, NEW q, Buy(t, w, n, q) \/ Sell(t, w, n, q)
        PROVE  cursor' = 0 /\ restarts' = 0 /\ db' = EmptyDb
    BY <1>1, <1>3 DEF Buy, Sell
  <1>4. ASSUME NEW w, NEW t, NEW n, NEW q,
               (\E to \in Wallets : SwapForToken(t, w, to, n, q)) \/ SwapForNative(t, w, n, q)
        PROVE  cursor' = 0 /\ restarts' = 0 /\ db' = EmptyDb
    BY <1>1, <1>4 DEF SwapForToken, SwapForNative
  <1>5. ASSUME NEW w, NEW t, NEW n,
               (\E to \in Wallets : Transfer(t, w, to, n)) \/ TransferToPair(t, w, n)
        PROVE  cursor' = 0 /\ restarts' = 0 /\ db' = EmptyDb
    BY <1>1, <1>5 DEF Transfer, TransferToPair
  <1>6. ASSUME NEW event, NEW t, ForeignLog(event, t, Somebody)
        PROVE  cursor' = 0 /\ restarts' = 0 /\ db' = EmptyDb
    BY <1>1, <1>6 DEF ForeignLog
  <1>7. CASE Restart
    BY <1>7 DEF Restart, chain
  <1>8. CASE UNCHANGED vars
    BY <1>8 DEF vars, chain
  <1> QED
    BY <1>2, <1>3, <1>4, <1>5, <1>6, <1>7, <1>8 DEF Next

\* How far the processor has ever been: every key it has kept is of a log up
\* to there, and every trade up to there has its key.
Reached(d, n) ==
    /\ \A k \in d.events : \E i \in 1 .. n : k = Key(logs[i])
    /\ \A i \in 1 .. n : IsTrade(logs[i]) => Key(logs[i]) \in d.events

\* No row of a trade is as late as the log.
Newest(d, log) ==
    \A x \in d.trades :
        /\ x.key[1] \in Nat /\ x.key[2] \in Nat
        /\ x.key[1] < log.tx \/ (x.key[1] = log.tx /\ x.key[2] < log.index)


-----------------------------------------------------------------------------
\* The annals: what depends on the order of the trades, their candles and the
\* first trade of each wallet.  A trade is recorded after every earlier one.

\* No row of a trade is as late as the row x.
Latest(x, rows) == \A y \in rows : Prior(y, x) /\ ~Prior(x, y) /\ x # y

Candle == [open : Nat, high : Nat, low : Nat, close : Nat, volume : Nat, count : Nat]
CandleKey(i, x) == <<i, x.token, OpenTime(x.key[1], i)>>
CandlesOf(rows) == {CandleKey(i, x) : i \in Intervals, x \in rows}
InCandle(rows, k) == {x \in rows : x.token = k[2] /\ OpenTime(x.key[1], k[1]) = k[3]}
Opened(x) == [open |-> x.price, high |-> x.price, low |-> x.price, close |-> x.price,
              volume |-> x.quote, count |-> 1]

Summary(rows, row) ==
    /\ row \in Candle
    /\ \E x \in rows : row.open = x.price /\ \A y \in rows : x = y \/ Prior(x, y)
    /\ \E x \in rows : row.close = x.price /\ \A y \in rows : x = y \/ Prior(y, x)
    /\ (\E x \in rows : row.high = x.price) /\ \A x \in rows : x.price <= row.high
    /\ (\E x \in rows : row.low = x.price) /\ \A x \in rows : row.low <= x.price
    /\ row.volume = SumOver(rows, QuoteOf) /\ row.count = Cardinality(rows)

CandleBook(rows, candles) ==
    /\ \A x \in rows : x.price \in Nat
    /\ DOMAIN candles = CandlesOf(rows)
    /\ \A k \in DOMAIN candles : Summary(InCandle(rows, k), candles[k])

Starters(rows) ==
    {w \in Wallets : \E x \in rows : /\ x.wallet = w /\ ~x.swap
                                     /\ \A y \in rows : y.wallet = w => x = y \/ Prior(x, y)}

Annals(d) == CandleBook(d.trades, d.candles) /\ d.stats.traders = Cardinality(Starters(d.trades))

LEMMA SummaryOne ==
    ASSUME NEW x, x.price \in Nat, x.quote \in Nat, NEW row, row = Opened(x)
    PROVE  Summary({x}, row)
  <1>1. /\ row \in Candle /\ row.open = x.price /\ row.high = x.price /\ row.low = x.price
        /\ row.close = x.price /\ row.volume = x.quote /\ row.count = 1
    BY DEF Opened, Candle
  <1>2. Cardinality({x}) = 1
    BY FS_Singleton
  <1>3. SumOver({x}, QuoteOf) = x.quote
    <2>1. [y \in {} |-> QuoteOf(y)] = <<>>
      OBVIOUS
    <2>2. SumOver({}, QuoteOf) = 0
      BY <2>1, TotalNothing DEF SumOver
    <2>3. \A y \in {x} : y.quote \in Nat
      OBVIOUS
    <2>4. {x} = {} \cup {x} /\ x \notin {}
      OBVIOUS
    <2>5. SumOver({x}, QuoteOf) = SumOver({}, QuoteOf) + x.quote
      BY <2>3, <2>4, QuotesMore, FS_EmptySet
    <2> QED
      BY <2>2, <2>5
  <1> QED
    BY <1>1, <1>2, <1>3 DEF Summary

\* The candle of some trades takes in a later one.
LEMMA SummaryMore ==
    ASSUME NEW rows, IsFiniteSet(rows), \A y \in rows : y.price \in Nat /\ y.quote \in Nat,
           NEW x, x.price \in Nat, x.quote \in Nat, Latest(x, rows),
           NEW all, all = rows \cup {x},
           NEW row, Summary(rows, row), NEW next, next = Upserted(row, x.price, x.quote)
    PROVE  Summary(all, next)
  <1>1. /\ row \in Candle /\ row.high \in Nat /\ row.low \in Nat /\ row.volume \in Nat
        /\ row.count \in Nat
    BY DEF Summary, Candle
  <1>2. PICK high : high = Max({row.high, x.price})
    OBVIOUS
  <1>3. PICK low : low = Min({row.low, x.price})
    OBVIOUS
  <1>4. /\ high \in {row.high, x.price} /\ row.high <= high /\ x.price <= high
    BY <1>1, <1>2 DEF Max
  <1>5. /\ low \in {row.low, x.price} /\ low <= row.low /\ low <= x.price
    BY <1>1, <1>3 DEF Min
  <1>6. next = [row EXCEPT !.high = high, !.low = low, !.close = x.price,
                           !.volume = @ + x.quote, !.count = @ + 1]
    BY <1>2, <1>3 DEF Upserted
  <1>0. /\ high \in Nat /\ low \in Nat /\ row.volume + x.quote \in Nat /\ row.count + 1 \in Nat
    BY <1>1, <1>4, <1>5
  <1>7. /\ next \in Candle /\ next.open = row.open /\ next.high = high /\ next.low = low
        /\ next.close = x.price /\ next.volume = row.volume + x.quote
        /\ next.count = row.count + 1
    BY <1>0, <1>1, <1>6 DEF Candle
  <1>8. x \notin rows /\ \A y \in rows : Prior(y, x)
    BY DEF Latest
  <1>9. /\ next.volume = SumOver(all, QuoteOf) /\ next.count = Cardinality(all)
    <2>1. \A y \in all : y.quote \in Nat
      OBVIOUS
    <2>2. /\ Cardinality(all) = Cardinality(rows) + 1
          /\ SumOver(all, QuoteOf) = SumOver(rows, QuoteOf) + x.quote
      BY <1>8, <2>1, QuotesMore
    <2> QED
      BY <1>7, <2>2 DEF Summary
  <1>10. \E y \in all : next.open = y.price /\ \A z \in all : y = z \/ Prior(y, z)
    <2>1. PICK y \in rows : row.open = y.price /\ \A z \in rows : y = z \/ Prior(y, z)
      BY DEF Summary
    <2> QED
      BY <1>7, <1>8, <2>1
  <1>11. \E y \in all : next.close = y.price /\ \A z \in all : y = z \/ Prior(z, y)
    BY <1>7, <1>8
  <1>12. (\E y \in all : next.high = y.price) /\ \A y \in all : y.price <= next.high
    <2>1. (\E y \in rows : row.high = y.price) /\ \A y \in rows : y.price <= row.high
      BY DEF Summary
    <2>2. \E y \in all : high = y.price
      BY <1>4, <2>1
    <2>3. high \in Nat
      BY <1>1, <1>4
    <2>4. \A y \in all : y.price <= high
      BY <1>1, <1>4, <2>1, <2>3
    <2> QED
      BY <1>7, <2>2, <2>4
  <1>13. (\E y \in all : next.low = y.price) /\ \A y \in all : next.low <= y.price
    <2>1. (\E y \in rows : row.low = y.price) /\ \A y \in rows : row.low <= y.price
      BY DEF Summary
    <2>2. \E y \in all : low = y.price
      BY <1>5, <2>1
    <2>3. low \in Nat
      BY <1>1, <1>5
    <2>4. \A y \in all : low <= y.price
      BY <1>1, <1>5, <2>1, <2>3
    <2> QED
      BY <1>7, <2>2, <2>4
  <1> QED
    BY <1>7, <1>9, <1>10, <1>11, <1>12, <1>13 DEF Summary

TakenIn(candles, x, next) ==
    /\ DOMAIN next = DOMAIN candles \cup CandlesOf({x})
    /\ \A k \in DOMAIN next :
        next[k] = IF k \in CandlesOf({x})
                  THEN IF k \notin DOMAIN candles THEN Opened(x)
                       ELSE Upserted(candles[k], x.price, x.quote)
                  ELSE candles[k]

LEMMA WithCandlesIs ==
    ASSUME NEW candles, NEW log, NEW x, x = TradeRow(log),
           NEW next, next = WithCandles(candles, log)
    PROVE  TakenIn(candles, x, next)
  <1>1. /\ x.price = Price(log) /\ x.quote = log.quote /\ x.token = log.token
        /\ x.key[1] = log.tx
    BY DEF TradeRow, Key
  <1>2. PICK keys : keys = CandlesOf({x})
    OBVIOUS
  <1>3. keys = {<<i, log.token, OpenTime(log.tx, i)>> : i \in Intervals}
    BY <1>1, <1>2 DEF CandleKey, CandlesOf
  <1>4. next = [k \in DOMAIN candles \cup keys |->
                 IF k \in keys
                 THEN IF k \notin DOMAIN candles THEN Opened(x)
                      ELSE Upserted(candles[k], x.price, x.quote)
                 ELSE candles[k]]
    BY <1>1, <1>3 DEF WithCandles, Opened
  <1> QED
    BY <1>2, <1>4 DEF TakenIn

\* Every candle of a new trade is opened by it or takes it in, and no other
\* candle has it among its trades.
LEMMA CandlesMore ==
    ASSUME NEW rows, IsFiniteSet(rows), \A y \in rows : y.quote \in Nat,
           NEW log, NEW x, x = TradeRow(log), x.price \in Nat, x.quote \in Nat, Latest(x, rows),
           NEW candles, CandleBook(rows, candles),
           NEW all, all = rows \cup {x}, NEW next, next = WithCandles(candles, log)
    PROVE  CandleBook(all, next)
  <1>1. /\ \A y \in rows : y.price \in Nat
        /\ DOMAIN candles = CandlesOf(rows)
        /\ \A k \in DOMAIN candles : Summary(InCandle(rows, k), candles[k])
    BY DEF CandleBook
  <1>2. PICK keys : keys = CandlesOf({x})
    OBVIOUS
  <1>3. /\ DOMAIN next = DOMAIN candles \cup keys
        /\ \A k \in DOMAIN next :
             next[k] = IF k \in keys
                       THEN IF k \notin DOMAIN candles THEN Opened(x)
                            ELSE Upserted(candles[k], x.price, x.quote)
                       ELSE candles[k]
    <2>1. TakenIn(candles, x, next)
      BY WithCandlesIs
    <2> QED
      BY <1>2, <2>1 DEF TakenIn
  <1>4. DOMAIN next = CandlesOf(all)
    BY <1>1, <1>2, <1>3 DEF CandlesOf
  <1>5. ASSUME NEW k \in DOMAIN next PROVE Summary(InCandle(all, k), next[k])
    <2>1. PICK i \in Intervals, z \in all : k = CandleKey(i, z)
      BY <1>4 DEF CandlesOf
    <2>2. k[1] = i /\ k[2] = z.token /\ k[3] = OpenTime(z.key[1], i)
      BY <2>1 DEF CandleKey
    <2>3. k \in keys <=> x.token = k[2] /\ OpenTime(x.key[1], k[1]) = k[3]
      BY <1>2, <2>1, <2>2 DEF CandleKey, CandlesOf
    <2>4. k \in DOMAIN candles <=> InCandle(rows, k) # {}
      <3>1. ASSUME NEW y \in InCandle(rows, k) PROVE k \in DOMAIN candles
        <4>1. k = CandleKey(i, y) /\ y \in rows
          BY <2>1, <2>2 DEF InCandle, CandleKey
        <4> QED
          BY <1>1, <4>1 DEF CandlesOf
      <3>2. ASSUME k \in DOMAIN candles PROVE InCandle(rows, k) # {}
        <4>1. PICK y \in InCandle(rows, k) : TRUE
          BY <1>1, <3>2 DEF Summary
        <4> QED
          BY <4>1
      <3> QED
        BY <3>1, <3>2
    <2>5. CASE k \notin keys
      <3>1. InCandle(all, k) = InCandle(rows, k) /\ k \in DOMAIN candles /\ next[k] = candles[k]
        BY <1>3, <2>3, <2>5 DEF InCandle
      <3> QED
        BY <1>1, <3>1
    <2>6. CASE k \in keys /\ k \notin DOMAIN candles
      <3>1. InCandle(all, k) = {x} /\ next[k] = Opened(x)
        <4>1. InCandle(all, k) = InCandle(rows, k) \cup {x}
          BY <2>3, <2>6 DEF InCandle
        <4> QED
          BY <1>3, <2>4, <2>6, <4>1
      <3> QED
        BY <3>1, SummaryOne
    <2>7. CASE k \in keys /\ k \in DOMAIN candles
      <3>1. PICK part : part = InCandle(rows, k)
        OBVIOUS
      <3>2. InCandle(all, k) = part \cup {x}
        BY <2>3, <2>7, <3>1 DEF InCandle
      <3>3. part \in SUBSET rows
        BY <3>1 DEF InCandle
      <3>4. IsFiniteSet(part)
        BY <3>3, FS_Subset
      <3>5. Latest(x, part) /\ \A y \in part : y.price \in Nat /\ y.quote \in Nat
        BY <1>1, <3>3 DEF Latest
      <3>6. Summary(part, candles[k]) /\ next[k] = Upserted(candles[k], x.price, x.quote)
        BY <1>1, <1>3, <2>7, <3>1
      <3> QED
        BY <3>2, <3>4, <3>5, <3>6, SummaryMore
    <2> QED
      BY <2>5, <2>6, <2>7
  <1>6. \A y \in all : y.price \in Nat
    BY <1>1
  <1> QED
    BY <1>4, <1>5, <1>6 DEF CandleBook

\* A trade starts a trader when it is the wallet's first, and on a curve.
LEMMA StartersMore ==
    ASSUME NEW rows, NEW x, x.wallet \in Wallets, x.swap \in BOOLEAN, Latest(x, rows),
           NEW all, all = rows \cup {x}
    PROVE  /\ x.swap => Starters(all) = Starters(rows)
           /\ (\E y \in rows : y.wallet = x.wallet) => Starters(all) = Starters(rows)
           /\ ~x.swap /\ (\A y \in rows : y.wallet # x.wallet)
                => /\ Starters(all) = Starters(rows) \cup {x.wallet}
                   /\ x.wallet \notin Starters(rows)
  <1> DEFINE First(z, s) == \A y \in s : y.wallet = z.wallet => z = y \/ Prior(z, y)
  <1>1. \A z \in rows : First(z, all) <=> First(z, rows)
    BY DEF Latest
  <1>2. First(x, all) <=> \A y \in rows : y.wallet # x.wallet
    BY DEF Latest
  <1>3. \A s : Starters(s) = {w \in Wallets : \E z \in s : z.wallet = w /\ ~z.swap /\ First(z, s)}
    BY DEF Starters
  <1> HIDE DEF First
  <1>4. \A w \in Wallets : w \in Starters(all) <=>
          w \in Starters(rows) \/ (w = x.wallet /\ ~x.swap /\ First(x, all))
    BY <1>1, <1>3
  <1>5. Starters(all) \subseteq Wallets /\ Starters(rows) \subseteq Wallets
    BY DEF Starters
  <1>6. x.wallet \in Starters(rows) => \E y \in rows : y.wallet = x.wallet
    BY DEF Starters
  <1> QED
    BY <1>2, <1>4, <1>5, <1>6

LEMMA Extremes ==
    ASSUME NEW s \in SUBSET Nat, NEW h \in s, NEW l \in s, \A p \in s : l <= p /\ p <= h
    PROVE  h = Max(s) /\ l = Min(s)
  <1>1. \A x \in s : (\A y \in s : x >= y) <=> x = h
    OBVIOUS
  <1>2. \A x \in s : (\A y \in s : x <= y) <=> x = l
    OBVIOUS
  <1> QED
    BY <1>1, <1>2 DEF Max, Min

LEMMA EmptyAnnals == Annals(EmptyDb)
  <1>1. PICK d : d = EmptyDb
    OBVIOUS
  <1>2. d.trades = {} /\ d.candles = <<>> /\ d.stats.traders = 0
    BY <1>1 DEF EmptyDb
  <1>3. Starters({}) = {} /\ CandlesOf({}) = {}
    BY DEF Starters, CandlesOf
  <1>4. CandleBook({}, <<>>)
    BY <1>3 DEF CandleBook
  <1> QED
    BY <1>1, <1>2, <1>3, <1>4, FS_EmptySet DEF Annals

LEMMA AnnalsOfRows ==
    ASSUME NEW d, NEW r, r.trades = d.trades, r.candles = d.candles,
           r.stats.traders = d.stats.traders, Annals(d)
    PROVE  Annals(r)
  BY DEF Annals

\* The row of the trade is later than all the others.
LEMMA RowIsLatest ==
    ASSUME NEW d, NEW log, LogOK(log), Newest(d, log), NEW x, x = TradeRow(log)
    PROVE  Latest(x, d.trades)
  <1>1. x.key[1] = log.tx /\ x.key[2] = log.index /\ log.tx \in Nat /\ log.index \in Nat
    BY DEF TradeRow, Key, LogOK
  <1>2. ASSUME NEW y \in d.trades PROVE Prior(y, x) /\ ~Prior(x, y) /\ x # y
    <2>1. /\ y.key[1] \in Nat /\ y.key[2] \in Nat
          /\ y.key[1] < x.key[1] \/ (y.key[1] = x.key[1] /\ y.key[2] < x.key[2])
      BY <1>1 DEF Newest
    <2>2. ~(y.key[1] = x.key[1] /\ y.key[2] = x.key[2])
      BY <1>1, <2>1
    <2> QED
      BY <1>1, <2>1, <2>2 DEF Prior
  <1> QED
    BY <1>2 DEF Latest

\* What a trade leaves behind, on a curve and at a pool.
LEMMA TradeAnnals ==
    ASSUME NEW d, DbOK(d), TradeRows(d), Annals(d),
           NEW log, LogOK(log), IsTrade(log), Known(d, log), Newest(d, log),
           NEW r, RecordLeaves(d, log, r),
           NEW q, q.trades = r.trades, q.candles = r.candles,
           q.stats.traders = d.stats.traders
             + (IF IsSwap(log) \/ \E y \in d.trades : y.wallet = log.wallet THEN 0 ELSE 1)
    PROVE  Annals(q)
  <1>1. PICK x : x = TradeRow(log)
    OBVIOUS
  <1>2. /\ x.wallet = log.wallet /\ x.swap = IsSwap(log) /\ x.price = Price(log)
        /\ x.quote = log.quote
    BY <1>1 DEF TradeRow
  <1>3. /\ x.price \in Nat /\ x.quote \in Nat /\ x.wallet \in Wallets /\ x.swap \in BOOLEAN
    BY <1>2, PriceType DEF LogOK, Known, IsSwap
  <1>4. q.trades = d.trades \cup {x} /\ q.candles = WithCandles(d.candles, log)
    BY <1>1 DEF RecordLeaves
  <1>5. Latest(x, d.trades)
    BY <1>1, RowIsLatest
  <1>6. CandleBook(q.trades, q.candles)
    <2>1. IsFiniteSet(d.trades) /\ \A y \in d.trades : y.quote \in Nat
      BY DEF TradeRows
    <2> QED
      BY <1>1, <1>3, <1>4, <1>5, <2>1, CandlesMore DEF Annals
  <1>7. IsFiniteSet(Starters(d.trades)) /\ Cardinality(Starters(d.trades)) \in Nat
    <2>1. Starters(d.trades) \in SUBSET Wallets
      BY DEF Starters
    <2> QED
      BY <2>1, EventAssumption, FS_Subset, FS_CardinalityType
  <1>8. q.stats.traders = Cardinality(Starters(q.trades))
    <2>1. CASE IsSwap(log) \/ \E y \in d.trades : y.wallet = log.wallet
      <3>1. Starters(q.trades) = Starters(d.trades)
        BY <1>2, <1>3, <1>4, <1>5, <2>1, StartersMore
      <3> QED
        BY <1>7, <2>1, <3>1 DEF Annals
    <2>2. CASE ~(IsSwap(log) \/ \E y \in d.trades : y.wallet = log.wallet)
      <3>1. /\ Starters(q.trades) = Starters(d.trades) \cup {x.wallet}
            /\ x.wallet \notin Starters(d.trades)
        BY <1>2, <1>3, <1>4, <1>5, <2>2, StartersMore
      <3>2. Cardinality(Starters(q.trades)) = Cardinality(Starters(d.trades)) + 1
        BY <1>7, <3>1, FS_AddElement
      <3> QED
        BY <2>2, <3>2 DEF Annals
    <2> QED
      BY <2>1, <2>2
  <1> QED
    BY <1>6, <1>8 DEF Annals

\* A trade whose key is known is the only kind that is not processed again.
LEMMA TradeAnswered ==
    ASSUME NEW d, NEW log, IsTrade(log), Outcome(d, log) # "refused"
    PROVE  Outcome(d, log) = "processed" \/ Key(log) \in d.events
  <1>1. log.name # "TokenCreated" /\ log.name # "Graduated"
    BY DEF IsTrade, IsSwap
  <1> QED
    BY <1>1 DEF Outcome, Conflict

LEMMA ApplyAnnals ==
    ASSUME NEW d, DbOK(d), Books(d), Annals(d), NEW log, LogOK(log), Kept(log),
           IsTrade(log) /\ Key(log) \notin d.events => Newest(d, log)
    PROVE  Annals(Apply(d, log))
  <1> SUFFICES ASSUME Outcome(d, log) = "processed"
               PROVE  Annals(Apply(d, log))
    BY OutcomeIs
  <1>1. /\ Key(log) \notin d.events /\ Typed(d) /\ TradeRows(d) /\ d.stats \in Stats
        /\ log.name # "Garbled"
    BY OutcomeIs DEF DbOK, Books, Typed, Refused
  <1>2. PICK r : r = Handle(d, log)
    OBVIOUS
  <1>3. /\ Apply(d, log).trades = r.trades /\ Apply(d, log).candles = r.candles
        /\ Apply(d, log).stats = r.stats
    BY <1>2, Processed DEF SameRows
  <1> SUFFICES Annals(r)
    BY <1>3, AnnalsOfRows
  <1>4. CASE log.name = "TokenCreated"
    <2>1. TokenCreatedLeaves(d, log, r)
      BY <1>1, <1>2, <1>4, HandleIs, TokenCreatedEffect DEF Typed
    <2>2. r.trades = d.trades /\ r.candles = d.candles /\ r.stats.traders = d.stats.traders
      BY <1>1, <2>1 DEF TokenCreatedLeaves, Stats
    <2> QED
      BY <2>2, AnnalsOfRows
  <1>5. CASE log.name = "FeeCollected"
    <2>1. FeeCollectedLeaves(d, log, r)
      BY <1>1, <1>2, <1>5, HandleIs, FeeCollectedEffect DEF Typed
    <2>2. r.trades = d.trades /\ r.candles = d.candles /\ r.stats.traders = d.stats.traders
      BY <1>1, <2>1 DEF FeeCollectedLeaves, Stats
    <2> QED
      BY <2>2, AnnalsOfRows
  <1>6. CASE log.name \notin {"TokenCreated", "FeeCollected"} /\ ~Known(d, log)
    BY <1>1, <1>2, <1>6, HandleIs
  <1>7. CASE log.name = "Graduated" /\ Known(d, log)
    <2>1. GraduationLeaves(d, log, r)
      BY <1>1, <1>2, <1>7, HandleIs, GraduationEffect DEF Typed
    <2>2. r.trades = d.trades /\ r.candles = d.candles /\ r.stats.traders = d.stats.traders
      BY <1>1, <2>1 DEF GraduationLeaves, Stats
    <2> QED
      BY <2>2, AnnalsOfRows
  <1>8. ASSUME IsTrade(log), Known(d, log)
        PROVE  RecordLeaves(d, log, Record(d, log)) /\ Typed(Record(d, log))
    <2>1. RecordLeaves(d, log, Record(d, log))
      BY <1>1, RecordEffect DEF Typed
    <2>2. ~Refused(d, log)
      BY OutcomeIs
    <2>3. NextBalance(d, log) >= 0
      <3>1. log.token \in Tokens /\ log.wallet \in Wallets
        BY <1>8 DEF Known, LogOK
      <3>2. NextBalance(d, log) \in Int
        BY <1>1, <1>8, <3>1, BalanceType
      <3>3. ~(NextBalance(d, log) < 0)
        BY <1>8, <2>2 DEF Refused
      <3> HIDE DEF NextBalance
      <3> QED
        BY <3>2, <3>3
    <2> QED
      BY <1>1, <1>8, <2>1, <2>3, RecordTyped
  <1>9. CASE log.name \in {"Buy", "Sell"} /\ Known(d, log)
    <2>1. IsTrade(log) /\ ~IsSwap(log) /\ r = CurveTrade(d, log)
      BY <1>2, <1>9, HandleIs DEF IsTrade, IsSwap
    <2>2. PICK e : e = Record(d, log)
      OBVIOUS
    <2>3. RecordLeaves(d, log, e) /\ Typed(e)
      BY <1>8, <1>9, <2>1, <2>2
    <2>4. CurveTradeAdds(e, log, r)
      BY <2>1, <2>2, <2>3, CurveTradeEffect DEF Typed
    <2>5. PriorTrades(e, log) = {} <=> ~\E y \in d.trades : y.wallet = log.wallet
      <3>1. e.trades = d.trades \cup {TradeRow(log)} /\ TradeRow(log).key = Key(log)
        BY <2>3 DEF RecordLeaves, TradeRow
      <3>2. \A y \in d.trades : y.key # Key(log)
        BY <1>1 DEF DbOK, Linked
      <3> QED
        BY <3>1, <3>2 DEF PriorTrades
    <2>6. e.stats.traders = d.stats.traders /\ e.stats \in Stats
      BY <1>1, <2>3 DEF RecordLeaves, Stats, Typed
    <2>7. r.stats.traders = IF PriorTrades(e, log) = {} THEN e.stats.traders + 1
                            ELSE e.stats.traders
      BY <2>4, <2>6 DEF CurveTradeAdds, Stats
    <2>8. r.stats.traders = d.stats.traders
            + (IF IsSwap(log) \/ \E y \in d.trades : y.wallet = log.wallet THEN 0 ELSE 1)
      BY <1>1, <2>1, <2>5, <2>6, <2>7 DEF Stats
    <2>9. r.trades = e.trades /\ r.candles = e.candles
      BY <2>4 DEF CurveTradeAdds
    <2> QED
      BY <1>1, <1>9, <2>1, <2>3, <2>8, <2>9, TradeAnnals
  <1>10. CASE log.name \in {"SwapIn", "SwapOut"} /\ Known(d, log)
    <2>1. IsTrade(log) /\ IsSwap(log) /\ r = DexTrade(d, log)
      BY <1>2, <1>10, HandleIs DEF IsTrade, IsSwap
    <2>2. PICK e : e = Record(d, log)
      OBVIOUS
    <2>3. RecordLeaves(d, log, e) /\ Typed(e)
      BY <1>8, <1>10, <2>1, <2>2
    <2>4. DexTradeAdds(e, log, r)
      BY <2>1, <2>2, <2>3, DexTradeEffect DEF Typed
    <2>5. e.stats.traders = d.stats.traders
      BY <1>1, <2>3 DEF RecordLeaves, Stats
    <2>6. r.stats.traders = d.stats.traders
            + (IF IsSwap(log) \/ \E y \in d.trades : y.wallet = log.wallet THEN 0 ELSE 1)
      BY <1>1, <2>1, <2>4, <2>5 DEF DexTradeAdds, Stats
    <2>7. r.trades = e.trades /\ r.candles = e.candles
      BY <2>4 DEF DexTradeAdds
    <2> QED
      BY <1>1, <1>10, <2>1, <2>3, <2>6, <2>7, TradeAnnals
  <1> QED
    BY <1>1, <1>4, <1>5, <1>6, <1>7, <1>9, <1>10 DEF LogOK, Names

-----------------------------------------------------------------------------
\* The inductive invariant of the books and the annals.

BookInv ==
    /\ History
    /\ cursor \in 0 .. Len(logs) /\ restarts \in 0 .. MaxRestarts
    /\ DbOK(db) /\ Books(db) /\ Annals(db)
    /\ \E n \in cursor .. Len(logs) : Reached(db, n)

\* A trade whose key is not known is later than all that are.
LEMMA TradesComeLast ==
    ASSUME BookInv, cursor < Len(logs), NEW log, log = logs[cursor + 1],
           IsTrade(log), Key(log) \notin db.events
    PROVE  Newest(db, log)
  <1>1. PICK n \in cursor .. Len(logs) : Reached(db, n)
    BY DEF BookInv
  <1>2. cursor \in Nat /\ Len(logs) \in Nat /\ n \in Nat /\ n <= Len(logs) /\ cursor <= n
    BY <1>1 DEF BookInv, History, Told, Lined
  <1>3. n = cursor
    <2>1. CASE cursor < n
      <3>1. cursor + 1 \in 1 .. n
        BY <1>2, <2>1
      <3> QED
        BY <1>1, <3>1 DEF Reached
    <2> QED
      BY <1>2, <2>1
  <1>4. ASSUME NEW x \in db.trades
        PROVE  /\ x.key[1] \in Nat /\ x.key[2] \in Nat
               /\ x.key[1] < log.tx \/ (x.key[1] = log.tx /\ x.key[2] < log.index)
    <2>1. x.key \in db.events
      BY DEF BookInv, DbOK, Linked
    <2>2. PICK i \in 1 .. n : x.key = Key(logs[i])
      BY <1>1, <2>1 DEF Reached
    <2>3. i \in 1 .. Len(logs) /\ cursor + 1 \in 1 .. Len(logs) /\ i < cursor + 1
      BY <1>2, <1>3
    <2>4. /\ logs[i].tx \in Nat /\ logs[i].index = i /\ log.index = cursor + 1
          /\ log.tx \in Nat /\ logs[i].tx <= log.tx
      <3>1. Lined(logs, txs) /\ i \in 1 .. cursor + 1
        BY <1>2, <2>3 DEF BookInv, History, Told
      <3> QED
        BY <2>3, <3>1 DEF Lined, LogOK
    <2>5. x.key[1] = logs[i].tx /\ x.key[2] = logs[i].index
      BY <2>2 DEF Key
    <2> QED
      BY <1>2, <2>3, <2>4, <2>5
  <1> QED
    BY <1>4 DEF Newest

LEMMA ProcessBooks ==
    ASSUME BookInv, Process, History'
    PROVE  BookInv'
  <1> DEFINE log == logs[cursor + 1]
  <1>1. PICK n \in cursor .. Len(logs) : Reached(db, n)
    BY DEF BookInv
  <1>2. /\ cursor \in Nat /\ Len(logs) \in Nat /\ n \in Nat /\ n <= Len(logs) /\ cursor <= n
        /\ cursor < Len(logs) /\ cursor' = cursor + 1 /\ logs' = logs /\ restarts' = restarts
    BY <1>1 DEF BookInv, History, Told, Lined, Process, chain
  <1>3. LogOK(log) /\ Sourced(log)
    BY <1>2 DEF BookInv, History, Told, Lined
  <1>4. \/ ~Kept(log) /\ db' = db
        \/ Kept(log) /\ Outcome(db, log) # "refused" /\ db' = Apply(db, log)
    BY DEF Process
  <1>5. IsTrade(log) /\ Key(log) \notin db.events => Newest(db, log)
    BY <1>2, TradesComeLast
  <1>6. IsTrade(log) => Kept(log)
    BY DEF IsTrade, IsSwap, Kept
  <1>7. Key(log) = Key(logs[cursor + 1])
    OBVIOUS
  <1>8. IsTrade(log) <=> IsTrade(logs[cursor + 1])
    OBVIOUS
  <1> HIDE DEF log
  <1>9. DbOK(db') /\ Books(db') /\ Annals(db')
    <2>1. DbOK(db) /\ Books(db) /\ Annals(db)
      BY DEF BookInv
    <2>2. CASE Kept(log) /\ db' = Apply(db, log)
      <3>1. DbOK(Apply(db, log)) /\ Books(Apply(db, log)) /\ Annals(Apply(db, log))
        BY <1>3, <1>5, <2>1, <2>2, ApplyKeeps, ApplyBooks, ApplyAnnals
      <3> QED
        BY <2>2, <3>1
    <2> QED
      BY <1>4, <2>1, <2>2
  <1>10. /\ db.events \subseteq db'.events
         /\ db'.events \subseteq db.events \cup {Key(log)}
         /\ IsTrade(log) => Key(log) \in db'.events
    <2>1. DbOK(db)
      BY DEF BookInv
    <2>2. CASE Kept(log) /\ Outcome(db, log) # "refused" /\ db' = Apply(db, log)
      <3>1. /\ db.events \subseteq Apply(db, log).events
            /\ Apply(db, log).events \subseteq db.events \cup {Key(log)}
            /\ Outcome(db, log) = "processed" => Key(log) \in Apply(db, log).events
        BY <1>3, <2>1, <2>2, ApplyKeeps
      <3>2. IsTrade(log) => Outcome(db, log) = "processed" \/ Key(log) \in db.events
        BY <2>2, TradeAnswered
      <3> QED
        BY <2>2, <3>1, <3>2
    <2> QED
      BY <1>4, <1>6, <2>2
  <1>11. PICK k : k = IF cursor < n THEN n ELSE n + 1
    OBVIOUS
  <1>12. k \in cursor + 1 .. Len(logs) /\ cursor + 1 \in 1 .. k /\ n <= k
         /\ \A i \in 1 .. k : i \in 1 .. n \/ i = cursor + 1
    BY <1>2, <1>11
  <1>13. Reached(db', k)
    <2>1. ASSUME NEW e \in db'.events PROVE \E i \in 1 .. k : e = Key(logs[i])
      <3>1. CASE e \in db.events
        <4>1. PICK i \in 1 .. n : e = Key(logs[i])
          BY <1>1, <3>1 DEF Reached
        <4>2. i \in 1 .. k
          BY <1>2, <1>12
        <4> QED
          BY <4>1, <4>2
      <3>2. CASE e = Key(log)
        BY <1>7, <1>12, <3>2
      <3> QED
        BY <1>10, <3>1, <3>2
    <2>2. ASSUME NEW i \in 1 .. k, IsTrade(logs[i]) PROVE Key(logs[i]) \in db'.events
      <3>1. CASE i \in 1 .. n
        BY <1>1, <1>10, <2>2, <3>1 DEF Reached
      <3>2. CASE i = cursor + 1
        BY <1>7, <1>8, <1>10, <2>2, <3>2
      <3> QED
        BY <1>12, <3>1, <3>2
    <2> QED
      BY <2>1, <2>2 DEF Reached
  <1>14. Reached(db, k)' /\ k \in cursor' .. Len(logs')
    BY <1>2, <1>12, <1>13 DEF Reached
  <1>15. cursor' \in 0 .. Len(logs') /\ restarts' \in 0 .. MaxRestarts
    BY <1>2 DEF BookInv
  <1>16. DbOK(db)' /\ Books(db)' /\ Annals(db)'
    BY <1>9
  <1> QED
    BY <1>14, <1>15, <1>16 DEF BookInv

LEMMA EmptyBookInv ==
    ASSUME History, cursor = 0, restarts = 0, db = EmptyDb
    PROVE  BookInv
  <1>1. cursor \in 0 .. Len(logs) /\ 0 \in cursor .. Len(logs) /\ restarts \in 0 .. MaxRestarts
    BY EventAssumption DEF History, Told, Lined
  <1>2. db.events = {}
    BY DEF EmptyDb
  <1>3. Reached(db, 0)
    BY <1>2 DEF Reached
  <1>4. DbOK(db) /\ Books(db) /\ Annals(db)
    BY EmptyDbOK, EmptyBooks, EmptyAnnals
  <1> QED
    BY <1>1, <1>3, <1>4 DEF BookInv

LEMMA NextBookInv ==
    ASSUME BookInv, [Next]_vars
    PROVE  BookInv'
  <1>1. History'
    BY NextHistory DEF BookInv
  <1>2. CASE cursor' = 0 /\ restarts' = 0 /\ db' = EmptyDb
    <2>1. cursor' \in 0 .. Len(logs') /\ 0 \in cursor' .. Len(logs')
          /\ restarts' \in 0 .. MaxRestarts
      BY <1>1, <1>2, EventAssumption DEF History, Told, Lined
    <2>2. db'.events = {}
      BY <1>2 DEF EmptyDb
    <2>3. Reached(db, 0)'
      BY <2>2 DEF Reached
    <2>4. DbOK(db') /\ Books(db') /\ Annals(db')
      BY <1>2, EmptyDbOK, EmptyBooks, EmptyAnnals
    <2>5. DbOK(db)' /\ Books(db)' /\ Annals(db)'
      BY <2>4
    <2> QED
      BY <1>1, <2>1, <2>3, <2>5 DEF BookInv
  <1>3. CASE Process
    BY <1>1, <1>3, ProcessBooks
  <1>4. CASE /\ db' = db /\ logs' = logs
             /\ \/ cursor' = cursor /\ restarts' = restarts
                \/ /\ cursor' \in 0 .. cursor - 1
                   /\ restarts < MaxRestarts /\ restarts' = restarts + 1
    <2>1. PICK n \in cursor .. Len(logs) : Reached(db, n)
      BY DEF BookInv
    <2>2. /\ cursor \in 0 .. Len(logs) /\ Len(logs) \in Nat /\ restarts \in 0 .. MaxRestarts
          /\ MaxRestarts \in Nat
      BY EventAssumption DEF BookInv, History, Told, Lined
    <2>3. /\ cursor' \in 0 .. Len(logs') /\ n \in cursor' .. Len(logs')
          /\ restarts' \in 0 .. MaxRestarts
      BY <1>4, <2>2
    <2>4. Reached(db, n)'
      BY <1>4, <2>1 DEF Reached
    <2>5. DbOK(db)' /\ Books(db)' /\ Annals(db)'
      BY <1>4 DEF BookInv
    <2> QED
      BY <1>1, <2>3, <2>4, <2>5 DEF BookInv
  <1> QED
    BY <1>2, <1>3, <1>4, ProcessorSteps

LEMMA SpecBookInv == Spec => []BookInv
  <1>1. Init => BookInv
    <2>1. Init => History /\ cursor = 0 /\ restarts = 0 /\ db = EmptyDb
      BY InitHistory DEF Init
    <2> QED
      BY <2>1, EmptyBookInv
  <1>2. BookInv /\ [Next]_vars => BookInv'
    BY NextBookInv
  <1> QED
    BY <1>1, <1>2, PTL DEF Spec

-----------------------------------------------------------------------------
\* The fold.  FoldLeft goes through the sets of positions it still has to do,
\* from the last one down: `g` has what each of them folds to.

FoldAt(ls, g, s) == IF s = {} THEN EmptyDb ELSE Step(g[s \ {Max(s)}], ls[Max(s)])
FoldsTo(ls, g) == g = [s \in SUBSET DOMAIN ls |-> FoldAt(ls, g, s)]

LEMMA HasMax ==
    ASSUME NEW n \in Nat, NEW s \in SUBSET (1 .. n), s # {}
    PROVE  Max(s) \in s /\ \A x \in s : x <= Max(s)
  <1>1. PICK T : T = {n - x : x \in s}
    OBVIOUS
  <1>2. T \in SUBSET Nat /\ T # {}
    <2>1. \A x \in s : n - x \in Nat
      OBVIOUS
    <2>2. PICK x : x \in s
      OBVIOUS
    <2> QED
      BY <1>1, <2>1, <2>2
  <1>3. PICK y \in T : \A z \in T : y <= z
    BY <1>2, LeastNat
  <1>4. PICK x \in s : y = n - x
    BY <1>1
  <1>5. ASSUME NEW z \in s PROVE x >= z
    <2>1. n - x <= n - z
      BY <1>1, <1>3, <1>4
    <2> QED
      BY <2>1
  <1>6. Max(s) \in s /\ \A z \in s : Max(s) >= z
    BY <1>5 DEF Max
  <1> QED
    BY <1>6

LEMMA FoldsExist ==
    ASSUME NEW n \in Nat, NEW ls, DOMAIN ls = 1 .. n
    PROVE  \E g : FoldsTo(ls, g)
  <1> DEFINE Right(g, k) == \A s \in SUBSET (1 .. k) : g[s] = FoldAt(ls, g, s)
             Bad == {k \in Nat : ~ \E g : Right(g, k)}
  <1>1. 0 \notin Bad
    <2> DEFINE g == [s \in {{}} |-> EmptyDb]
    <2>1. Right(g, 0)
      BY DEF FoldAt
    <2> QED
      BY <2>1
  <1>2. ASSUME NEW k \in Nat, k \notin Bad PROVE k + 1 \notin Bad
    <2>1. PICK g : Right(g, k)
      BY <1>2
    <2> DEFINE h == [s \in SUBSET (1 .. k + 1) |-> FoldAt(ls, g, s)]
    <2>2. ASSUME NEW s \in SUBSET (1 .. k + 1) PROVE h[s] = FoldAt(ls, h, s)
      <3>1. CASE s = {}
        BY <3>1 DEF FoldAt
      <3>2. CASE s # {}
        <4>1. PICK m : m = Max(s)
          OBVIOUS
        <4>2. m \in s /\ \A x \in s : x <= m
          <5>1. k + 1 \in Nat
            OBVIOUS
          <5> QED
            BY <3>2, <4>1, <5>1, HasMax
        <4>3. PICK u : u = s \ {m}
          OBVIOUS
        <4>4. u \in SUBSET (1 .. k) /\ u \in SUBSET (1 .. k + 1)
          BY <4>2, <4>3
        <4>5. g[u] = FoldAt(ls, g, u) /\ h[u] = FoldAt(ls, g, u) /\ h[s] = FoldAt(ls, g, s)
          BY <2>1, <4>4
        <4> QED
          BY <3>2, <4>1, <4>3, <4>5 DEF FoldAt
      <3> QED
        BY <3>1, <3>2
    <2>3. Right(h, k + 1)
      BY <2>2
    <2> QED
      BY <2>3
  <1> HIDE DEF Bad
  <1>3. Bad = {}
    <2> SUFFICES ASSUME Bad # {} PROVE FALSE
      OBVIOUS
    <2>1. Bad \in SUBSET Nat
      BY DEF Bad
    <2>2. PICK k \in Bad : \A m \in Bad : k <= m
      BY <2>1, LeastNat
    <2>3. k \in Nat /\ k # 0
      BY <1>1, <2>1
    <2>4. k - 1 \in Nat /\ (k - 1) + 1 = k /\ ~ (k <= k - 1)
      BY <2>3
    <2>5. k - 1 \notin Bad
      BY <2>2, <2>4
    <2> QED
      BY <1>2, <2>4, <2>5
  <1>4. PICK g : Right(g, n)
    BY <1>3 DEF Bad
  <1> DEFINE h == [s \in SUBSET (1 .. n) |-> g[s]]
  <1>5. ASSUME NEW s \in SUBSET (1 .. n) PROVE h[s] = FoldAt(ls, h, s)
    <2>1. g[s] = FoldAt(ls, g, s)
      BY <1>4
    <2>2. s # {} => s \ {Max(s)} \in SUBSET (1 .. n)
      OBVIOUS
    <2> QED
      BY <2>1, <2>2 DEF FoldAt
  <1>6. h = [s \in SUBSET (1 .. n) |-> FoldAt(ls, h, s)]
    BY <1>5
  <1>7. FoldsTo(ls, h)
    BY <1>6 DEF FoldsTo
  <1> QED
    BY <1>7

LEMMA FoldIs ==
    ASSUME NEW n \in Nat, NEW ls, DOMAIN ls = 1 .. n,
           NEW h, h[0] = EmptyDb, \A i \in 1 .. n : h[i] = Step(h[i - 1], ls[i])
    PROVE  FoldLeft(LAMBDA d, log : IF Kept(log) THEN Apply(d, log) ELSE d, EmptyDb, ls) = h[n]
  <1>1. FoldLeft(LAMBDA d, log : IF Kept(log) THEN Apply(d, log) ELSE d, EmptyDb, ls)
          = (CHOOSE g : FoldsTo(ls, g))[DOMAIN ls]
    BY DEF FoldLeft, MapThenFoldSet, FoldsTo, FoldAt, Step
  <1>2. PICK g : FoldsTo(ls, g) /\ g = CHOOSE f : FoldsTo(ls, f)
    BY FoldsExist
  <1>3. PICK Bad : Bad = {k \in 0 .. n : g[1 .. k] # h[k]}
    OBVIOUS
  <1>4. \A s \in SUBSET (1 .. n) : g[s] = FoldAt(ls, g, s)
    BY <1>2 DEF FoldsTo
  <1>5. ASSUME NEW k \in Bad, \A m \in Bad : k <= m PROVE FALSE
    <2>1. k \in 0 .. n /\ g[1 .. k] # h[k]
      BY <1>3
    <2>2. k # 0
      <3>1. 1 .. 0 = {}
        OBVIOUS
      <3>2. g[{}] = EmptyDb
        BY <1>4 DEF FoldAt
      <3> QED
        BY <2>1, <3>1, <3>2
    <2>3. k \in 1 .. n /\ k - 1 \in 0 .. n /\ ~(k <= k - 1)
      BY <2>1, <2>2
    <2>4. g[1 .. k - 1] = h[k - 1]
      BY <1>3, <1>5, <2>3
    <2>5. PICK s : s = 1 .. k
      OBVIOUS
    <2>6. s \in SUBSET (1 .. n) /\ s # {} /\ k \in s /\ \A x \in s : x <= k
      <3>1. \A x \in 1 .. k : x \in 1 .. n /\ x <= k
        BY <2>3
      <3>2. k \in 1 .. k
        BY <2>3
      <3> QED
        BY <2>5, <3>1, <3>2
    <2>7. Max(s) = k
      <3>1. Max(s) \in s /\ \A x \in s : x <= Max(s)
        BY <2>6, HasMax
      <3> QED
        BY <2>3, <2>5, <2>6, <3>1
    <2>8. s \ {k} = 1 .. k - 1
      BY <2>3, <2>5
    <2>9. g[s] = Step(g[1 .. k - 1], ls[k])
      BY <1>4, <2>6, <2>7, <2>8 DEF FoldAt
    <2> QED
      BY <2>1, <2>3, <2>4, <2>5, <2>9
  <1>6. Bad = {}
    <2>1. Bad \in SUBSET Nat
      BY <1>3
    <2> QED
      BY <1>5, <2>1, LeastNat
  <1>7. g[1 .. n] = h[n]
    BY <1>3, <1>6
  <1> QED
    BY <1>1, <1>2, <1>7

-----------------------------------------------------------------------------
\* Replays.  A log is settled when process() will do nothing more for it: its
\* key is there, or a unique index keeps it out, as the launch or the graduation
\* that came second in its transaction.

Settled(d, log) ==
    \/ Key(log) \in d.events
    \/ log.name \in {"TokenCreated", "Graduated"} /\ Conflict(d, log)

LEMMA SettledStays ==
    ASSUME NEW d, NEW log, NEW r, Ties(d, log, r), NEW e, LogOK(e), Settled(d, e)
    PROVE  Settled(r, e)
  <1>1. CASE Key(e) \in d.events
    BY <1>1 DEF Ties, Settled
  <1>2. CASE Key(e) \notin d.events /\ e.name = "TokenCreated"
    <2>1. PICK t \in Tokens : d.token[t] # NoRow /\ (t = e.token \/ d.token[t].tx = e.tx)
      BY <1>2 DEF Settled, Conflict
    <2>2. r.token[t] # NoRow /\ r.token[t].tx = d.token[t].tx
      BY <2>1 DEF Ties
    <2> QED
      BY <1>2, <2>1, <2>2 DEF Settled, Conflict
  <1>3. CASE Key(e) \notin d.events /\ e.name = "Graduated"
    <2>1. PICK t \in Tokens \ {e.token} : d.pool[t] # NoRow /\ d.pool[t].tx = e.tx
      BY <1>3 DEF Settled, Conflict
    <2>2. d.pool[t].tx # NoRow
      BY <2>1, RowAssumption DEF LogOK
    <2>3. r.pool[t] # NoRow /\ r.pool[t].tx = e.tx
      BY <2>1, <2>2 DEF Ties
    <2>4. Known(r, e)
      BY <1>3 DEF Settled, Conflict, Known, Ties
    <2> QED
      BY <1>3, <2>1, <2>3, <2>4 DEF Settled, Conflict
  <1> QED
    BY <1>1, <1>2, <1>3 DEF Settled

LEMMA SettledIs ==
    ASSUME NEW d, NEW log, Settled(d, log)
    PROVE  Apply(d, log) = d
  <1>1. Outcome(d, log) # "processed"
    BY DEF Settled, Outcome
  <1> QED
    BY <1>1, OutcomeIs

\* What the processor goes past is settled.
LEMMA BecomesSettled ==
    ASSUME NEW d, DbOK(d), NEW log, LogOK(log), Kept(log), Outcome(d, log) # "refused"
    PROVE  Settled(Apply(d, log), log)
  <1>1. CASE Outcome(d, log) = "processed"
    BY <1>1, ApplyKeeps DEF Settled
  <1>2. CASE Outcome(d, log) = "duplicate"
    <2>1. Apply(d, log) = d /\ (Key(log) \in d.events \/ Conflict(d, log))
      BY <1>2, OutcomeIs DEF Outcome
    <2> QED
      BY <2>1 DEF Settled, Conflict
  <1> QED
    BY <1>1, <1>2, OutcomeIs

\* The database is what one pass over the first n logs made of an empty one,
\* those are settled, and each that was processed has its key.
OnlyOnce(h, n) ==
    /\ n \in cursor .. Len(logs) /\ Pass(h, logs, n) /\ db = h[n]
    /\ \A i \in 1 .. n : Kept(logs[i]) =>
        /\ Settled(db, logs[i])
        /\ Outcome(h[i - 1], logs[i]) = "processed" => Key(logs[i]) \in db.events

ReplayInv == BookInv /\ \E h : \E n : OnlyOnce(h, n)

LEMMA ProcessOnce ==
    ASSUME ReplayInv, Process, BookInv'
    PROVE  ReplayInv'
  <1>1. PICK h, n : OnlyOnce(h, n)
    BY DEF ReplayInv
  <1>2. PICK log : log = logs[cursor + 1]
    OBVIOUS
  <1>3. /\ cursor \in Nat /\ Len(logs) \in Nat /\ n \in Nat /\ n <= Len(logs) /\ cursor <= n
        /\ cursor < Len(logs) /\ cursor' = cursor + 1 /\ logs' = logs
    BY <1>1 DEF ReplayInv, BookInv, History, Told, Lined, Process, chain, OnlyOnce
  <1>4. DbOK(db) /\ \A i \in 1 .. Len(logs) : LogOK(logs[i]) /\ Sourced(logs[i])
    BY DEF ReplayInv, BookInv, History, Told, Lined
  <1>5. cursor + 1 \in 1 .. Len(logs) /\ LogOK(log) /\ Sourced(log)
    BY <1>2, <1>3, <1>4
  <1>6. \/ ~Kept(log) /\ db' = db
        \/ Kept(log) /\ Outcome(db, log) # "refused" /\ db' = Apply(db, log)
    BY <1>2 DEF Process
  <1>7. CASE cursor < n
    <2>1. cursor + 1 \in 1 .. n
      BY <1>3, <1>7
    <2>2. Kept(log) => Settled(db, log)
      BY <1>1, <1>2, <2>1 DEF OnlyOnce
    <2>3. db' = db
      BY <1>6, <2>2, SettledIs
    <2>4. n \in cursor' .. Len(logs')
      BY <1>3, <1>7
    <2>5. OnlyOnce(h, n)'
      BY <1>1, <1>3, <2>3, <2>4 DEF OnlyOnce, Pass
    <2> QED
      BY <2>5 DEF ReplayInv
  <1>8. CASE cursor = n
    <2>1. PICK g : g = [i \in 0 .. n + 1 |-> IF i = n + 1 THEN db' ELSE h[i]]
      OBVIOUS
    <2>2. PICK k : k = n + 1
      OBVIOUS
    <2>3. /\ k \in Nat /\ k \in 1 .. Len(logs) /\ k \in cursor' .. Len(logs') /\ k - 1 = n
          /\ log = logs[k] /\ 0 # k /\ 0 \in 0 .. k /\ k \in 0 .. k /\ n \in 0 .. k /\ n # k
          /\ \A i \in 1 .. k : i \in 1 .. n \/ i = k
          /\ \A i \in 1 .. n : /\ i \in 0 .. k /\ i # k /\ i - 1 \in 0 .. k /\ i - 1 # k
                               /\ i \in 1 .. Len(logs)
      BY <1>2, <1>3, <1>8, <2>2
    <2>4. /\ g[0] = EmptyDb /\ g[k] = db' /\ g[k - 1] = db
          /\ \A i \in 1 .. n : g[i] = h[i] /\ g[i - 1] = h[i - 1]
      <3>1. h[0] = EmptyDb /\ db = h[n]
        BY <1>1 DEF OnlyOnce, Pass
      <3>2. g = [i \in 0 .. k |-> IF i = k THEN db' ELSE h[i]]
        BY <2>1, <2>2
      <3> QED
        BY <2>3, <3>1, <3>2
    <2>5. db' = Step(db, log) /\ (Kept(log) => Outcome(db, log) # "refused")
      BY <1>6 DEF Step
    <2>6. Pass(g, logs, k)
      <3>1. \A i \in 1 .. n : /\ h[i] = Step(h[i - 1], logs[i])
                              /\ Kept(logs[i]) => Outcome(h[i - 1], logs[i]) # "refused"
        BY <1>1 DEF OnlyOnce, Pass
      <3> QED
        BY <2>3, <2>4, <2>5, <3>1 DEF Pass
    <2>7. Ties(db, log, db') /\ (Outcome(db, log) = "processed" /\ Kept(log) => Key(log) \in db'.events)
      <3>1. Live(db)
        <4>1. Lined(logs, txs) /\ n \in 0 .. Len(logs) /\ Pass(h, logs, n) /\ db = h[n]
          BY <1>1, <1>3 DEF ReplayInv, BookInv, History, Told, OnlyOnce
        <4>2. Sound(h[n], logs, n)
          BY <4>1, PassSound
        <4> QED
          BY <4>1, <4>2 DEF Sound
      <3>2. CASE ~Kept(log) /\ db' = db
        BY <3>1, <3>2, TiesStay
      <3>3. CASE Kept(log) /\ db' = Apply(db, log)
        BY <1>4, <1>5, <3>1, <3>3, ApplyTies, Processed
      <3> QED
        BY <1>6, <3>2, <3>3
    <2>8. Kept(log) => Settled(db', log)
      BY <1>4, <1>5, <1>6, BecomesSettled
    <2>9. ASSUME NEW i \in 1 .. k, Kept(logs[i])
          PROVE  /\ Settled(db', logs[i])
                 /\ Outcome(g[i - 1], logs[i]) = "processed" => Key(logs[i]) \in db'.events
      <3>1. CASE i \in 1 .. n
        <4>1. /\ Settled(db, logs[i])
              /\ Outcome(h[i - 1], logs[i]) = "processed" => Key(logs[i]) \in db.events
          BY <1>1, <2>9, <3>1 DEF OnlyOnce
        <4>2. db.events \subseteq db'.events
          BY <2>7 DEF Ties
        <4>3. LogOK(logs[i]) /\ g[i - 1] = h[i - 1]
          BY <1>4, <2>3, <2>4, <3>1
        <4> QED
          BY <2>7, <4>1, <4>2, <4>3, SettledStays
      <3>2. CASE i = k
        BY <2>3, <2>4, <2>7, <2>8, <2>9, <3>2
      <3> QED
        BY <2>3, <3>1, <3>2
    <2>10. OnlyOnce(g, k)'
      BY <1>3, <2>3, <2>4, <2>6, <2>9 DEF OnlyOnce, Pass
    <2> QED
      BY <2>10 DEF ReplayInv
  <1> QED
    BY <1>3, <1>7, <1>8

LEMMA NextReplayInv ==
    ASSUME ReplayInv, [Next]_vars
    PROVE  ReplayInv'
  <1>1. BookInv'
    BY NextBookInv DEF ReplayInv
  <1>2. CASE cursor' = 0 /\ restarts' = 0 /\ db' = EmptyDb
    <2>1. PICK h : h = [i \in {0} |-> EmptyDb]
      OBVIOUS
    <2>2. 0 \in cursor' .. Len(logs')
      BY <1>1, <1>2 DEF BookInv
    <2>3. OnlyOnce(h, 0)'
      BY <1>2, <2>1, <2>2 DEF OnlyOnce, Pass
    <2> QED
      BY <1>1, <2>3 DEF ReplayInv
  <1>3. CASE Process
    BY <1>1, <1>3, ProcessOnce
  <1>4. CASE /\ db' = db /\ logs' = logs
             /\ \/ cursor' = cursor /\ restarts' = restarts
                \/ /\ cursor' \in 0 .. cursor - 1
                   /\ restarts < MaxRestarts /\ restarts' = restarts + 1
    <2>1. PICK h, n : OnlyOnce(h, n)
      BY DEF ReplayInv
    <2>2. n \in cursor .. Len(logs) /\ cursor \in 0 .. Len(logs) /\ Len(logs) \in Nat
      BY <2>1 DEF ReplayInv, BookInv, History, Told, Lined, OnlyOnce
    <2>3. n \in cursor' .. Len(logs')
      BY <1>4, <2>2
    <2>4. OnlyOnce(h, n)'
      BY <1>4, <2>1, <2>3 DEF OnlyOnce, Pass
    <2> QED
      BY <1>1, <2>4 DEF ReplayInv
  <1> QED
    BY <1>2, <1>3, <1>4, ProcessorSteps

LEMMA SpecReplayInv == Spec => []ReplayInv
  <1>1. Init => ReplayInv
    <2> SUFFICES ASSUME Init PROVE ReplayInv
      OBVIOUS
    <2>1. History /\ cursor = 0 /\ restarts = 0 /\ db = EmptyDb
      BY InitHistory DEF Init
    <2>2. BookInv
      BY <2>1, EmptyBookInv
    <2>3. PICK h : h = [i \in {0} |-> EmptyDb]
      OBVIOUS
    <2>4. 0 \in cursor .. Len(logs)
      BY <2>1, <2>2 DEF BookInv
    <2>5. OnlyOnce(h, 0)
      BY <2>1, <2>3, <2>4 DEF OnlyOnce, Pass
    <2> QED
      BY <2>2, <2>5 DEF ReplayInv
  <1>2. ReplayInv /\ [Next]_vars => ReplayInv'
    BY NextReplayInv
  <1> QED
    BY <1>1, <1>2, PTL DEF Spec

\* What History says of a log the runner has gone past, or stands before.
LEMMA PassedLog ==
    ASSUME ReplayInv, NEW h, NEW n, OnlyOnce(h, n), NEW i \in 1 .. n, Kept(logs[i]),
           Key(logs[i]) \notin db.events
    PROVE  /\ logs[i].name \in {"TokenCreated", "Graduated"} /\ Genuine(logs[i])
           /\ logs[i].token \in Overlooked
  <1>1. n \in Nat /\ n <= Len(logs) /\ Len(logs) \in Nat
    BY DEF ReplayInv, BookInv, History, Told, Lined, OnlyOnce
  <1>2. PICK k : k = i - 1
    OBVIOUS
  <1>3. k \in 0 .. Len(logs) - 1 /\ k + 1 = i /\ \A j \in 1 .. k : j \in 1 .. n
    BY <1>1, <1>2
  <1>4. Pass(h, logs, n)
    BY DEF OnlyOnce
  <1>5. Pass(h, logs, k) /\ Outcome(h[k], logs[i]) # "refused"
    BY <1>2, <1>3, <1>4 DEF Pass
  <1>6. Accounted(h[k], logs[k + 1], OverlookedIn(logs), moved)
    BY <1>3, <1>5 DEF ReplayInv, BookInv, History, Told
  <1>7. Outcome(h[k], logs[i]) # "processed"
    BY <1>2 DEF OnlyOnce
  <1>8. OverlookedIn(logs) = Overlooked
    BY DEF OverlookedIn, Overlooked
  <1> QED
    BY <1>3, <1>5, <1>6, <1>7, <1>8 DEF Accounted

-----------------------------------------------------------------------------
\* What follows.

\* Every row of a token, a pool, a balance and the statistics keeps the shape
\* of its columns (schema.prisma), balances never go below zero, and no trade
\* or fee is there without the key of its log.
THEOREM TypeCorrect == Spec => []TypeOK
  <1>1. BookInv => TypeOK
    BY DEF BookInv, History, TypeOK, DbOK, Typed, Linked, Markets, Balances
  <1> QED
    BY <1>1, SpecBookInv, PTL

\* Replays are invisible: whatever the runner hands in again after a restart,
\* and whichever logs lost to another one's unique index, the database is the
\* fold of process() over a prefix of the logs, no shorter than what the runner
\* has gone past.
THEOREM ReplaysAreInvisible == Spec => []OncePerLog
  <1>1. ReplayInv => OncePerLog
    <2> SUFFICES ASSUME ReplayInv PROVE OncePerLog
      OBVIOUS
    <2>1. PICK h, n : OnlyOnce(h, n)
      BY DEF ReplayInv
    <2>2. /\ n \in cursor .. Len(logs) /\ cursor \in Nat /\ Len(logs) \in Nat
          /\ logs \in Seq(LogRecord)
      BY <2>1 DEF OnlyOnce, ReplayInv, BookInv, History, Told, Lined
    <2>3. PICK ls : ls = SubSeq(logs, 1, n)
      OBVIOUS
    <2>4. n \in Nat /\ \A i \in 1 .. n : i \in 1 .. Len(logs) /\ logs[i] \in LogRecord
      <3>1. n \in Nat /\ \A i \in 1 .. n : i \in 1 .. Len(logs)
        BY <2>2
      <3> QED
        BY <2>2, <3>1
    <2>5. DOMAIN ls = 1 .. n /\ \A i \in 1 .. n : ls[i] = logs[i]
      <3>1. /\ ls \in Seq(LogRecord) /\ Len(ls) = IF 1 <= n THEN n - 1 + 1 ELSE 0
            /\ \A i \in 1 .. n - 1 + 1 : ls[i] = logs[1 + i - 1]
        BY <2>3, <2>4, SubSeqProperties
      <3>2. n - 1 + 1 = n /\ Len(ls) = n /\ \A i \in 1 .. n : 1 + i - 1 = i
        BY <2>4, <3>1
      <3>3. DOMAIN ls = 1 .. Len(ls)
        BY <3>1
      <3> QED
        BY <3>1, <3>2, <3>3
    <2>6. h[0] = EmptyDb /\ db = h[n] /\ \A i \in 1 .. n : h[i] = Step(h[i - 1], ls[i])
      BY <2>1, <2>5 DEF OnlyOnce, Pass
    <2>7. db = FoldLeft(LAMBDA d, log : IF Kept(log) THEN Apply(d, log) ELSE d, EmptyDb, ls)
      BY <2>4, <2>5, <2>6, FoldIs, ZenonT(60)
    <2> QED
      BY <2>2, <2>3, <2>7 DEF OncePerLog
  <1> QED
    BY <1>1, SpecReplayInv, PTL

\* process() answers "duplicate" to whatever unique index refuses an insert;
\* still no log the runner has gone past lacks its row in indexed_events, but
\* the launch or the graduation of a token that is not the first to be launched,
\* or to graduate, in one transaction.
THEOREM NothingIsSkipped == Spec => []DuplicateIsIndexed
  <1>1. ReplayInv => DuplicateIsIndexed
    <2> SUFFICES ASSUME ReplayInv, NEW i \in 1 .. cursor, Kept(logs[i]),
                        Key(logs[i]) \notin db.events
                 PROVE  /\ logs[i].name \in {"TokenCreated", "Graduated"}
                        /\ logs[i].token \in Overlooked
      BY DEF DuplicateIsIndexed
    <2>1. PICK h, n : OnlyOnce(h, n)
      BY DEF ReplayInv
    <2>2. i \in 1 .. n
      BY <2>1 DEF ReplayInv, BookInv, History, Told, Lined, OnlyOnce
    <2> QED
      BY <2>1, <2>2, PassedLog
  <1> QED
    BY <1>1, SpecReplayInv, PTL

\* The runner stops before a log of PumpNow's contracts only over an overlooked
\* token or a wallet whose tokens moved without a log, and before a stranger's
\* only if it names a token of PumpNow's or cannot be decoded: in no history
\* does the order of the contracts' own events stop it.
THEOREM OnlyMovesAreRefused == Spec => []RefusesOnlyMoved
  <1>1. ReplayInv => RefusesOnlyMoved
    <2> SUFFICES ASSUME ReplayInv, NEW i \in {cursor + 1} \cap DOMAIN logs, Kept(logs[i]),
                        Outcome(db, logs[i]) = "refused"
                 PROVE  Excused(logs[i], Overlooked, moved)
      BY DEF RefusesOnlyMoved, Refuses, Excused
    <2>1. PICK h, n : OnlyOnce(h, n)
      BY DEF ReplayInv
    <2>2. /\ i = cursor + 1 /\ cursor \in Nat /\ n \in Nat /\ cursor <= n /\ n <= Len(logs)
          /\ Len(logs) \in Nat /\ i <= Len(logs)
      BY <2>1 DEF ReplayInv, BookInv, History, Told, Lined, OnlyOnce
    <2>3. CASE n = cursor
      <3>1. n \in 0 .. Len(logs) - 1 /\ i = n + 1
        BY <2>2, <2>3
      <3>2. Pass(h, logs, n) /\ db = h[n]
        BY <2>1 DEF OnlyOnce
      <3>3. Accounted(db, logs[i], OverlookedIn(logs), moved)
        BY <3>1, <3>2 DEF ReplayInv, BookInv, History, Told
      <3>4. OverlookedIn(logs) = Overlooked
        BY DEF OverlookedIn, Overlooked
      <3> QED
        BY <3>3, <3>4 DEF Accounted
    <2>4. CASE cursor < n
      <3>1. i \in 1 .. n
        BY <2>2, <2>4
      <3>2. Key(logs[i]) \notin db.events
        BY OutcomeIs
      <3> QED
        BY <2>1, <3>1, <3>2, PassedLog DEF Excused
    <2> QED
      BY <2>2, <2>3, <2>4
  <1> QED
    BY <1>1, SpecReplayInv, PTL

\* When every log is processed the database tells the truth about the chain:
\* status, reserves and address of each market whose launch and graduation were
\* not overlooked, and each wallet's balance in it unless its tokens also moved
\* without a log.
THEOREM DatabaseMirrorsChain == Spec => []MirrorsChain
  <1>1. ReplayInv => MirrorsChain
    <2> SUFFICES ASSUME ReplayInv, cursor = Len(logs), NEW t \in Tokens \ Overlooked
                 PROVE  /\ curve[t] = NoRow <=> db.token[t] = NoRow
                        /\ curve[t] # NoRow =>
                            /\ db.pool[t].quote = curve[t].native
                            /\ db.pool[t].tokens = IF Graduated(t) THEN curve[t].pool
                                                   ELSE Supply - curve[t].sold
                            /\ db.pool[t].address = IF Graduated(t) THEN Pool(t) ELSE Pair(t)
                            /\ db.token[t].status = "GRADUATED" <=> Graduated(t)
                            /\ \A w \in Wallets :
                                 <<t, w>> \in moved \/ db.holder[t][w] = balance[t][w]
      BY DEF MirrorsChain
    <2>1. PICK h, n : OnlyOnce(h, n)
      BY DEF ReplayInv
    <2>2. n = Len(logs) /\ db = h[n] /\ Pass(h, logs, n)
      BY <2>1 DEF ReplayInv, BookInv, History, Told, Lined, OnlyOnce
    <2>3. Mirrors(db, curve, balance, moved, OverlookedIn(logs))
      BY <2>2 DEF ReplayInv, BookInv, History, Told
    <2>4. OverlookedIn(logs) = Overlooked
      BY DEF OverlookedIn, Overlooked
    <2>5. MirrorsOne(db, curve, balance, moved, t)
      BY <2>3, <2>4 DEF Mirrors
    <2>6. Graduated(t) <=> curve[t] # NoRow /\ curve[t].pool # NoRow
      BY DEF Graduated
    <2> QED
      BY <2>5, <2>6 DEF MirrorsOne
  <1> QED
    BY <1>1, SpecReplayInv, PTL

\* The counters kept by increments, of each token and of the platform, are the
\* numbers of the rows they summarise and the volumes and fees are their sums,
\* whatever is replayed and whatever is ignored (what scripts/stress-audit.mjs
\* asks of the database after a run).
THEOREM CountersAreCounts == Spec => []CountsMatchRows
  <1>1. BookInv => CountsMatchRows
    <2> SUFFICES ASSUME BookInv PROVE CountsMatchRows
      OBVIOUS
    <2>1. Books(db)
      BY DEF BookInv
    <2>2. DuplicateTrades(db) = {}
      BY <2>1 DEF DuplicateTrades, Books, TradeRows
    <2>3. ASSUME NEW t \in Tokens, db.token[t] # NoRow
          PROVE  /\ db.token[t].trades = Cardinality(RowsOf(t, db))
                 /\ db.token[t].volume = SumOver(RowsOf(t, db), QuoteOf)
                 /\ db.token[t].holders = Cardinality({w \in Wallets : db.holder[t][w] > 0})
      BY <2>1, <2>3 DEF Books, TokenBook, Counts, Holding
    <2>4. CounterMismatches(db) = {}
      BY <2>3 DEF CounterMismatches
    <2>5. PICK created : created = Created(db)
      OBVIOUS
    <2>6. PICK left : left = Left(db)
      OBVIOUS
    <2>7. /\ created = {t \in Tokens : db.token[t] # NoRow}
          /\ left = {t \in created : db.token[t].status = "GRADUATED"}
      BY <2>5, <2>6 DEF Created, Left
    <2>8. /\ db.stats.tokens = Cardinality(created) /\ db.stats.graduated = Cardinality(left)
          /\ db.stats.bonding = Cardinality(created \ left)
      BY <2>1, <2>5, <2>6 DEF Books, MarketCounts
    <2>9. \A t \in created : db.token[t].volume = SumOver(RowsOf(t, db), QuoteOf)
      BY <2>3, <2>7
    <2>10. PlatformSums(db)
      BY <2>1 DEF Books
    <2> QED
      BY <2>2, <2>4, <2>7, <2>8, <2>9, <2>10 DEF CountsMatchRows, PlatformSums
  <1> QED
    BY <1>1, SpecBookInv, PTL

\* A token's circulatingSupply is what its holders hold together, though a
\* trade on the curve computes it from the row it read and one at a pool by
\* increment, and the progress is that of the circulation until graduation.
THEOREM HoldersHoldCirculation == Spec => []CirculationIsHeld
  <1>1. BookInv => CirculationIsHeld
    BY DEF BookInv, Books, TokenBook, Circulation, Advance, CirculationIsHeld
  <1> QED
    BY <1>1, SpecBookInv, PTL

\* uniqueTraders counts each wallet once, and only if its first trade, of all its
\* trades of any token, was on a curve: trade() increments it when it finds no
\* other row of the wallet, dexTrade() never.
THEOREM TradersAreCountedOnCurves == Spec => []TradersStartOnACurve
  <1>1. BookInv => TradersStartOnACurve
    BY DEF BookInv, Annals, Starters, TradersStartOnACurve
  <1> QED
    BY <1>1, SpecBookInv, PTL

\* Each candle is the summary of the trades of its token and interval, from
\* the first of them to the last, and each trade is in one candle of every
\* length (upsertCandles), though a candle is only ever adjusted by the trade
\* that is being recorded.
THEOREM CandlesSummarise == Spec => []CandlesMatchTrades
  <1>1. BookInv => CandlesMatchTrades
    <2> SUFFICES ASSUME BookInv PROVE CandlesMatchTrades
      OBVIOUS
    <2>1. /\ DOMAIN db.candles = CandlesOf(db.trades)
          /\ \A k \in DOMAIN db.candles : Summary(InCandle(db.trades, k), db.candles[k])
      BY DEF BookInv, Annals, CandleBook
    <2>2. \A k : TradesIn(db, k[1], k[2], k[3]) = InCandle(db.trades, k)
      BY DEF TradesIn, InCandle
    <2>3. CandleMismatches(db) = {}
      <3>1. {<<i, x.token, OpenTime(x.key[1], i)>> : i \in Intervals, x \in db.trades}
              = DOMAIN db.candles
        BY <2>1 DEF CandlesOf, CandleKey
      <3>2. \A k \in DOMAIN db.candles :
              db.candles[k].count = Cardinality(TradesIn(db, k[1], k[2], k[3]))
        BY <2>1, <2>2 DEF Summary
      <3> QED
        BY <3>1, <3>2 DEF CandleMismatches
    <2>4. ASSUME NEW k \in DOMAIN db.candles, NEW rows, rows = InCandle(db.trades, k)
          PROVE  /\ db.candles[k].high = Max({x.price : x \in rows})
                 /\ db.candles[k].low = Min({x.price : x \in rows})
      <3>1. PICK prices : prices = {x.price : x \in rows}
        OBVIOUS
      <3>2. Summary(rows, db.candles[k])
        BY <2>1, <2>4
      <3>3. prices \subseteq Nat
        BY <2>4, <3>1 DEF BookInv, Annals, CandleBook, InCandle
      <3>4. /\ db.candles[k].high \in prices /\ \A p \in prices : p <= db.candles[k].high
            /\ db.candles[k].low \in prices /\ \A p \in prices : db.candles[k].low <= p
        BY <3>1, <3>2 DEF Summary
      <3> QED
        BY <3>1, <3>3, <3>4, Extremes
    <2>5. ASSUME NEW k \in DOMAIN db.candles, NEW rows, rows = InCandle(db.trades, k)
          PROVE  /\ \E x \in rows : /\ db.candles[k].open = x.price
                                    /\ \A y \in rows : x = y \/ Prior(x, y)
                 /\ \E x \in rows : /\ db.candles[k].close = x.price
                                    /\ \A y \in rows : x = y \/ Prior(y, x)
                 /\ db.candles[k].volume = SumOver(rows, QuoteOf)
      BY <2>1, <2>5 DEF Summary
    <2>6. \A k \in DOMAIN db.candles :
            LET rows   == TradesIn(db, k[1], k[2], k[3])
                prices == {x.price : x \in rows}
                row    == db.candles[k]
            IN  /\ \E x \in rows : row.open = x.price /\ \A y \in rows : x = y \/ Prior(x, y)
                /\ \E x \in rows : row.close = x.price /\ \A y \in rows : x = y \/ Prior(y, x)
                /\ row.high = Max(prices) /\ row.low = Min(prices)
                /\ row.volume = SumOver(rows, QuoteOf)
      BY <2>2, <2>4, <2>5
    <2> QED
      BY <2>3, <2>6 DEF CandlesMatchTrades
  <1> QED
    BY <1>1, SpecBookInv, PTL

=============================================================================
