--------------------------- MODULE LaunchpadProofs ---------------------------
(***************************************************************************)
(* Safety of the contracts together, for every number of users and tokens, *)
(* every supply, target, pair of virtual reserves, fee and USDC scale, and *)
(* in every order in which owner, deployer and traders act.                *)
(*                                                                         *)
(* The inductive invariant says of each token what its pair and its pool   *)
(* record, what they really hold, and how far its life has come: no pool   *)
(* of its own before graduation once the adapter is the pool creator, no   *)
(* position before graduation, and a locked pool after it.  Custody needs  *)
(* the stages (a pool is seeded once, so that what it holds beforehand is  *)
(* nothing) and the stages need custody (a completing purchase brings what *)
(* the adapter asks for), so that neither is inductive alone.              *)
(***************************************************************************)
EXTENDS Launchpad, PumpDexProofs

PairInv(t) ==
    /\ pair[t].sold <= pair[t].target
    /\ pair[t].active <=> pair[t].sold < pair[t].target
    /\ ~pair[t].active => pair[t].reserve = 0
    /\ native[Pair(t)] = pair[t].reserve
    /\ pair[t].active => tokens[t][Pair(t)] >= Supply - pair[t].sold

PoolInv(t) ==
    /\ poolCreator # None
    /\ poolCreator = DexAdapter => Graduated(t)
    /\ pool[t].shares = 0 => pool[t].tokenReserve = 0 /\ pool[t].nativeReserve = 0
    /\ native[Pool(t)] = pool[t].nativeReserve
    /\ tokens[t][Pool(t)] >= pool[t].tokenReserve

Locked(t) ==
    /\ pool[t] # None /\ pool[t].owner = Lock /\ pool[t].shares # 0
    /\ pool[t].seed # 2 => IsRoot(pool[t].seed, pool[t].shares)

TokenInv(t) ==
    /\ pair[t] = None => native[Pair(t)] = 0
    /\ pair[t] # None => PairInv(t)
    /\ pool[t] = None => native[Pool(t)] = 0
    /\ pool[t] # None => PoolInv(t)
    /\ position[t] # None => Graduated(t) /\ pair[t].adapter = ArcAdapter
    /\ Graduated(t) /\ pair[t].adapter = DexAdapter => Locked(t)

AdaptersInv == native[ArcAdapter] = nativeDust /\ native[DexAdapter] = 0

IInv == TypeOK /\ AdaptersInv /\ \A t \in Tokens : TokenInv(t)

\* What no step changes of a pair that is open.
TermsKept(t) ==
    pair'[t] # None /\ pair'[t].adapter = pair[t].adapter /\ pair'[t].target = pair[t].target

-----------------------------------------------------------------------------
(* Addresses and ledgers.                                                  *)

LEMMA Addresses ==
    /\ \A t \in Tokens : /\ Pair(t) \in Accounts /\ Pool(t) \in Accounts
                         /\ Pair(t) \notin Adapters /\ Pool(t) \notin Adapters
    /\ \A s, t \in Tokens : /\ Pair(s) # Pool(t)
                            /\ s # t => Pair(s) # Pair(t) /\ Pool(s) # Pool(t)
    /\ \A u \in Outside : /\ u \in Accounts /\ u \notin Adapters
                          /\ \A t \in Tokens : u # Pair(t) /\ u # Pool(t)
    /\ Adapters \subseteq Accounts /\ DexAdapter # ArcAdapter
    /\ DexAdapter \in Adapters /\ ArcAdapter \in Adapters
    /\ Users \subseteq Outside /\ Treasury \in Outside /\ PositionManager \in Outside
    /\ Operator \in Outside
    /\ None \notin Accounts
  <1>1. \A t \in Tokens : Pair(t) \in OfTokens /\ Pool(t) \in OfTokens
    BY DEF OfTokens
  <1>2. \A s, t \in Tokens : Pair(s) # Pool(t)
    BY DEF Pair, Pool
  <1>3. \A s, t \in Tokens : s # t => Pair(s) # Pair(t) /\ Pool(s) # Pool(t)
    BY DEF Pair, Pool
  <1> QED
    BY <1>1, <1>2, <1>3, AddressAssumption DEF Accounts, Outside, Adapters

\* A covered payment moves the amount and touches nobody else.
LEMMA MoveEffect ==
    ASSUME NEW S, NEW book \in [S -> Nat], NEW from \in S, NEW to \in S,
           NEW amount \in Nat, amount <= book[from]
    PROVE  /\ Move(book, from, to, amount) \in [S -> Nat]
           /\ from # to => /\ Move(book, from, to, amount)[from] = book[from] - amount
                           /\ Move(book, from, to, amount)[to] = book[to] + amount
           /\ from = to => \A x \in S : Move(book, from, to, amount)[x] = book[x]
           /\ \A x \in S : x # from /\ x # to => Move(book, from, to, amount)[x] = book[x]
  <1> DEFINE debited == [book EXCEPT ![from] = @ - amount]
             m == Move(book, from, to, amount)
  <1>1. debited \in [S -> Nat] /\ \A x \in S : debited[x] = IF x = from THEN book[x] - amount ELSE book[x]
    OBVIOUS
  <1>2. m = [debited EXCEPT ![to] = @ + amount]
    BY DEF Move
  <1> HIDE DEF debited, m
  <1>3. m \in [S -> Nat] /\ \A x \in S : m[x] = IF x = to THEN debited[x] + amount ELSE debited[x]
    BY <1>1, <1>2
  <1> QED
    BY <1>1, <1>3 DEF m

Books == [Tokens -> [Accounts -> Nat]]

\* The same for one token of the ledgers of all of them: what MoveToken makes of
\* `before`.
Moved(before, after, t, from, to, amount) ==
    /\ after \in Books
    /\ from # to => /\ after[t][from] = before[t][from] - amount
                    /\ after[t][to] = before[t][to] + amount
    /\ from = to => \A x \in Accounts : after[t][x] = before[t][x]
    /\ \A x \in Accounts : x # from /\ x # to => after[t][x] = before[t][x]
    /\ \A s \in Tokens : s # t => after[s] = before[s]

LEMMA MoveTokenEffect ==
    ASSUME NEW book \in Books, NEW t \in Tokens, NEW from \in Accounts, NEW to \in Accounts,
           NEW amount \in Nat, amount <= book[t][from]
    PROVE  Moved(book, MoveToken(book, t, from, to, amount), t, from, to, amount)
  <1> DEFINE m == Move(book[t], from, to, amount)
  <1>1. book[t] \in [Accounts -> Nat]
    BY DEF Books
  <1>2. /\ m \in [Accounts -> Nat]
        /\ from # to => m[from] = book[t][from] - amount /\ m[to] = book[t][to] + amount
        /\ from = to => \A x \in Accounts : m[x] = book[t][x]
        /\ \A x \in Accounts : x # from /\ x # to => m[x] = book[t][x]
    BY <1>1, MoveEffect
  <1>3. MoveToken(book, t, from, to, amount) = [book EXCEPT ![t] = m]
    BY DEF MoveToken
  <1> HIDE DEF m
  <1> QED
    BY <1>2, <1>3 DEF Books, Moved

LEMMA LedgerTypes ==
    ASSUME IInv
    PROVE  /\ tokens \in Books /\ native \in [Accounts -> Nat]
           /\ \A t \in Tokens, x \in Accounts : tokens[t][x] \in Nat
           /\ \A x \in Accounts : native[x] \in Nat
  BY DEF IInv, TypeOK, Books

-----------------------------------------------------------------------------
\* A token whose contracts do not change keeps its invariant, also when its
\* pair or its pool is sent tokens.
LEMMA Untouched ==
    ASSUME IInv, TypeOK', NEW t \in Tokens,
           pair'[t] = pair[t], pool'[t] = pool[t], position'[t] = position[t],
           poolCreator' = poolCreator,
           native'[Pair(t)] = native[Pair(t)], native'[Pool(t)] = native[Pool(t)],
           tokens'[t][Pair(t)] >= tokens[t][Pair(t)], tokens'[t][Pool(t)] >= tokens[t][Pool(t)]
    PROVE  TokenInv(t)'
  <1>1. TokenInv(t)
    BY DEF IInv
  <1>2. /\ tokens[t][Pair(t)] \in Nat /\ tokens'[t][Pair(t)] \in Nat
        /\ tokens[t][Pool(t)] \in Nat /\ tokens'[t][Pool(t)] \in Nat
    BY Addresses DEF IInv, TypeOK
  <1>3. pair[t] # None => /\ PairInv(t)'
    <2> HAVE pair[t] # None
    <2>1. PairInv(t)
      BY <1>1 DEF TokenInv
    <2>2. pair[t].sold \in Nat /\ Supply \in Nat
      BY LaunchAssumption DEF IInv, TypeOK, PairRecord
    <2> QED
      BY <1>2, <2>1, <2>2 DEF PairInv
  <1>4. pool[t] # None => PoolInv(t)'
    <2> HAVE pool[t] # None
    <2>1. PoolInv(t)
      BY <1>1 DEF TokenInv
    <2>2. pool[t].tokenReserve \in Nat
      BY DEF IInv, TypeOK, PoolRecord
    <2> QED
      BY <1>2, <2>1, <2>2 DEF PoolInv, Graduated
  <1>5. Locked(t) => Locked(t)'
    BY DEF Locked
  <1> QED
    BY <1>1, <1>3, <1>4, <1>5 DEF TokenInv, Graduated

LEMMA InitInv == Init => IInv
  <1> SUFFICES ASSUME Init PROVE IInv
    OBVIOUS
  <1>1. TypeOK
    BY LaunchAssumption, Addresses DEF Init, TypeOK
  <1>2. \A t \in Tokens : native[Pair(t)] = 0 /\ native[Pool(t)] = 0
    BY Addresses DEF Init
  <1>3. AdaptersInv
    BY Addresses DEF Init, AdaptersInv
  <1>4. \A t \in Tokens : TokenInv(t)
    BY <1>2, Addresses DEF Init, TokenInv, Graduated
  <1> QED
    BY <1>1, <1>3, <1>4 DEF IInv

-----------------------------------------------------------------------------
(* Administration.                                                         *)

LEMMA AdministrationInv ==
    ASSUME IInv,
           \/ \E a \in Adapters : SetFactory(a) \/ SetDexAdapter(a)
           \/ \E n \in Targets : SetGraduationBps(n)
    PROVE  IInv'
  <1>1. /\ UNCHANGED <<poolCreator, pair, pool, position, v3Price, nativeDust, tokens, native>>
        /\ dexAdapter' \in Adapters /\ target' \in Targets
        /\ factoryOf' \in [Adapters -> BOOLEAN]
    BY DEF IInv, TypeOK, SetFactory, SetDexAdapter, SetGraduationBps, ledger
  <1> QED
    BY <1>1 DEF IInv, TypeOK, AdaptersInv, TokenInv, PairInv, PoolInv, Locked, Graduated

\* There is no pool before the creator of pools is set.
LEMMA SetPoolCreatorInv ==
    ASSUME IInv, NEW c \in {DexAdapter, Operator}, SetPoolCreator(c)
    PROVE  IInv'
  <1>1. /\ poolCreator = None /\ poolCreator' = c
        /\ UNCHANGED <<dexAdapter, target, factoryOf, pair, pool, position, v3Price, nativeDust, tokens, native>>
    BY DEF SetPoolCreator, ledger
  <1>2. TypeOK'
    BY <1>1 DEF IInv, TypeOK
  <1>3. ASSUME NEW t \in Tokens PROVE TokenInv(t)'
    <2>1. TokenInv(t)
      BY DEF IInv
    <2>2. pool[t] = None
      BY <1>1, <2>1 DEF TokenInv, PoolInv
    <2> QED
      BY <1>1, <2>1, <2>2 DEF TokenInv, PairInv, Locked, Graduated
  <1> QED
    BY <1>1, <1>2, <1>3 DEF IInv, AdaptersInv

LEMMA CreateTokenInv ==
    ASSUME IInv, NEW t \in Tokens, NEW usdcFirst \in BOOLEAN, CreateToken(t, usdcFirst)
    PROVE  IInv'
  <1> DEFINE new == [adapter |-> dexAdapter, target |-> target, sold |-> 0, reserve |-> 0,
                     active |-> TRUE, paused |-> FALSE, usdcFirst |-> usdcFirst]
  <1>1. /\ pair[t] = None /\ pair' = [pair EXCEPT ![t] = new]
        /\ tokens' = [tokens EXCEPT ![t][Pair(t)] = Supply]
        /\ UNCHANGED <<dexAdapter, target, factoryOf, poolCreator, pool, position, v3Price, nativeDust, native>>
    BY DEF CreateToken, wiring
  <1>2. target \in Nat \ {0} /\ Supply \in Nat
    BY LaunchAssumption DEF IInv, TypeOK
  <1>3. TypeOK'
    <2>1. new \in PairRecord
      BY DEF PairRecord, IInv, TypeOK
    <2> HIDE DEF new
    <2> QED
      BY <1>1, <1>2, <2>1, Addresses DEF IInv, TypeOK
  <1>4. \A s \in Tokens, x \in Accounts : s # t \/ x # Pair(t) => tokens'[s][x] = tokens[s][x]
    BY <1>1, Addresses DEF IInv, TypeOK
  <1>5. tokens'[t][Pair(t)] = Supply
    BY <1>1, Addresses DEF IInv, TypeOK
  <1>6. pair'[t] = new /\ \A s \in Tokens : s # t => pair'[s] = pair[s]
    BY <1>1 DEF IInv, TypeOK
  <1>7. TokenInv(t)'
    <2>1. TokenInv(t)
      BY DEF IInv
    <2>2. pair'[t] # None
      <3>1. new \in PairRecord
        BY DEF PairRecord, IInv, TypeOK
      <3> HIDE DEF new
      <3> QED
        BY <1>6, <3>1, AddressAssumption
    <2>3. PairInv(t)'
      BY <1>1, <1>2, <1>5, <1>6, <2>1, Addresses DEF TokenInv, PairInv
    <2>4. position[t] = None /\ ~ Graduated(t)'
      BY <1>1, <1>6, <2>1 DEF TokenInv, Graduated
    <2>5. pool[t] # None => PoolInv(t)'
      BY <1>1, <1>4, <2>1, Addresses DEF TokenInv, PoolInv, Graduated
    <2> QED
      BY <1>1, <2>1, <2>2, <2>3, <2>4, <2>5 DEF TokenInv
  <1>8. ASSUME NEW s \in Tokens, s # t PROVE TokenInv(s)'
    <2>1. \A x \in Accounts : tokens'[s][x] = tokens[s][x] /\ tokens[s][x] \in Nat
      BY <1>4, <1>8 DEF IInv, TypeOK
    <2> QED
      BY <1>1, <1>3, <1>6, <1>8, <2>1, Addresses, Untouched
  <1> QED
    BY <1>1, <1>3, <1>7, <1>8 DEF IInv, AdaptersInv

LEMMA SetPairPausedInv ==
    ASSUME IInv, NEW t \in Tokens, NEW shouldPause \in BOOLEAN, SetPairPaused(t, shouldPause)
    PROVE  IInv' /\ \A s \in Tokens : pair[s] # None => TermsKept(s)
  <1>1. /\ pair[t] # None /\ pair' = [pair EXCEPT ![t].paused = shouldPause]
        /\ UNCHANGED <<dexAdapter, target, factoryOf, poolCreator, pool, position, v3Price, nativeDust,
                       tokens, native>>
    BY DEF SetPairPaused, wiring, ledger
  <1>2. pair[t] \in PairRecord /\ pair \in [Tokens -> PairRecord \cup {None}]
    BY <1>1 DEF IInv, TypeOK
  <1>3. /\ pair' \in [Tokens -> PairRecord \cup {None}] /\ pair'[t] \in PairRecord
        /\ pair'[t].adapter = pair[t].adapter /\ pair'[t].target = pair[t].target
        /\ pair'[t].sold = pair[t].sold /\ pair'[t].reserve = pair[t].reserve
        /\ pair'[t].active = pair[t].active
        /\ \A s \in Tokens : s # t => pair'[s] = pair[s]
    BY <1>1, <1>2 DEF PairRecord
  <1>4. pair'[t] # None
    BY <1>3, AddressAssumption
  <1>5. TypeOK'
    BY <1>1, <1>3 DEF IInv, TypeOK
  <1>6. TokenInv(t)'
    <2>1. TokenInv(t)
      BY DEF IInv
    <2> QED
      BY <1>1, <1>3, <1>4, <2>1 DEF TokenInv, PairInv, PoolInv, Locked, Graduated
  <1>7. ASSUME NEW s \in Tokens, s # t PROVE TokenInv(s)'
    <2>1. \A x \in Accounts : tokens'[s][x] = tokens[s][x] /\ tokens[s][x] \in Nat
      BY <1>1 DEF IInv, TypeOK
    <2> QED
      BY <1>1, <1>3, <1>5, <1>7, <2>1, Addresses, Untouched
  <1> QED
    BY <1>1, <1>3, <1>4, <1>5, <1>6, <1>7 DEF IInv, AdaptersInv, TermsKept

\* The owner of the factory takes the dust, which is all the adapter has.
LEMMA SweepInv ==
    ASSUME IInv, NEW u \in Users, SweepNativeDust(u)
    PROVE  IInv'
  <1>1. /\ nativeDust' = 0 /\ native' = Move(native, ArcAdapter, u, nativeDust)
        /\ UNCHANGED <<dexAdapter, target, factoryOf, poolCreator, pair, pool, position, v3Price, tokens>>
    BY DEF SweepNativeDust, wiring
  <1>2. native \in [Accounts -> Nat] /\ nativeDust \in Nat /\ native[ArcAdapter] = nativeDust
    BY DEF IInv, TypeOK, AdaptersInv
  <1>3. u \in Accounts /\ ArcAdapter \in Accounts /\ u # ArcAdapter
    BY Addresses
  <1>4. /\ native' \in [Accounts -> Nat] /\ native'[ArcAdapter] = 0
        /\ \A x \in Accounts : x # ArcAdapter /\ x # u => native'[x] = native[x]
    BY <1>1, <1>2, <1>3, MoveEffect
  <1>5. TypeOK'
    BY <1>1, <1>4 DEF IInv, TypeOK
  <1>6. ASSUME NEW t \in Tokens PROVE TokenInv(t)'
    <2>1. native'[Pair(t)] = native[Pair(t)] /\ native'[Pool(t)] = native[Pool(t)]
      BY <1>4, Addresses
    <2>2. \A x \in Accounts : tokens'[t][x] = tokens[t][x] /\ tokens[t][x] \in Nat
      BY <1>1 DEF IInv, TypeOK
    <2> QED
      BY <1>1, <1>5, <2>1, <2>2, Addresses, Untouched
  <1>7. AdaptersInv'
    BY <1>1, <1>4, Addresses DEF IInv, AdaptersInv
  <1> QED
    BY <1>5, <1>6, <1>7 DEF IInv

-----------------------------------------------------------------------------
(* Pools.                                                                  *)

\* What addLiquidity of a pool records.
LEMMA SeededPool ==
    ASSUME NEW amount \in Nat, NEW value \in Nat, NEW owner \in Users \cup {Lock},
           Sqrt(amount * value) # 0
    PROVE  /\ Seeded(amount, value, owner) \in PoolRecord
           /\ Seeded(amount, value, owner) # None
           /\ Seeded(amount, value, owner).shares # 0
           /\ Seeded(amount, value, owner).seed # 2 =>
                IsRoot(Seeded(amount, value, owner).seed, Seeded(amount, value, owner).shares)
  <1> DEFINE k == amount * value
  <1>1. k \in Nat
    BY Z3
  <1> HIDE DEF k
  <1>2. k # 0
    BY DEF Sqrt, k
  <1>3. Sqrt(k) \in Nat \ {0} /\ (k # 2 => Sqrt(k) * Sqrt(k) <= k /\ k < (Sqrt(k) + 1) * (Sqrt(k) + 1))
    BY <1>1, <1>2, SqrtIsRoot
  <1>4. Seeded(amount, value, owner) =
            [tokenReserve |-> amount, nativeReserve |-> value, shares |-> Sqrt(k),
             owner |-> owner, seed |-> k]
    BY DEF Seeded, k
  <1>5. Seeded(amount, value, owner) \in PoolRecord
    BY <1>1, <1>3, <1>4 DEF PoolRecord
  <1> QED
    BY <1>3, <1>4, <1>5, AddressAssumption DEF IsRoot

LEMMA CreatePoolInv ==
    ASSUME IInv, NEW c \in Users \cup {Operator}, NEW t \in Tokens, CreatePool(c, t)
    PROVE  IInv'
  <1>1. /\ c = poolCreator /\ pool[t] = None /\ pool' = [pool EXCEPT ![t] = EmptyPool]
        /\ UNCHANGED <<dexAdapter, target, factoryOf, poolCreator, pair, position, v3Price, nativeDust,
                       tokens, native>>
    BY DEF CreatePool, MayCreatePool, wiring, ledger
  <1>2. poolCreator # None /\ poolCreator # DexAdapter
    BY <1>1, Addresses
  <1>3. EmptyPool \in PoolRecord
    BY DEF EmptyPool, PoolRecord
  <1>4. EmptyPool # None
    BY <1>3, AddressAssumption
  <1>5. /\ pool'[t] = EmptyPool /\ \A s \in Tokens : s # t => pool'[s] = pool[s]
        /\ pool' \in [Tokens -> PoolRecord \cup {None}]
    BY <1>1, <1>3 DEF IInv, TypeOK
  <1>6. TypeOK'
    BY <1>1, <1>5 DEF IInv, TypeOK
  <1>7. TokenInv(t)'
    <2>1. TokenInv(t)
      BY DEF IInv
    <2>2. tokens[t][Pool(t)] \in Nat
      BY Addresses DEF IInv, TypeOK
    <2>3. PoolInv(t)'
      BY <1>1, <1>2, <1>5, <2>1, <2>2 DEF TokenInv, PoolInv, EmptyPool
    <2> QED
      BY <1>1, <1>4, <1>5, <2>1, <2>3 DEF TokenInv, PairInv, Locked, Graduated
  <1>8. ASSUME NEW s \in Tokens, s # t PROVE TokenInv(s)'
    <2>1. \A x \in Accounts : tokens'[s][x] = tokens[s][x] /\ tokens[s][x] \in Nat
      BY <1>1 DEF IInv, TypeOK
    <2> QED
      BY <1>1, <1>5, <1>6, <1>8, <2>1, Addresses, Untouched
  <1> QED
    BY <1>1, <1>6, <1>7, <1>8 DEF IInv, AdaptersInv

\* A step that only changes the pool of t and moves tokens of t and native,
\* not through any pair or adapter.
LEMMA PoolStep ==
    ASSUME IInv, NEW t \in Tokens,
           UNCHANGED <<dexAdapter, target, factoryOf, poolCreator, pair, position, v3Price, nativeDust>>,
           pool[t] # None, pool' \in [Tokens -> PoolRecord \cup {None}], pool'[t] # None,
           \A s \in Tokens : s # t => pool'[s] = pool[s] /\ tokens'[s] = tokens[s],
           tokens' \in Books, native' \in [Accounts -> Nat],
           tokens'[t][Pair(t)] >= tokens[t][Pair(t)],
           \A x \in Adapters \cup {Pair(s) : s \in Tokens} : native'[x] = native[x],
           \A s \in Tokens : s # t => native'[Pool(s)] = native[Pool(s)],
           PoolInv(t)', Locked(t) => Locked(t)'
    PROVE  IInv'
  <1>1. TypeOK'
    BY DEF IInv, TypeOK, Books
  <1>2. TokenInv(t)'
    <2>1. TokenInv(t)
      BY DEF IInv
    <2>2. pair[t] # None => PairInv(t)'
      <3> HAVE pair[t] # None
      <3>1. PairInv(t)
        BY <2>1 DEF TokenInv
      <3>2. pair[t].sold \in Nat /\ Supply \in Nat
        BY LaunchAssumption DEF IInv, TypeOK, PairRecord
      <3>3. tokens[t][Pair(t)] \in Nat /\ tokens'[t][Pair(t)] \in Nat
        BY Addresses DEF IInv, TypeOK, Books
      <3> QED
        BY <3>1, <3>2, <3>3 DEF PairInv
    <2> QED
      BY <2>1, <2>2 DEF TokenInv, Graduated
  <1>3. ASSUME NEW s \in Tokens, s # t PROVE TokenInv(s)'
    <2>1. \A x \in Accounts : tokens'[s][x] = tokens[s][x] /\ tokens[s][x] \in Nat
      BY <1>3 DEF IInv, TypeOK
    <2> QED
      BY <1>1, <1>3, <2>1, Addresses, Untouched
  <1>4. AdaptersInv'
    BY Addresses DEF IInv, AdaptersInv
  <1> QED
    BY <1>1, <1>2, <1>3, <1>4 DEF IInv

LEMMA AddLiquidityInv ==
    ASSUME IInv, NEW u \in Users, NEW t \in Tokens, NEW amount \in Amounts, NEW value \in Payments,
           AddLiquidity(u, t, amount, value)
    PROVE  IInv'
  <1>1. /\ pool[t] # None /\ pool[t].shares = 0 /\ Sqrt(amount * value) # 0
        /\ value <= native[u] /\ amount <= tokens[t][u]
        /\ pool' = [pool EXCEPT ![t] = Seeded(amount, value, u)]
        /\ tokens' = MoveToken(tokens, t, u, Pool(t), amount)
        /\ native' = Move(native, u, Pool(t), value)
        /\ UNCHANGED <<dexAdapter, target, factoryOf, poolCreator, pair, position, v3Price, nativeDust>>
    BY DEF AddLiquidity, MaySeed, Owns, wiring
  <1>2. amount \in Nat /\ value \in Nat
    BY LaunchAssumption
  <1>3. /\ u \in Accounts /\ Pool(t) \in Accounts /\ u # Pool(t)
        /\ \A x \in Adapters \cup {Pair(s) : s \in Tokens} : x \in Accounts /\ x # u /\ x # Pool(t)
        /\ \A s \in Tokens : s # t => Pool(s) \in Accounts /\ Pool(s) # u /\ Pool(s) # Pool(t)
    BY Addresses
  <1>4. /\ tokens' \in Books /\ tokens'[t][Pool(t)] = tokens[t][Pool(t)] + amount
        /\ \A s \in Tokens : s # t => tokens'[s] = tokens[s]
        /\ \A x \in Accounts : x # u /\ x # Pool(t) => tokens'[t][x] = tokens[t][x]
        /\ tokens[t][Pool(t)] \in Nat
    <2>1. Moved(tokens, tokens', t, u, Pool(t), amount)
      BY <1>1, <1>2, <1>3, LedgerTypes, MoveTokenEffect
    <2> QED
      BY <1>3, <2>1, LedgerTypes DEF Moved
  <1>5. /\ native' \in [Accounts -> Nat] /\ native'[Pool(t)] = native[Pool(t)] + value
        /\ \A x \in Accounts : x # u /\ x # Pool(t) => native'[x] = native[x]
        /\ native[Pool(t)] \in Nat
    <2>1. native \in [Accounts -> Nat] /\ native[Pool(t)] \in Nat /\ value <= native[u]
      BY <1>1, <1>3, LedgerTypes
    <2>2. /\ Move(native, u, Pool(t), value) \in [Accounts -> Nat]
          /\ Move(native, u, Pool(t), value)[Pool(t)] = native[Pool(t)] + value
          /\ \A x \in Accounts : x # u /\ x # Pool(t) => Move(native, u, Pool(t), value)[x] = native[x]
      BY <2>1, <1>2, <1>3, MoveEffect
    <2> QED
      BY <2>1, <2>2, <1>1
  <1>6. /\ Seeded(amount, value, u) \in PoolRecord /\ Seeded(amount, value, u) # None
        /\ Seeded(amount, value, u).shares # 0
    BY <1>1, <1>2, SeededPool
  <1>7. /\ pool' \in [Tokens -> PoolRecord \cup {None}] /\ pool'[t] = Seeded(amount, value, u)
        /\ \A s \in Tokens : s # t => pool'[s] = pool[s]
    BY <1>1, <1>6 DEF IInv, TypeOK
  <1>8. PoolInv(t)'
    <2>1. PoolInv(t)
      BY <1>1 DEF IInv, TokenInv
    <2>2. pool'[t].tokenReserve = amount /\ pool'[t].nativeReserve = value
      BY <1>7 DEF Seeded
    <2> QED
      BY <1>1, <1>2, <1>4, <1>5, <1>6, <1>7, <2>1, <2>2 DEF PoolInv, Graduated
  <1>9. ~ Locked(t)
    BY <1>1 DEF Locked
  <1>10. tokens'[t][Pair(t)] >= tokens[t][Pair(t)]
    BY <1>3, <1>4, LedgerTypes
  <1> QED
    BY <1>1, <1>3, <1>4, <1>5, <1>6, <1>7, <1>8, <1>9, <1>10, PoolStep

\* The records of a pool after a swap, in either direction: no more is paid
\* than is there, and the product does not fall.
LEMMA SwapNativeEffect ==
    ASSUME IInv, NEW u \in Users, NEW t \in Tokens, NEW value \in Payments, NEW minOutput,
           NEW to \in Recipients(t), SwapNativeForToken(u, t, value, minOutput, to),
           NEW output, output = SwapOutput(pool[t].nativeReserve, pool[t].tokenReserve, value)
    PROVE  /\ value \in Nat \ {0} /\ output \in Nat
           /\ pool[t] # None /\ pool' \in [Tokens -> PoolRecord \cup {None}]
           /\ \A s \in Tokens : s # t => pool'[s] = pool[s]
           /\ pool'[t] # None
           /\ pool'[t].nativeReserve = pool[t].nativeReserve + value
           /\ pool'[t].tokenReserve = pool[t].tokenReserve - output
           /\ pool'[t].shares = pool[t].shares /\ pool'[t].owner = pool[t].owner
           /\ pool'[t].seed = pool[t].seed
           /\ output < pool[t].tokenReserve
           /\ pool'[t].tokenReserve * pool'[t].nativeReserve
                >= pool[t].tokenReserve * pool[t].nativeReserve
  <1>1. /\ value \in Nat \ {0} /\ pool[t] # None /\ output < pool[t].tokenReserve
        /\ pool' = [pool EXCEPT ![t].nativeReserve = @ + value, ![t].tokenReserve = @ - output]
    BY LaunchAssumption DEF SwapNativeForToken, Payable
  <1>2. pool \in [Tokens -> PoolRecord \cup {None}] /\ pool[t] \in PoolRecord
    BY <1>1 DEF IInv, TypeOK
  <1> DEFINE x == pool[t].nativeReserve
             y == pool[t].tokenReserve
             r == [pool[t] EXCEPT !.nativeReserve = @ + value, !.tokenReserve = @ - output]
  <1>3. x \in Nat /\ y \in Nat
    BY <1>2 DEF PoolRecord
  <1>4. output \in Nat /\ output <= y /\ (x + value) * (y - output) >= x * y
    BY <1>1, <1>3, SwapOutputBounds
  <1>5. pool' = [pool EXCEPT ![t] = r]
    BY <1>1
  <1>6. /\ r \in PoolRecord /\ r.nativeReserve = x + value /\ r.tokenReserve = y - output
        /\ r.shares = pool[t].shares /\ r.owner = pool[t].owner /\ r.seed = pool[t].seed
    <2> HIDE DEF x, y
    <2>1. x + value \in Nat /\ y - output \in Nat
      BY <1>1, <1>3, <1>4
    <2> QED
      BY <1>2, <2>1 DEF PoolRecord, x, y
  <1> HIDE DEF r
  <1>7. pool'[t] = r /\ pool' \in [Tokens -> PoolRecord \cup {None}] /\ r # None
        /\ \A s \in Tokens : s # t => pool'[s] = pool[s]
    BY <1>2, <1>5, <1>6, AddressAssumption
  <1>8. r.tokenReserve * r.nativeReserve >= y * x
    <2>1. (y - output) * (x + value) = (x + value) * (y - output) /\ x * y = y * x
      BY <1>1, <1>3, <1>4, Z3
    <2> QED
      BY <1>4, <1>6, <2>1
  <1> QED
    BY <1>1, <1>4, <1>6, <1>7, <1>8

LEMMA SwapTokenEffect ==
    ASSUME IInv, NEW u \in Users, NEW t \in Tokens, NEW amount \in Amounts, NEW minOutput,
           NEW to \in Users, SwapTokenForNative(u, t, amount, minOutput, to),
           NEW output, output = SwapOutput(pool[t].tokenReserve, pool[t].nativeReserve, amount)
    PROVE  /\ amount \in Nat \ {0} /\ output \in Nat
           /\ pool[t] # None /\ pool' \in [Tokens -> PoolRecord \cup {None}]
           /\ \A s \in Tokens : s # t => pool'[s] = pool[s]
           /\ pool'[t] # None
           /\ pool'[t].tokenReserve = pool[t].tokenReserve + amount
           /\ pool'[t].nativeReserve = pool[t].nativeReserve - output
           /\ pool'[t].shares = pool[t].shares /\ pool'[t].owner = pool[t].owner
           /\ pool'[t].seed = pool[t].seed
           /\ output < pool[t].nativeReserve
           /\ pool'[t].tokenReserve * pool'[t].nativeReserve
                >= pool[t].tokenReserve * pool[t].nativeReserve
  <1>1. /\ amount \in Nat \ {0} /\ pool[t] # None /\ output < pool[t].nativeReserve
        /\ pool' = [pool EXCEPT ![t].tokenReserve = @ + amount, ![t].nativeReserve = @ - output]
    BY LaunchAssumption DEF SwapTokenForNative, Payable
  <1>2. pool \in [Tokens -> PoolRecord \cup {None}] /\ pool[t] \in PoolRecord
    BY <1>1 DEF IInv, TypeOK
  <1> DEFINE x == pool[t].tokenReserve
             y == pool[t].nativeReserve
             r == [pool[t] EXCEPT !.tokenReserve = @ + amount, !.nativeReserve = @ - output]
  <1>3. x \in Nat /\ y \in Nat
    BY <1>2 DEF PoolRecord
  <1>4. output \in Nat /\ output <= y /\ (x + amount) * (y - output) >= x * y
    BY <1>1, <1>3, SwapOutputBounds
  <1>5. pool' = [pool EXCEPT ![t] = r]
    BY <1>1
  <1>6. /\ r \in PoolRecord /\ r.tokenReserve = x + amount /\ r.nativeReserve = y - output
        /\ r.shares = pool[t].shares /\ r.owner = pool[t].owner /\ r.seed = pool[t].seed
    <2> HIDE DEF x, y
    <2>1. x + amount \in Nat /\ y - output \in Nat
      BY <1>1, <1>3, <1>4
    <2> QED
      BY <1>2, <2>1 DEF PoolRecord, x, y
  <1> HIDE DEF r
  <1>7. pool'[t] = r /\ pool' \in [Tokens -> PoolRecord \cup {None}] /\ r # None
        /\ \A s \in Tokens : s # t => pool'[s] = pool[s]
    BY <1>2, <1>5, <1>6, AddressAssumption
  <1> QED
    BY <1>1, <1>4, <1>6, <1>7

\* A swap within the reserves leaves an unseeded pool unable to pay, and a
\* locked one locked.
LEMMA SwapNativeInv ==
    ASSUME IInv, NEW u \in Users, NEW t \in Tokens, NEW value \in Payments, NEW minOutput,
           NEW to \in Recipients(t), SwapNativeForToken(u, t, value, minOutput, to)
    PROVE  IInv'
  <1> DEFINE output == SwapOutput(pool[t].nativeReserve, pool[t].tokenReserve, value)
  <1>1. /\ value <= native[u]
        /\ tokens' = MoveToken(tokens, t, Pool(t), to, output)
        /\ native' = Move(native, u, Pool(t), value)
        /\ UNCHANGED <<dexAdapter, target, factoryOf, poolCreator, pair, position, v3Price, nativeDust>>
    BY DEF SwapNativeForToken, wiring
  <1> HIDE DEF output
  <1>2. /\ value \in Nat \ {0} /\ output \in Nat
        /\ pool[t] # None /\ pool' \in [Tokens -> PoolRecord \cup {None}]
        /\ \A s \in Tokens : s # t => pool'[s] = pool[s]
        /\ pool'[t] # None
        /\ pool'[t].nativeReserve = pool[t].nativeReserve + value
        /\ pool'[t].tokenReserve = pool[t].tokenReserve - output
        /\ pool'[t].shares = pool[t].shares /\ pool'[t].owner = pool[t].owner
        /\ pool'[t].seed = pool[t].seed
        /\ output < pool[t].tokenReserve
    BY SwapNativeEffect DEF output
  <1>3. /\ u \in Accounts /\ to \in Accounts /\ Pool(t) \in Accounts /\ u # Pool(t)
        /\ \A x \in Adapters \cup {Pair(s) : s \in Tokens} :
                x \in Accounts /\ x # u /\ x # Pool(t)
        /\ \A s \in Tokens : s # t => Pool(s) \in Accounts /\ Pool(s) # u /\ Pool(s) # Pool(t)
    BY Addresses DEF Recipients
  <1>4. PoolInv(t) /\ pool[t].tokenReserve \in Nat /\ pool[t].nativeReserve \in Nat
    BY <1>2 DEF IInv, TokenInv, TypeOK, PoolRecord
  <1>5. tokens[t][Pool(t)] \in Nat /\ output <= tokens[t][Pool(t)]
    BY <1>2, <1>3, <1>4, LedgerTypes DEF PoolInv
  <1>6. /\ tokens' \in Books /\ tokens'[t][Pool(t)] >= tokens[t][Pool(t)] - output
        /\ \A s \in Tokens : s # t => tokens'[s] = tokens[s]
        /\ tokens'[t][Pair(t)] >= tokens[t][Pair(t)]
    <2>1. /\ tokens \in Books /\ output \in Nat /\ output <= tokens[t][Pool(t)]
          /\ to \in Accounts /\ Pool(t) \in Accounts
          /\ tokens[t][Pool(t)] \in Nat /\ tokens[t][Pair(t)] \in Nat
          /\ Pair(t) \in Accounts /\ Pair(t) # Pool(t)
      BY <1>2, <1>3, <1>5, LedgerTypes, Addresses
    <2>2. Moved(tokens, tokens', t, Pool(t), to, output)
      BY <1>1, <2>1, MoveTokenEffect
    <2>3. CASE to = Pool(t)
      BY <2>1, <2>2, <2>3 DEF Moved
    <2>4. CASE to # Pool(t)
      BY <2>1, <2>2, <2>4 DEF Moved
    <2> QED
      BY <2>3, <2>4
  <1>7. /\ native' \in [Accounts -> Nat] /\ native'[Pool(t)] = native[Pool(t)] + value
        /\ \A x \in Accounts : x # u /\ x # Pool(t) => native'[x] = native[x]
    BY <1>1, <1>2, <1>3, LedgerTypes, MoveEffect
  <1>8. tokens'[t][Pool(t)] \in Nat
    BY <1>3, <1>6 DEF Books
  <1>9. PoolInv(t)'
    BY <1>1, <1>2, <1>4, <1>5, <1>6, <1>7, <1>8 DEF PoolInv, Graduated
  <1>10. Locked(t) => Locked(t)'
    BY <1>2 DEF Locked
  <1> QED
    BY <1>1, <1>2, <1>3, <1>6, <1>7, <1>9, <1>10, PoolStep

LEMMA SwapTokenInv ==
    ASSUME IInv, NEW u \in Users, NEW t \in Tokens, NEW amount \in Amounts, NEW minOutput,
           NEW to \in Users, SwapTokenForNative(u, t, amount, minOutput, to)
    PROVE  IInv'
  <1> DEFINE output == SwapOutput(pool[t].tokenReserve, pool[t].nativeReserve, amount)
  <1>1. /\ amount <= tokens[t][u]
        /\ tokens' = MoveToken(tokens, t, u, Pool(t), amount)
        /\ native' = Move(native, Pool(t), to, output)
        /\ UNCHANGED <<dexAdapter, target, factoryOf, poolCreator, pair, position, v3Price, nativeDust>>
    BY DEF SwapTokenForNative, Owns, wiring
  <1> HIDE DEF output
  <1>2. /\ amount \in Nat \ {0} /\ output \in Nat
        /\ pool[t] # None /\ pool' \in [Tokens -> PoolRecord \cup {None}]
        /\ \A s \in Tokens : s # t => pool'[s] = pool[s]
        /\ pool'[t] # None
        /\ pool'[t].tokenReserve = pool[t].tokenReserve + amount
        /\ pool'[t].nativeReserve = pool[t].nativeReserve - output
        /\ pool'[t].shares = pool[t].shares /\ pool'[t].owner = pool[t].owner
        /\ pool'[t].seed = pool[t].seed
        /\ output < pool[t].nativeReserve
    BY SwapTokenEffect DEF output
  <1>3. /\ u \in Accounts /\ to \in Accounts /\ Pool(t) \in Accounts /\ u # Pool(t) /\ to # Pool(t)
        /\ \A x \in Adapters \cup {Pair(s) : s \in Tokens} :
                x \in Accounts /\ x # u /\ x # to /\ x # Pool(t)
        /\ \A s \in Tokens : s # t => Pool(s) \in Accounts /\ Pool(s) # to /\ Pool(s) # Pool(t)
    BY Addresses
  <1>4. PoolInv(t) /\ pool[t].tokenReserve \in Nat /\ pool[t].nativeReserve \in Nat
    BY <1>2 DEF IInv, TokenInv, TypeOK, PoolRecord
  <1>5. /\ tokens[t][Pool(t)] \in Nat /\ native[Pool(t)] \in Nat
        /\ output <= native[Pool(t)]
    BY <1>2, <1>3, <1>4, LedgerTypes DEF PoolInv
  <1>6. /\ tokens' \in Books /\ tokens'[t][Pool(t)] = tokens[t][Pool(t)] + amount
        /\ \A s \in Tokens : s # t => tokens'[s] = tokens[s]
        /\ \A x \in Accounts : x # u /\ x # Pool(t) => tokens'[t][x] = tokens[t][x]
    <2>1. Moved(tokens, tokens', t, u, Pool(t), amount)
      BY <1>1, <1>2, <1>3, LedgerTypes, MoveTokenEffect
    <2> QED
      BY <1>3, <2>1 DEF Moved
  <1>7. /\ native' \in [Accounts -> Nat] /\ native'[Pool(t)] = native[Pool(t)] - output
        /\ \A x \in Accounts : x # to /\ x # Pool(t) => native'[x] = native[x]
    BY <1>1, <1>2, <1>3, <1>5, LedgerTypes, MoveEffect
  <1>8. PoolInv(t)'
    BY <1>1, <1>2, <1>4, <1>5, <1>6, <1>7 DEF PoolInv, Graduated
  <1>9. Locked(t) => Locked(t)'
    BY <1>2 DEF Locked
  <1>10. tokens'[t][Pair(t)] >= tokens[t][Pair(t)]
    BY <1>3, <1>6, LedgerTypes
  <1> QED
    BY <1>1, <1>2, <1>3, <1>6, <1>7, <1>8, <1>9, <1>10, PoolStep

LEMMA TransferInv ==
    ASSUME IInv, NEW u \in Users, NEW t \in Tokens, NEW to \in Recipients(t),
           NEW amount \in Amounts, Transfer(u, t, to, amount)
    PROVE  IInv'
  <1>1. /\ u # to /\ amount <= tokens[t][u]
        /\ tokens' = MoveToken(tokens, t, u, to, amount)
        /\ UNCHANGED <<dexAdapter, target, factoryOf, poolCreator, pair, pool, position, v3Price,
                       nativeDust, native>>
    BY DEF Transfer, Owns, wiring
  <1>2. amount \in Nat
    BY LaunchAssumption
  <1>3. /\ u \in Accounts /\ to \in Accounts /\ u # Pair(t) /\ u # Pool(t)
    BY Addresses DEF Recipients
  <1>4. /\ tokens' \in Books /\ tokens'[t][to] = tokens[t][to] + amount
        /\ \A s \in Tokens : s # t => tokens'[s] = tokens[s]
        /\ \A x \in Accounts : x # u /\ x # to => tokens'[t][x] = tokens[t][x]
    BY <1>1, <1>2, <1>3, LedgerTypes, MoveTokenEffect DEF Moved
  <1>5. TypeOK'
    BY <1>1, <1>4 DEF IInv, TypeOK, Books
  <1>6. ASSUME NEW s \in Tokens PROVE TokenInv(s)'
    <2>1. \A x \in Accounts : x # u \/ s # t => tokens'[s][x] >= tokens[s][x]
      BY <1>2, <1>3, <1>4, LedgerTypes
    <2> QED
      BY <1>1, <1>3, <1>5, <2>1, Addresses, Untouched
  <1> QED
    BY <1>1, <1>5, <1>6 DEF IInv, AdaptersInv

\* What others do with a V3 pool touches nothing of the launchpad's.
LEMMA InitializeV3PoolInv ==
    ASSUME IInv, NEW t \in Tokens, NEW price \in V3Prices, InitializeV3Pool(t, price)
    PROVE  IInv' /\ UNCHANGED <<pair, pool>>
  <1>1. /\ UNCHANGED <<dexAdapter, target, factoryOf, poolCreator, pair, pool, position, nativeDust,
                       tokens, native>>
        /\ v3Price' \in [Tokens -> V3Prices]
    BY DEF InitializeV3Pool, wiring, ledger, IInv, TypeOK
  <1> QED
    BY <1>1 DEF IInv, TypeOK, AdaptersInv, TokenInv, PairInv, PoolInv, Locked, Graduated

-----------------------------------------------------------------------------
(* The curve.                                                              *)

\* An open pair can quote, and has the tokens of what it may still sell.
LEMMA OpenPair ==
    ASSUME IInv, NEW t \in Tokens, pair[t] # None, pair[t].active
    PROVE  /\ pair[t] \in PairRecord /\ PairInv(t)
           /\ pair[t].sold \in Nat /\ pair[t].reserve \in Nat /\ pair[t].target \in Nat
           /\ pair[t].sold < pair[t].target /\ pair[t].target < Supply /\ Supply \in Nat
           /\ V0 - pair[t].sold \in Nat /\ N0 + pair[t].reserve \in Nat \ {0}
           /\ Remaining(t) \in Nat \ {0} /\ Remaining(t) < V0 - pair[t].sold
           /\ Remaining(t) < tokens[t][Pair(t)] /\ tokens[t][Pair(t)] \in Nat
           /\ native[Pair(t)] = pair[t].reserve
  <1>1. PairInv(t) /\ pair[t] \in PairRecord
    BY DEF IInv, TokenInv, TypeOK
  <1>2. /\ pair[t].sold \in Nat /\ pair[t].reserve \in Nat /\ pair[t].target \in Targets
    BY <1>1 DEF PairRecord
  <1>3. pair[t].target \in Nat /\ pair[t].target < Supply /\ Supply \in Nat
    <2>1. Supply \in Nat /\ Targets \subseteq 1 .. Supply - 1
      BY LaunchAssumption
    <2>2. pair[t].target \in 1 .. Supply - 1
      BY <1>2, <2>1
    <2> QED
      BY <2>1, <2>2
  <1>4. tokens[t][Pair(t)] \in Nat
    BY LedgerTypes, Addresses
  <1>5. /\ pair[t].sold < pair[t].target /\ native[Pair(t)] = pair[t].reserve
        /\ tokens[t][Pair(t)] >= Supply - pair[t].sold
    BY <1>1 DEF PairInv
  <1>6. V0 \in Nat /\ V0 > Supply /\ N0 \in Nat \ {0}
    BY LaunchAssumption
  <1> QED
    BY <1>1, <1>2, <1>3, <1>4, <1>5, <1>6 DEF Remaining

\* What is left always costs something, and so does any part of it.
LEMMA CostBounds ==
    ASSUME IInv, NEW t \in Tokens, pair[t] # None, pair[t].active,
           NEW amount \in Nat \ {0}, amount <= Remaining(t)
    PROVE  CostOf(t, amount) \in Nat \ {0}
  <1>1. /\ V0 - pair[t].sold \in Nat /\ N0 + pair[t].reserve \in Nat \ {0}
        /\ amount < V0 - pair[t].sold
    BY OpenPair
  <1> QED
    BY <1>1, BuyCostBounds DEF CostOf

\* A step that only changes the records of one open pair, which stays open,
\* and moves tokens and native between the pair, users and the treasury.
LEMMA PairStep ==
    ASSUME IInv, NEW t \in Tokens,
           UNCHANGED <<dexAdapter, target, factoryOf, poolCreator, pool, position, v3Price, nativeDust>>,
           pair[t] # None, pair[t].active,
           pair' \in [Tokens -> PairRecord \cup {None}], pair'[t] \in PairRecord, pair'[t].active,
           \A s \in Tokens : s # t => pair'[s] = pair[s] /\ tokens'[s] = tokens[s],
           tokens' \in Books, native' \in [Accounts -> Nat],
           tokens'[t][Pool(t)] = tokens[t][Pool(t)],
           \A x \in Adapters \cup {Pool(s) : s \in Tokens} : native'[x] = native[x],
           \A s \in Tokens : s # t => native'[Pair(s)] = native[Pair(s)],
           PairInv(t)'
    PROVE  IInv'
  <1>1. TypeOK'
    BY DEF IInv, TypeOK, Books
  <1>2. TokenInv(t)'
    <2>1. TokenInv(t)
      BY DEF IInv
    <2>2. pair'[t] # None
      BY AddressAssumption
    <2>3. ~ Graduated(t) /\ ~ Graduated(t)'
      BY DEF Graduated
    <2>4. pool[t] # None => PoolInv(t)'
      BY <2>1, <2>3 DEF TokenInv, PoolInv
    <2> QED
      BY <2>1, <2>2, <2>3, <2>4, Addresses DEF TokenInv
  <1>3. ASSUME NEW s \in Tokens, s # t PROVE TokenInv(s)'
    <2>1. \A x \in Accounts : tokens'[s][x] = tokens[s][x] /\ tokens[s][x] \in Nat
      BY <1>3, LedgerTypes
    <2> QED
      BY <1>1, <1>3, <2>1, Addresses, Untouched
  <1>4. AdaptersInv'
    BY Addresses DEF IInv, AdaptersInv
  <1> QED
    BY <1>1, <1>2, <1>3, <1>4 DEF IInv

LEMMA SellInv ==
    ASSUME IInv, NEW u \in Users, NEW t \in Tokens, NEW amount \in Amounts, Sell(u, t, amount)
    PROVE  IInv' /\ \A s \in Tokens : pair[s] # None => TermsKept(s)
  <1> DEFINE gross == SellGross(V0 - pair[t].sold, N0 + pair[t].reserve, pair[t].reserve, amount)
             fee   == CurveFee(gross)
             taxed == Move(native, Pair(t), Treasury, fee)
             after == [pair[t] EXCEPT !.sold = @ - amount, !.reserve = @ - gross]
  <1>1. /\ pair[t] # None /\ pair[t].active /\ amount <= tokens[t][u] /\ amount <= pair[t].sold
        /\ pair' = [pair EXCEPT ![t].sold = @ - amount, ![t].reserve = @ - gross]
        /\ tokens' = MoveToken(tokens, t, u, Pair(t), amount)
        /\ native' = Move(taxed, Pair(t), u, gross - fee)
        /\ UNCHANGED <<dexAdapter, target, factoryOf, poolCreator, pool, position, v3Price, nativeDust>>
    BY DEF Sell, Trading, Owns, wiring
  <1>2. /\ pair[t] \in PairRecord /\ PairInv(t)
        /\ pair[t].sold \in Nat /\ pair[t].reserve \in Nat /\ pair[t].target \in Nat
        /\ pair[t].sold < pair[t].target /\ Supply \in Nat
        /\ V0 - pair[t].sold \in Nat /\ N0 + pair[t].reserve \in Nat \ {0}
        /\ native[Pair(t)] = pair[t].reserve /\ tokens[t][Pair(t)] \in Nat
    BY <1>1, OpenPair
  <1>3. amount \in Nat \ {0}
    BY LaunchAssumption
  <1>4. gross \in Nat /\ gross <= pair[t].reserve
    <2>1. pair[t].reserve <= N0 + pair[t].reserve
      BY <1>2, LaunchAssumption
    <2> QED
      BY <1>2, <1>3, <2>1, SellGrossBounds
  <1> HIDE DEF gross
  <1>5. fee \in Nat /\ fee <= gross
    BY <1>4, CurveFeeBounds
  <1> HIDE DEF fee
  <1>6. /\ u \in Accounts /\ Pair(t) \in Accounts /\ Treasury \in Accounts
        /\ u # Pair(t) /\ Treasury # Pair(t)
        /\ \A x \in Adapters \cup {Pool(s) : s \in Tokens} :
                x \in Accounts /\ x # u /\ x # Pair(t) /\ x # Treasury
        /\ \A s \in Tokens : s # t =>
                Pair(s) \in Accounts /\ Pair(s) # u /\ Pair(s) # Treasury /\ Pair(s) # Pair(t)
    BY Addresses
  <1>7. /\ taxed \in [Accounts -> Nat] /\ taxed[Pair(t)] = native[Pair(t)] - fee
        /\ \A x \in Accounts : x # Treasury /\ x # Pair(t) => taxed[x] = native[x]
    BY <1>2, <1>4, <1>5, <1>6, LedgerTypes, MoveEffect
  <1> HIDE DEF taxed
  <1>8. /\ native' \in [Accounts -> Nat] /\ native'[Pair(t)] = native[Pair(t)] - gross
        /\ \A x \in Accounts : x # u /\ x # Pair(t) => native'[x] = taxed[x]
    <2>1. gross - fee \in Nat /\ gross - fee <= taxed[Pair(t)]
      BY <1>2, <1>4, <1>5, <1>7
    <2>2. /\ native' \in [Accounts -> Nat] /\ native'[Pair(t)] = taxed[Pair(t)] - (gross - fee)
          /\ \A x \in Accounts : x # u /\ x # Pair(t) => native'[x] = taxed[x]
      BY <1>1, <1>6, <1>7, <2>1, MoveEffect
    <2> QED
      BY <1>2, <1>4, <1>5, <1>7, <2>2
  <1>9. /\ tokens' \in Books /\ tokens'[t][Pair(t)] = tokens[t][Pair(t)] + amount
        /\ \A s \in Tokens : s # t => tokens'[s] = tokens[s]
        /\ \A x \in Accounts : x # u /\ x # Pair(t) => tokens'[t][x] = tokens[t][x]
    BY <1>1, <1>3, <1>6, LedgerTypes, MoveTokenEffect DEF Moved
  <1>10. /\ after \in PairRecord /\ after.sold = pair[t].sold - amount
         /\ after.reserve = pair[t].reserve - gross /\ after.target = pair[t].target /\ after.active
         /\ after.adapter = pair[t].adapter
    <2>1. pair[t].sold - amount \in Nat /\ pair[t].reserve - gross \in Nat
      BY <1>1, <1>2, <1>3, <1>4
    <2> QED
      BY <1>1, <1>2, <2>1 DEF PairRecord
  <1>11. pair' = [pair EXCEPT ![t] = after]
    BY <1>1
  <1> HIDE DEF after
  <1>12. /\ pair' \in [Tokens -> PairRecord \cup {None}] /\ pair'[t] = after
         /\ \A s \in Tokens : s # t => pair'[s] = pair[s]
    BY <1>10, <1>11 DEF IInv, TypeOK
  <1>13. PairInv(t)'
    BY <1>1, <1>2, <1>3, <1>4, <1>8, <1>9, <1>10, <1>12 DEF PairInv
  <1>14. IInv'
    BY <1>1, <1>6, <1>7, <1>8, <1>9, <1>10, <1>12, <1>13, PairStep
  <1>15. \A s \in Tokens : pair[s] # None => TermsKept(s)
    BY <1>10, <1>12, AddressAssumption DEF TermsKept
  <1> QED
    BY <1>14, <1>15

\* What a purchase has moved before it graduates the pair, if it does:
\* `book` and `funds` are the ledgers, `after` the records of the pair.
Bought(t, amount, cost, book, funds, after) ==
    /\ book \in Books /\ funds \in [Accounts -> Nat]
    /\ \A s \in Tokens : s # t => book[s] = tokens[s]
    /\ book[t][Pool(t)] = tokens[t][Pool(t)]
    /\ \A x \in Adapters \cup {Pool(s) : s \in Tokens} : funds[x] = native[x]
    /\ \A s \in Tokens : s # t => funds[Pair(s)] = native[Pair(s)]
    /\ book[t][Pair(t)] = tokens[t][Pair(t)] - amount
    /\ funds[Pair(t)] = native[Pair(t)] + cost
    /\ after \in PairRecord
    /\ after.sold = pair[t].sold + amount /\ after.reserve = pair[t].reserve + cost
    /\ after.target = pair[t].target /\ after.adapter = pair[t].adapter
    /\ after.active = pair[t].active
    /\ after.reserve = funds[Pair(t)]

LEMMA BuySettles ==
    ASSUME IInv, NEW u \in Users, NEW t \in Tokens, NEW amount \in Nat \ {0},
           pair[t] # None, pair[t].active, amount <= Remaining(t),
           NEW cost \in Nat, NEW fee \in Nat, cost + fee <= native[u]
    PROVE  Bought(t, amount, cost, MoveToken(tokens, t, Pair(t), u, amount),
                  Move(Move(native, u, Pair(t), cost), u, Treasury, fee),
                  [pair[t] EXCEPT !.sold = @ + amount, !.reserve = @ + cost])
  <1> DEFINE book  == MoveToken(tokens, t, Pair(t), u, amount)
             paid  == Move(native, u, Pair(t), cost)
             funds == Move(paid, u, Treasury, fee)
             after == [pair[t] EXCEPT !.sold = @ + amount, !.reserve = @ + cost]
  <1>1. /\ u \in Accounts /\ Pair(t) \in Accounts /\ Treasury \in Accounts
        /\ u # Pair(t) /\ Treasury # Pair(t)
        /\ \A x \in Adapters \cup {Pool(s) : s \in Tokens} :
                x \in Accounts /\ x # u /\ x # Pair(t) /\ x # Treasury
        /\ \A s \in Tokens : s # t =>
                Pair(s) \in Accounts /\ Pair(s) # u /\ Pair(s) # Treasury /\ Pair(s) # Pair(t)
    BY Addresses
  <1>2. /\ pair[t] \in PairRecord /\ pair[t].sold \in Nat /\ pair[t].reserve \in Nat
        /\ native[Pair(t)] = pair[t].reserve /\ tokens[t][Pair(t)] \in Nat
        /\ amount <= tokens[t][Pair(t)]
    BY OpenPair
  <1>3. native[u] \in Nat /\ cost <= native[u]
    BY <1>1, LedgerTypes
  <1>4. /\ book \in Books /\ book[t][Pair(t)] = tokens[t][Pair(t)] - amount
        /\ \A s \in Tokens : s # t => book[s] = tokens[s]
        /\ \A x \in Accounts : x # u /\ x # Pair(t) => book[t][x] = tokens[t][x]
    BY <1>1, <1>2, LedgerTypes, MoveTokenEffect DEF Moved
  <1>5. /\ paid \in [Accounts -> Nat] /\ paid[Pair(t)] = native[Pair(t)] + cost
        /\ paid[u] = native[u] - cost
        /\ \A x \in Accounts : x # u /\ x # Pair(t) => paid[x] = native[x]
    BY <1>1, <1>3, LedgerTypes, MoveEffect
  <1> HIDE DEF paid
  <1>6. /\ funds \in [Accounts -> Nat]
        /\ \A x \in Accounts : x # u /\ x # Treasury => funds[x] = paid[x]
    <2>1. fee <= paid[u]
      BY <1>3, <1>5
    <2> QED
      BY <1>1, <1>5, <2>1, MoveEffect
  <1>7. /\ after \in PairRecord
        /\ after.sold = pair[t].sold + amount /\ after.reserve = pair[t].reserve + cost
        /\ after.target = pair[t].target /\ after.adapter = pair[t].adapter
        /\ after.active = pair[t].active
    <2>1. pair[t].sold + amount \in Nat /\ pair[t].reserve + cost \in Nat
      BY <1>2
    <2> QED
      BY <1>2, <2>1 DEF PairRecord
  <1> HIDE DEF book, funds, after
  <1>8. Bought(t, amount, cost, book, funds, after)
    BY <1>1, <1>2, <1>4, <1>5, <1>6, <1>7 DEF Bought
  <1> QED
    BY <1>8 DEF book, paid, funds, after

\* The closed records of a pair that has graduated.
LEMMA Closed ==
    ASSUME NEW after \in PairRecord
    PROVE  LET closed == [after EXCEPT !.reserve = 0, !.active = FALSE]
           IN  /\ closed \in PairRecord /\ closed # None
               /\ closed.reserve = 0 /\ ~closed.active
               /\ closed.sold = after.sold /\ closed.target = after.target
               /\ closed.adapter = after.adapter
  <1> DEFINE closed == [after EXCEPT !.reserve = 0, !.active = FALSE]
  <1>1. /\ closed \in PairRecord
        /\ closed.reserve = 0 /\ ~closed.active
        /\ closed.sold = after.sold /\ closed.target = after.target
        /\ closed.adapter = after.adapter
    BY DEF PairRecord
  <1> QED
    BY <1>1, AddressAssumption

LEMMA ToDexInv ==
    ASSUME IInv, NEW t \in Tokens, pair[t] # None, pair[t].active, pair[t].adapter = DexAdapter,
           NEW amount, NEW cost \in Nat, NEW book, NEW funds, NEW after,
           amount = Remaining(t), Bought(t, amount, cost, book, funds, after),
           pair' = [pair EXCEPT ![t] = [after EXCEPT !.reserve = 0, !.active = FALSE]],
           ToDex(t, book, funds, book[t][Pair(t)], after.reserve),
           UNCHANGED <<wiring, v3Price>>
    PROVE  IInv'
  <1> DEFINE left  == book[t][Pair(t)]
             value == after.reserve
             closed == [after EXCEPT !.reserve = 0, !.active = FALSE]
  <1>1. /\ pool' = [pool EXCEPT ![t] = Seeded(left, value, Lock)]
        /\ tokens' = MoveToken(book, t, Pair(t), Pool(t), left)
        /\ native' = Move(funds, Pair(t), Pool(t), value)
        /\ Sqrt(left * value) # 0
        /\ \/ pool[t] = None /\ poolCreator = DexAdapter
           \/ pool[t] # None /\ pool[t].shares = 0
        /\ UNCHANGED <<dexAdapter, target, factoryOf, poolCreator, position, v3Price, nativeDust>>
    BY DEF ToDex, DexAccepts, MayCreatePool, MaySeed, wiring
  <1>2. /\ Pair(t) \in Accounts /\ Pool(t) \in Accounts /\ Pair(t) # Pool(t)
        /\ \A x \in Adapters : x \in Accounts /\ x # Pair(t) /\ x # Pool(t)
        /\ \A s \in Tokens : s # t =>
                /\ Pair(s) \in Accounts /\ Pair(s) # Pair(t) /\ Pair(s) # Pool(t)
                /\ Pool(s) \in Accounts /\ Pool(s) # Pair(t) /\ Pool(s) # Pool(t)
    BY Addresses
  <1>3. /\ book \in Books /\ funds \in [Accounts -> Nat]
        /\ left \in Nat /\ value \in Nat /\ value = funds[Pair(t)]
        /\ after \in PairRecord /\ after.sold = pair[t].sold + amount
        /\ after.target = pair[t].target /\ after.adapter = DexAdapter
        /\ funds[Pool(t)] = native[Pool(t)]
    BY <1>2 DEF Bought, PairRecord, Books
  <1>4. TokenInv(t)
    BY DEF IInv
  <1>5. native[Pool(t)] = 0
    BY <1>1, <1>4 DEF TokenInv, PoolInv
  <1>6. /\ tokens' \in Books /\ tokens'[t][Pool(t)] = book[t][Pool(t)] + left
        /\ \A s \in Tokens : s # t => tokens'[s] = tokens[s]
        /\ book[t][Pool(t)] \in Nat
    <2>1. /\ tokens' \in Books /\ tokens'[t][Pool(t)] = book[t][Pool(t)] + left
          /\ \A s \in Tokens : s # t => tokens'[s] = book[s]
          /\ \A x \in Accounts : x # Pair(t) /\ x # Pool(t) => tokens'[t][x] = book[t][x]
      BY <1>1, <1>2, <1>3, MoveTokenEffect DEF Moved
    <2> QED
      BY <1>2, <1>3, <2>1 DEF Bought, Books
  <1>7. /\ native' \in [Accounts -> Nat] /\ native'[Pool(t)] = value /\ native'[Pair(t)] = 0
        /\ \A x \in Adapters : native'[x] = native[x]
        /\ \A s \in Tokens : s # t =>
                native'[Pair(s)] = native[Pair(s)] /\ native'[Pool(s)] = native[Pool(s)]
    <2> HIDE DEF value
    <2>1. /\ native' \in [Accounts -> Nat] /\ native'[Pool(t)] = funds[Pool(t)] + value
          /\ native'[Pair(t)] = funds[Pair(t)] - value
          /\ \A x \in Accounts : x # Pair(t) /\ x # Pool(t) => native'[x] = funds[x]
      BY <1>1, <1>2, <1>3, MoveEffect
    <2> QED
      BY <1>2, <1>3, <1>5, <2>1 DEF Bought
  <1>8. /\ Seeded(left, value, Lock) \in PoolRecord /\ Seeded(left, value, Lock) # None
        /\ Seeded(left, value, Lock).shares # 0
        /\ Seeded(left, value, Lock).seed # 2 =>
                IsRoot(Seeded(left, value, Lock).seed, Seeded(left, value, Lock).shares)
        /\ Seeded(left, value, Lock).tokenReserve = left
        /\ Seeded(left, value, Lock).nativeReserve = value
        /\ Seeded(left, value, Lock).owner = Lock
    <2> HIDE DEF left, value
    <2>1. Lock \in Users \cup {Lock}
      OBVIOUS
    <2> QED
      BY <1>1, <1>3, <2>1, SeededPool DEF Seeded
  <1>9. /\ pool' \in [Tokens -> PoolRecord \cup {None}] /\ pool'[t] = Seeded(left, value, Lock)
        /\ \A s \in Tokens : s # t => pool'[s] = pool[s]
    BY <1>1, <1>8 DEF IInv, TypeOK
  <1>10. /\ closed \in PairRecord /\ closed # None /\ closed.reserve = 0 /\ ~closed.active
         /\ closed.sold = after.sold /\ closed.target = after.target
         /\ closed.adapter = after.adapter
    BY <1>3, Closed
  <1>11. pair' = [pair EXCEPT ![t] = closed]
    OBVIOUS
  <1> HIDE DEF left, value, closed
  <1>12. /\ pair' \in [Tokens -> PairRecord \cup {None}] /\ pair'[t] = closed
         /\ \A s \in Tokens : s # t => pair'[s] = pair[s]
    BY <1>10, <1>11 DEF IInv, TypeOK
  <1>13. TypeOK'
    BY <1>1, <1>6, <1>7, <1>9, <1>12 DEF IInv, TypeOK, Books
  <1>14. TokenInv(t)'
    <2>1. Graduated(t)' /\ pair'[t] # None /\ pair'[t].adapter = DexAdapter
      BY <1>3, <1>10, <1>12 DEF Graduated
    <2>2. PairInv(t)'
      <3>1. pair[t].sold \in Nat /\ pair[t].target \in Nat
        BY OpenPair
      <3>2. closed.sold = closed.target
        BY <1>3, <1>10, <3>1 DEF Remaining
      <3>3. closed.target \in Nat
        BY <1>3, <1>10, <3>1
      <3>4. closed.sold <= closed.target /\ ~ (closed.sold < closed.target)
        BY <3>2, <3>3
      <3> QED
        BY <1>7, <1>10, <1>12, <3>4 DEF PairInv
    <2>3. pool'[t] # None /\ PoolInv(t)'
      <3>1. poolCreator # None
        BY <1>1, <1>4, Addresses DEF TokenInv, PoolInv
      <3> QED
        BY <1>1, <1>3, <1>6, <1>7, <1>8, <1>9, <2>1, <3>1 DEF PoolInv
    <2>4. Locked(t)'
      BY <1>8, <1>9 DEF Locked
    <2>5. position'[t] = None
      BY <1>1, <1>4 DEF TokenInv, Graduated
    <2> QED
      BY <2>1, <2>2, <2>3, <2>4, <2>5 DEF TokenInv
  <1>15. ASSUME NEW s \in Tokens, s # t PROVE TokenInv(s)'
    <2>1. \A x \in Accounts : tokens'[s][x] = tokens[s][x] /\ tokens[s][x] \in Nat
      BY <1>6, <1>15, LedgerTypes
    <2> QED
      BY <1>1, <1>7, <1>9, <1>12, <1>13, <1>15, <2>1, Addresses, Untouched
  <1>16. AdaptersInv'
    BY <1>1, <1>7, Addresses DEF IInv, AdaptersInv
  <1> QED
    BY <1>13, <1>14, <1>15, <1>16 DEF IInv

LEMMA DivMod ==
    ASSUME NEW n \in Nat, NEW d \in Nat \ {0}
    PROVE  /\ n \div d \in Nat /\ n % d \in Nat
           /\ (n \div d) * d \in Nat /\ (n \div d) * d = n - (n % d)
  BY Z3

LEMMA ToArcInv ==
    ASSUME IInv, NEW t \in Tokens, pair[t] # None, pair[t].active, pair[t].adapter = ArcAdapter,
           NEW amount, NEW cost \in Nat, NEW book, NEW funds, NEW after,
           amount = Remaining(t), Bought(t, amount, cost, book, funds, after),
           pair' = [pair EXCEPT ![t] = [after EXCEPT !.reserve = 0, !.active = FALSE]],
           ToArc(t, book, funds, book[t][Pair(t)], after.reserve),
           UNCHANGED <<wiring, v3Price>>
    PROVE  IInv'
  <1> DEFINE left   == book[t][Pair(t)]
             value  == after.reserve
             usdc   == value \div SCALE
             spent  == usdc * SCALE
             kept   == Move(funds, Pair(t), ArcAdapter, value)
             closed == [after EXCEPT !.reserve = 0, !.active = FALSE]
  <1>1. /\ position' = [position EXCEPT ![t] = [tokens |-> left, usdc |-> usdc]]
        /\ tokens' = MoveToken(book, t, Pair(t), PositionManager, left)
        /\ native' = Move(kept, ArcAdapter, PositionManager, spent)
        /\ nativeDust' = nativeDust + (value % SCALE)
        /\ UNCHANGED <<dexAdapter, target, factoryOf, poolCreator, pool, v3Price>>
    BY DEF ToArc, Dust, wiring
  <1>2. /\ Pair(t) \in Accounts /\ ArcAdapter \in Accounts /\ PositionManager \in Accounts
        /\ Pair(t) # ArcAdapter /\ Pair(t) # PositionManager /\ ArcAdapter # PositionManager
        /\ DexAdapter \in Accounts /\ DexAdapter # ArcAdapter
        /\ DexAdapter # Pair(t) /\ DexAdapter # PositionManager
        /\ \A x \in Adapters : x \in Accounts /\ x # Pair(t) /\ x # PositionManager
        /\ \A s \in Tokens : /\ Pool(s) \in Accounts /\ Pool(s) # Pair(t)
                              /\ Pool(s) # PositionManager /\ Pool(s) # ArcAdapter
        /\ \A s \in Tokens : s # t => /\ Pair(s) \in Accounts /\ Pair(s) # Pair(t)
                                       /\ Pair(s) # PositionManager /\ Pair(s) # ArcAdapter
    BY Addresses
  <1>3. /\ book \in Books /\ funds \in [Accounts -> Nat]
        /\ left \in Nat /\ value \in Nat /\ value = funds[Pair(t)]
        /\ after \in PairRecord /\ after.sold = pair[t].sold + amount
        /\ after.target = pair[t].target /\ after.adapter = ArcAdapter
    BY <1>2 DEF Bought, PairRecord, Books
  <1>4. TokenInv(t)
    BY DEF IInv
  <1>5. /\ tokens' \in Books
        /\ \A s \in Tokens : s # t => tokens'[s] = tokens[s]
        /\ tokens'[t][Pool(t)] = tokens[t][Pool(t)]
    <2>1. /\ tokens' \in Books
          /\ \A s \in Tokens : s # t => tokens'[s] = book[s]
          /\ \A x \in Accounts : x # Pair(t) /\ x # PositionManager => tokens'[t][x] = book[t][x]
      <3>1. Moved(book, tokens', t, Pair(t), PositionManager, left)
        BY <1>1, <1>2, <1>3, MoveTokenEffect
      <3>2. Pair(t) # PositionManager
        BY <1>2
      <3> QED
        BY <3>1, <3>2 DEF Moved
    <2> QED
      BY <1>2, <1>3, <2>1 DEF Bought
  <1>6. usdc \in Nat /\ spent \in Nat /\ value % SCALE \in Nat /\ spent = value - (value % SCALE)
    BY <1>3, LaunchAssumption, DivMod
  <1>7. /\ kept \in [Accounts -> Nat] /\ kept[ArcAdapter] = nativeDust + value /\ kept[Pair(t)] = 0
        /\ \A x \in Accounts : x # Pair(t) /\ x # ArcAdapter => kept[x] = funds[x]
        /\ nativeDust \in Nat
    <2> HIDE DEF value
    <2>1. /\ kept \in [Accounts -> Nat] /\ kept[ArcAdapter] = funds[ArcAdapter] + value
          /\ kept[Pair(t)] = funds[Pair(t)] - value
          /\ \A x \in Accounts : x # Pair(t) /\ x # ArcAdapter => kept[x] = funds[x]
      BY <1>2, <1>3, MoveEffect
    <2>2. funds[ArcAdapter] = nativeDust /\ nativeDust \in Nat
      BY Addresses DEF IInv, TypeOK, AdaptersInv, Bought
    <2> QED
      BY <1>3, <2>1, <2>2
  <1> HIDE DEF kept, spent
  <1>8. /\ native' \in [Accounts -> Nat] /\ native'[ArcAdapter] = nativeDust + (value % SCALE)
        /\ \A x \in Accounts : x # ArcAdapter /\ x # PositionManager => native'[x] = kept[x]
    <2> HIDE DEF value
    <2>1. spent <= kept[ArcAdapter]
      BY <1>3, <1>6, <1>7
    <2>2. /\ native' \in [Accounts -> Nat] /\ native'[ArcAdapter] = kept[ArcAdapter] - spent
          /\ \A x \in Accounts : x # ArcAdapter /\ x # PositionManager => native'[x] = kept[x]
      <3>1. native' = Move(kept, ArcAdapter, PositionManager, spent)
        BY <1>1
      <3>2. spent \in Nat /\ kept \in [Accounts -> Nat]
        BY <1>6, <1>7
      <3>3. /\ ArcAdapter \in Accounts /\ PositionManager \in Accounts
            /\ ArcAdapter # PositionManager
        BY <1>2
      <3> HIDE DEF usdc
      <3> QED
        BY <2>1, <3>1, <3>2, <3>3, MoveEffect
    <2> QED
      BY <1>3, <1>6, <1>7, <2>2
  <1>9. /\ native'[Pair(t)] = 0 /\ native'[DexAdapter] = 0
        /\ \A s \in Tokens : native'[Pool(s)] = native[Pool(s)]
        /\ \A s \in Tokens : s # t => native'[Pair(s)] = native[Pair(s)]
    <2>1. native'[Pair(t)] = 0
      BY <1>2, <1>7, <1>8
    <2>2. native'[DexAdapter] = 0
      BY <1>2, <1>7, <1>8, Addresses DEF IInv, AdaptersInv, Bought
    <2>3. \A s \in Tokens : native'[Pool(s)] = native[Pool(s)]
      BY <1>2, <1>7, <1>8 DEF Bought
    <2>4. \A s \in Tokens : s # t => native'[Pair(s)] = native[Pair(s)]
      BY <1>2, <1>7, <1>8 DEF Bought
    <2> QED
      BY <2>1, <2>2, <2>3, <2>4
  <1>10. /\ closed \in PairRecord /\ closed # None /\ closed.reserve = 0 /\ ~closed.active
         /\ closed.sold = after.sold /\ closed.target = after.target
         /\ closed.adapter = after.adapter
    BY <1>3, Closed
  <1>11. pair' = [pair EXCEPT ![t] = closed]
    OBVIOUS
  <1> HIDE DEF left, value, closed, usdc
  <1>12. /\ pair' \in [Tokens -> PairRecord \cup {None}] /\ pair'[t] = closed
         /\ \A s \in Tokens : s # t => pair'[s] = pair[s]
    BY <1>10, <1>11 DEF IInv, TypeOK
  <1>13. /\ position' \in [Tokens -> PositionRecord \cup {None}]
         /\ \A s \in Tokens : s # t => position'[s] = position[s]
    <2>1. [tokens |-> left, usdc |-> usdc] \in PositionRecord
      BY <1>3, <1>6 DEF PositionRecord
    <2> QED
      BY <1>1, <2>1 DEF IInv, TypeOK
  <1>14. nativeDust' \in Nat
    BY <1>1, <1>6, <1>7
  <1>15. TypeOK'
    BY <1>1, <1>5, <1>8, <1>12, <1>13, <1>14 DEF IInv, TypeOK, Books
  <1>16. TokenInv(t)'
    <2>1. Graduated(t)' /\ pair'[t] # None /\ pair'[t].adapter = ArcAdapter
      BY <1>3, <1>10, <1>12 DEF Graduated
    <2>2. PairInv(t)'
      <3>1. pair[t].sold \in Nat /\ pair[t].target \in Nat
        BY OpenPair
      <3>2. closed.sold = closed.target
        BY <1>3, <1>10, <3>1 DEF Remaining
      <3>3. closed.target \in Nat
        BY <1>3, <1>10, <3>1
      <3>4. closed.sold <= closed.target /\ ~ (closed.sold < closed.target)
        BY <3>2, <3>3
      <3> QED
        BY <1>9, <1>10, <1>12, <3>4 DEF PairInv
    <2>3. pool[t] # None => PoolInv(t)'
      BY <1>1, <1>4, <1>5, <1>9, <2>1 DEF TokenInv, PoolInv
    <2>4. pool[t] = None => native'[Pool(t)] = 0
      BY <1>4, <1>9 DEF TokenInv
    <2> QED
      BY <1>1, <1>2, <2>1, <2>2, <2>3, <2>4 DEF TokenInv
  <1>17. ASSUME NEW s \in Tokens, s # t PROVE TokenInv(s)'
    <2>1. \A x \in Accounts : tokens'[s][x] = tokens[s][x] /\ tokens[s][x] \in Nat
      BY <1>5, <1>17, LedgerTypes
    <2> QED
      BY <1>1, <1>9, <1>12, <1>13, <1>15, <1>17, <2>1, Addresses, Untouched
  <1>18. AdaptersInv'
    BY <1>1, <1>8, <1>9 DEF AdaptersInv
  <1> QED
    BY <1>15, <1>16, <1>17, <1>18 DEF IInv

\* Every purchase is an ordinary one, or the last one into either adapter.
Ordinary(t, amount, book, funds, after) ==
    /\ amount < Remaining(t)
    /\ pair' = [pair EXCEPT ![t] = after]
    /\ tokens' = book /\ native' = funds
    /\ UNCHANGED <<pool, position, nativeDust>>

Completing(t, amount, book, funds, after) ==
    /\ amount = Remaining(t)
    /\ pair' = [pair EXCEPT ![t] = [after EXCEPT !.reserve = 0, !.active = FALSE]]
    /\ \/ /\ pair[t].adapter = DexAdapter
          /\ ToDex(t, book, funds, book[t][Pair(t)], after.reserve)
       \/ /\ pair[t].adapter = ArcAdapter
          /\ ToArc(t, book, funds, book[t][Pair(t)], after.reserve)

LEMMA BuyCases ==
    ASSUME IInv, NEW u \in Users, NEW t \in Tokens, NEW amount \in Amounts, Buy(u, t, amount)
    PROVE  /\ pair[t] # None /\ pair[t].active /\ amount \in Nat \ {0} /\ UNCHANGED <<wiring, v3Price>>
           /\ \E cost, book, funds, after :
                /\ cost \in Nat
                /\ Bought(t, amount, cost, book, funds, after)
                /\ \/ Ordinary(t, amount, book, funds, after)
                   \/ Completing(t, amount, book, funds, after)
  <1> DEFINE cost  == CostOf(t, amount)
             fee   == CurveFee(cost)
             book  == MoveToken(tokens, t, Pair(t), u, amount)
             funds == Move(Move(native, u, Pair(t), cost), u, Treasury, fee)
             after == [pair[t] EXCEPT !.sold = @ + amount, !.reserve = @ + cost]
  <1>1. pair[t] # None /\ pair[t].active /\ amount <= Remaining(t) /\ UNCHANGED <<wiring, v3Price>>
    BY DEF Buy, Trading
  <1>2. amount \in Nat \ {0}
    BY LaunchAssumption
  <1>3. cost \in Nat
    BY <1>1, <1>2, CostBounds
  <1>4. fee \in Nat
    BY <1>3, CurveFeeBounds
  <1>5. /\ cost + fee <= native[u]
        /\ \/ /\ amount < Remaining(t)
              /\ pair' = [pair EXCEPT ![t] = after]
              /\ tokens' = book /\ native' = funds
              /\ UNCHANGED <<pool, position, nativeDust>>
           \/ /\ amount = Remaining(t)
              /\ pair' = [pair EXCEPT ![t] = [after EXCEPT !.reserve = 0, !.active = FALSE]]
              /\ \/ /\ after.adapter = DexAdapter
                    /\ ToDex(t, book, funds, book[t][Pair(t)], after.reserve)
                 \/ /\ after.adapter = ArcAdapter
                    /\ ToArc(t, book, funds, book[t][Pair(t)], after.reserve)
    BY DEF Buy
  <1> HIDE DEF cost, fee
  <1>6. Bought(t, amount, cost, book, funds, after)
    BY <1>1, <1>2, <1>3, <1>4, <1>5, BuySettles
  <1>7. after.adapter = pair[t].adapter
    BY <1>6 DEF Bought
  <1> HIDE DEF book, funds, after
  <1>8. \/ Ordinary(t, amount, book, funds, after)
        \/ Completing(t, amount, book, funds, after)
    BY <1>5, <1>7 DEF Ordinary, Completing
  <1> QED
    BY <1>1, <1>2, <1>3, <1>6, <1>8

LEMMA BuyInv ==
    ASSUME IInv, NEW u \in Users, NEW t \in Tokens, NEW amount \in Amounts, Buy(u, t, amount)
    PROVE  IInv'
  <1>1. pair[t] # None /\ pair[t].active /\ amount \in Nat \ {0} /\ UNCHANGED <<wiring, v3Price>>
    BY BuyCases
  <1>2. PICK cost, book, funds, after :
            /\ cost \in Nat
            /\ Bought(t, amount, cost, book, funds, after)
            /\ \/ Ordinary(t, amount, book, funds, after)
               \/ Completing(t, amount, book, funds, after)
    BY BuyCases
  <1>3. CASE Ordinary(t, amount, book, funds, after)
    <2>1. /\ amount < Remaining(t)
          /\ pair' = [pair EXCEPT ![t] = after]
          /\ tokens' = book /\ native' = funds
          /\ UNCHANGED <<dexAdapter, target, factoryOf, poolCreator, pool, position, v3Price, nativeDust>>
      BY <1>1, <1>3 DEF Ordinary, wiring
    <2>2. /\ pair' \in [Tokens -> PairRecord \cup {None}] /\ pair'[t] = after
          /\ \A s \in Tokens : s # t => pair'[s] = pair[s]
      BY <1>2, <2>1 DEF IInv, TypeOK, Bought
    <2>3. PairInv(t)'
      <3>1. /\ pair[t].sold \in Nat /\ pair[t].target \in Nat /\ Supply \in Nat
            /\ tokens[t][Pair(t)] \in Nat /\ native[Pair(t)] = pair[t].reserve
            /\ PairInv(t)
        BY <1>1, OpenPair
      <3>2. /\ after.sold = pair[t].sold + amount /\ after.target = pair[t].target
            /\ after.active /\ after.reserve = funds[Pair(t)]
            /\ book[t][Pair(t)] = tokens[t][Pair(t)] - amount
        BY <1>1, <1>2 DEF Bought
      <3>3. after.sold < after.target
        BY <1>1, <2>1, <3>1, <3>2 DEF Remaining
      <3> QED
        BY <1>1, <2>1, <2>2, <3>1, <3>2, <3>3 DEF PairInv
    <2> QED
      BY <1>1, <1>2, <2>1, <2>2, <2>3, PairStep DEF Bought
  <1>4. CASE Completing(t, amount, book, funds, after)
    BY <1>1, <1>2, <1>4, ToDexInv, ToArcInv DEF Completing
  <1> QED
    BY <1>2, <1>3, <1>4

-----------------------------------------------------------------------------
LEMMA NextInv == IInv /\ [Next]_vars => IInv'
  <1> SUFFICES ASSUME IInv, [Next]_vars PROVE IInv'
    OBVIOUS
  <1>1. CASE \E c \in {DexAdapter, Operator} : SetPoolCreator(c)
    BY <1>1, SetPoolCreatorInv
  <1>2. CASE \/ \E a \in Adapters : SetFactory(a) \/ SetDexAdapter(a)
             \/ \E n \in Targets : SetGraduationBps(n)
    BY <1>2, AdministrationInv
  <1>3. CASE \E u \in Users : SweepNativeDust(u)
    BY <1>3, SweepInv
  <1>4. ASSUME NEW t \in Tokens,
               \/ \E usdcFirst \in Orders : CreateToken(t, usdcFirst)
               \/ \E shouldPause \in BOOLEAN : SetPairPaused(t, shouldPause)
               \/ \E price \in V3Prices : InitializeV3Pool(t, price)
        PROVE  IInv'
    BY <1>4, CreateTokenInv, SetPairPausedInv, InitializeV3PoolInv DEF Orders
  <1>5. ASSUME NEW t \in Tokens, \E c \in Users \cup {Operator} : CreatePool(c, t)
        PROVE  IInv'
    BY <1>5, CreatePoolInv
  <1>6. ASSUME NEW t \in Tokens, NEW u \in Users, NEW amount \in Amounts,
               \/ Buy(u, t, amount) \/ Sell(u, t, amount)
               \/ \E value \in Payments : AddLiquidity(u, t, amount, value)
               \/ \E minOutput \in {0, 2}, to \in Users :
                        SwapTokenForNative(u, t, amount, minOutput, to)
               \/ \E to \in Recipients(t) : Transfer(u, t, to, amount)
        PROVE  IInv'
    BY <1>6, BuyInv, SellInv, AddLiquidityInv, SwapTokenInv, TransferInv
  <1>7. ASSUME NEW t \in Tokens, NEW u \in Users, NEW value \in Payments,
               NEW minOutput \in {0, 2}, NEW to \in Recipients(t),
               SwapNativeForToken(u, t, value, minOutput, to)
        PROVE  IInv'
    BY <1>7, SwapNativeInv
  <1>8. CASE UNCHANGED vars
    BY <1>8 DEF vars, wiring, ledger, IInv, TypeOK, AdaptersInv, TokenInv, PairInv, PoolInv,
                Locked, Graduated
  <1> QED
    BY <1>1, <1>2, <1>3, <1>4, <1>5, <1>6, <1>7, <1>8 DEF Next

LEMMA Invariance == Spec => []IInv
  <1>1. Init => IInv
    BY InitInv
  <1> QED
    BY <1>1, NextInv, PTL DEF Spec

-----------------------------------------------------------------------------
(* The properties.                                                         *)

\* The records of the contracts and the balances of the ledgers keep their
\* types; in particular no payment of PumpPair, PumpDexPool, the adapters or
\* MemeToken takes more than the payer has.
THEOREM TypeCorrect == Spec => []TypeOK
  <1>1. IInv => TypeOK
    BY DEF IInv
  <1> QED
    BY <1>1, Invariance, PTL

\* Every contract holds what it says it holds, for any number of tokens,
\* whatever users send to pairs and pools directly, and after graduations into
\* either adapter (PumpPair._graduate, PumpDexPool.swap*, sweepNativeDust).
THEOREM CustodyHolds == Spec => []Custody
  <1>1. IInv => Custody
    BY Addresses DEF IInv, AdaptersInv, TokenInv, PairInv, PoolInv, Custody, Open, Graduated
  <1> QED
    BY <1>1, Invariance, PTL

\* The liquidity of a graduated pair is the lock's for ever, and the shares are
\* the integer root that PumpDexPool._sqrt computes.
THEOREM LiquidityIsLocked == Spec => []LiquidityLocked
  <1>1. IInv => LiquidityLocked
    BY DEF IInv, TokenInv, Locked, IsRoot, LiquidityLocked
  <1> QED
    BY <1>1, Invariance, PTL

ProductKept(t) ==
    pool'[t].tokenReserve * pool'[t].nativeReserve
        >= pool[t].tokenReserve * pool[t].nativeReserve

LEMMA ProductOfUntouched ==
    ASSUME IInv, NEW t \in Tokens, pool[t] # None, pool'[t] = pool[t]
    PROVE  ProductKept(t)
  <1>1. pool[t].tokenReserve \in Nat /\ pool[t].nativeReserve \in Nat
    BY DEF IInv, TypeOK, PoolRecord
  <1>2. \A a, b \in Nat : a * b >= a * b
    BY Z3
  <1> QED
    BY <1>1, <1>2 DEF ProductKept

LEMMA ProductOfSeeded ==
    ASSUME IInv, NEW t \in Tokens, pool[t] # None, pool[t].shares = 0,
           NEW amount \in Nat, NEW value \in Nat, NEW owner,
           pool'[t] = Seeded(amount, value, owner)
    PROVE  ProductKept(t)
  <1>1. pool[t].tokenReserve = 0 /\ pool[t].nativeReserve = 0
    BY DEF IInv, TokenInv, PoolInv
  <1>2. pool'[t].tokenReserve = amount /\ pool'[t].nativeReserve = value
    BY DEF Seeded
  <1>3. amount * value >= 0 * 0
    BY Z3
  <1> QED
    BY <1>1, <1>2, <1>3 DEF ProductKept

LEMMA ProductOfBuy ==
    ASSUME IInv, NEW u \in Users, NEW s \in Tokens, NEW amount \in Amounts, Buy(u, s, amount),
           NEW t \in Tokens, pool[t] # None
    PROVE  ProductKept(t)
  <1>1. PICK cost, book, funds, after :
            /\ cost \in Nat
            /\ Bought(s, amount, cost, book, funds, after)
            /\ \/ Ordinary(s, amount, book, funds, after)
               \/ Completing(s, amount, book, funds, after)
    BY BuyCases
  <1>2. CASE pool' = pool
    BY <1>2, ProductOfUntouched
  <1>3. CASE ToDex(s, book, funds, book[s][Pair(s)], after.reserve)
    <2> DEFINE left == book[s][Pair(s)]
               value == after.reserve
    <2>1. /\ pool' = [pool EXCEPT ![s] = Seeded(left, value, Lock)]
          /\ pool[s] = None \/ pool[s].shares = 0
      BY <1>3 DEF ToDex, DexAccepts, MayCreatePool, MaySeed
    <2>2. left \in Nat /\ value \in Nat
      BY <1>1, Addresses DEF Bought, Books, PairRecord
    <2> HIDE DEF left, value
    <2>3. CASE s = t
      <3>1. pool'[t] = Seeded(left, value, Lock)
        BY <2>1, <2>3 DEF IInv, TypeOK
      <3> QED
        BY <2>1, <2>2, <2>3, <3>1, ProductOfSeeded
    <2>4. CASE s # t
      BY <2>1, <2>4, ProductOfUntouched DEF IInv, TypeOK
    <2> QED
      BY <2>3, <2>4
  <1> QED
    BY <1>1, <1>2, <1>3 DEF Ordinary, Completing, ToArc

\* No step of any contract lowers the product of the reserves of a pool:
\* swapNativeForToken and swapTokenForNative round towards the pool, and
\* addLiquidity only ever meets an empty one.
THEOREM ProductHolds == Spec => ProductNeverFalls
  <1>1. ASSUME IInv, [Next]_vars, NEW t \in Tokens, pool[t] # None
        PROVE  ProductKept(t)
    <2>1. CASE pool'[t] = pool[t]
      BY <1>1, <2>1, ProductOfUntouched
    <2>2. ASSUME NEW s \in Tokens, NEW c \in Users \cup {Operator}, CreatePool(c, s)
          PROVE  pool'[t] = pool[t]
      BY <1>1, <2>2 DEF CreatePool, MayCreatePool, IInv, TypeOK
    <2>3. ASSUME NEW s \in Tokens, NEW u \in Users, NEW amount \in Amounts, NEW value \in Payments,
                 AddLiquidity(u, s, amount, value)
          PROVE  ProductKept(t)
      <3>1. pool[s].shares = 0 /\ pool' = [pool EXCEPT ![s] = Seeded(amount, value, u)]
        BY <2>3 DEF AddLiquidity, MaySeed
      <3>2. amount \in Nat /\ value \in Nat
        BY LaunchAssumption
      <3>3. CASE s = t
        <4>1. pool'[t] = Seeded(amount, value, u)
          BY <1>1, <3>1, <3>3 DEF IInv, TypeOK
        <4> QED
          BY <1>1, <3>1, <3>2, <3>3, <4>1, ProductOfSeeded
      <3>4. CASE s # t
        BY <1>1, <2>1, <3>1, <3>4 DEF IInv, TypeOK
      <3> QED
        BY <3>3, <3>4
    <2>4. ASSUME NEW s \in Tokens, NEW u \in Users, NEW value \in Payments,
                 NEW minOutput \in {0, 2}, NEW to \in Recipients(s),
                 SwapNativeForToken(u, s, value, minOutput, to)
          PROVE  ProductKept(t)
      <3>1. CASE s = t
        BY <1>1, <2>4, <3>1, SwapNativeEffect DEF ProductKept
      <3>2. CASE s # t
        BY <1>1, <2>1, <2>4, <3>2, SwapNativeEffect
      <3> QED
        BY <3>1, <3>2
    <2>5. ASSUME NEW s \in Tokens, NEW u \in Users, NEW amount \in Amounts,
                 NEW minOutput \in {0, 2}, NEW to \in Users,
                 SwapTokenForNative(u, s, amount, minOutput, to)
          PROVE  ProductKept(t)
      <3>1. CASE s = t
        BY <1>1, <2>5, <3>1, SwapTokenEffect DEF ProductKept
      <3>2. CASE s # t
        BY <1>1, <2>1, <2>5, <3>2, SwapTokenEffect
      <3> QED
        BY <3>1, <3>2
    <2>6. ASSUME NEW s \in Tokens, NEW u \in Users, NEW amount \in Amounts, Buy(u, s, amount)
          PROVE  ProductKept(t)
      BY <1>1, <2>6, ProductOfBuy
    <2>7. ASSUME \/ \E c \in {DexAdapter, Operator} : SetPoolCreator(c)
                 \/ \E a \in Adapters : SetFactory(a) \/ SetDexAdapter(a)
                 \/ \E n \in Targets : SetGraduationBps(n)
                 \/ \E u \in Users : SweepNativeDust(u)
                 \/ UNCHANGED vars
          PROVE  pool' = pool
      BY <2>7 DEF vars, SetPoolCreator, SetFactory, SetDexAdapter, SetGraduationBps, SweepNativeDust
    <2>8. ASSUME NEW s \in Tokens,
                 \/ \E usdcFirst \in Orders : CreateToken(s, usdcFirst)
                 \/ \E price \in V3Prices : InitializeV3Pool(s, price)
                 \/ \E shouldPause \in BOOLEAN : SetPairPaused(s, shouldPause)
                 \/ \E u \in Users, amount \in Amounts :
                        Sell(u, s, amount) \/ \E to \in Recipients(s) :
                                                    Transfer(u, s, to, amount)
          PROVE  pool' = pool
      BY <1>1, <2>8, InitializeV3PoolInv DEF CreateToken, SetPairPaused, Sell, Transfer
    <2>9. CASE pool' = pool
      BY <2>1, <2>9
    <2> QED
      BY <1>1, <2>1, <2>2, <2>3, <2>4, <2>5, <2>6, <2>7, <2>8, <2>9 DEF Next
  <1>2. IInv /\ [Next]_vars =>
            [\A t \in Tokens : pool[t] # None =>
                pool'[t].tokenReserve * pool'[t].nativeReserve
                    >= pool[t].tokenReserve * pool[t].nativeReserve]_vars
    BY <1>1 DEF ProductKept
  <1> QED
    BY <1>2, Invariance, PTL DEF Spec, ProductNeverFalls

LEMMA TermsOfBuy ==
    ASSUME IInv, NEW u \in Users, NEW s \in Tokens, NEW amount \in Amounts, Buy(u, s, amount),
           NEW t \in Tokens, Open(t)
    PROVE  TermsKept(t)
  <1>1. PICK cost, book, funds, after :
            /\ cost \in Nat
            /\ Bought(s, amount, cost, book, funds, after)
            /\ \/ Ordinary(s, amount, book, funds, after)
               \/ Completing(s, amount, book, funds, after)
    BY BuyCases
  <1> DEFINE closed == [after EXCEPT !.reserve = 0, !.active = FALSE]
  <1>2. /\ after \in PairRecord /\ after # None
        /\ after.target = pair[s].target /\ after.adapter = pair[s].adapter
    BY <1>1, AddressAssumption DEF Bought
  <1>3. closed # None /\ closed.target = pair[s].target /\ closed.adapter = pair[s].adapter
    BY <1>2, Closed
  <1>4. pair' = [pair EXCEPT ![s] = after] \/ pair' = [pair EXCEPT ![s] = closed]
    BY <1>1 DEF Ordinary, Completing
  <1> HIDE DEF closed
  <1> QED
    BY <1>2, <1>3, <1>4 DEF TermsKept, Open, IInv, TypeOK

\* A pair keeps the adapter and the target that PumpFactory.createToken gave
\* it, whatever setDexAdapter and setGraduationBps do later: it closes exactly
\* when that target is sold, and becomes a position only of that adapter.
THEOREM TermsHold == Spec => TermsAreFixed
  <1>1. ASSUME IInv, [Next]_vars, NEW t \in Tokens, Open(t)
        PROVE  TermsKept(t)
    <2>1. CASE pair' = pair
      BY <1>1, <2>1 DEF TermsKept, Open
    <2>2. ASSUME NEW s \in Tokens, NEW usdcFirst \in Orders, CreateToken(s, usdcFirst)
          PROVE  TermsKept(t)
      BY <1>1, <2>2 DEF CreateToken, TermsKept, Open, IInv, TypeOK
    <2>3. ASSUME NEW s \in Tokens, NEW shouldPause \in BOOLEAN, SetPairPaused(s, shouldPause)
          PROVE  TermsKept(t)
      BY <1>1, <2>3, SetPairPausedInv DEF Open
    <2>4. ASSUME NEW s \in Tokens, NEW u \in Users, NEW amount \in Amounts,
                 Buy(u, s, amount) \/ Sell(u, s, amount)
          PROVE  TermsKept(t)
      BY <1>1, <2>4, TermsOfBuy, SellInv DEF Open
    <2>5. ASSUME \/ \E c \in {DexAdapter, Operator} : SetPoolCreator(c)
                 \/ \E a \in Adapters : SetFactory(a) \/ SetDexAdapter(a)
                 \/ \E n \in Targets : SetGraduationBps(n)
                 \/ \E u \in Users : SweepNativeDust(u)
                 \/ UNCHANGED vars
          PROVE  pair' = pair
      BY <2>5 DEF vars, SetPoolCreator, SetFactory, SetDexAdapter, SetGraduationBps, SweepNativeDust
    <2>6. ASSUME NEW s \in Tokens,
                 \/ \E price \in V3Prices : InitializeV3Pool(s, price)
                 \/ \E c \in Users \cup {Operator} : CreatePool(c, s)
                 \/ \E u \in Users, amount \in Amounts :
                        \/ \E value \in Payments : AddLiquidity(u, s, amount, value)
                        \/ \E minOutput \in {0, 2}, to \in Users :
                                SwapTokenForNative(u, s, amount, minOutput, to)
                        \/ \E to \in Recipients(s) : Transfer(u, s, to, amount)
                 \/ \E u \in Users, value \in Payments, minOutput \in {0, 2},
                       to \in Recipients(s) : SwapNativeForToken(u, s, value, minOutput, to)
          PROVE  pair' = pair
      <3>1. ASSUME NEW c \in Users \cup {Operator}, CreatePool(c, s) PROVE pair' = pair
        BY <3>1 DEF CreatePool
      <3>2. ASSUME NEW u \in Users, NEW amount \in Amounts,
                   \/ \E value \in Payments : AddLiquidity(u, s, amount, value)
                   \/ \E minOutput \in {0, 2}, to \in Users :
                          SwapTokenForNative(u, s, amount, minOutput, to)
                   \/ \E to \in Recipients(s) : Transfer(u, s, to, amount)
            PROVE  pair' = pair
        BY <3>2 DEF AddLiquidity, SwapTokenForNative, Transfer
      <3>3. ASSUME NEW u \in Users, NEW value \in Payments, NEW minOutput \in {0, 2},
                   NEW to \in Recipients(s), SwapNativeForToken(u, s, value, minOutput, to)
            PROVE  pair' = pair
        BY <3>3 DEF SwapNativeForToken
      <3> QED
        BY <1>1, <2>6, <3>1, <3>2, <3>3, InitializeV3PoolInv
    <2> QED
      BY <1>1, <2>1, <2>2, <2>3, <2>4, <2>5, <2>6 DEF Next
  <1>2. ASSUME IInv, IInv', [Next]_vars, NEW t \in Tokens, Open(t)
        PROVE  /\ pair'[t].adapter = pair[t].adapter /\ pair'[t].target = pair[t].target
               /\ ~pair'[t].active <=> pair'[t].sold = pair[t].target
               /\ position'[t] # None => pair[t].adapter = ArcAdapter
    <2>1. TermsKept(t)
      BY <1>1, <1>2
    <2>2. TokenInv(t)' /\ PairInv(t)'
      BY <1>2, <2>1 DEF IInv, TokenInv, TermsKept
    <2>3. pair'[t] \in PairRecord
      BY <1>2, <2>1 DEF IInv, TypeOK, TermsKept
    <2>4. pair'[t].sold \in Nat /\ pair'[t].target \in Targets
      BY <2>3 DEF PairRecord
    <2>5. \A n \in Targets : n \in Nat
      BY LaunchAssumption
    <2> QED
      BY <2>1, <2>2, <2>4, <2>5 DEF TermsKept, TokenInv, PairInv, Graduated
  <1>3. IInv /\ IInv' /\ [Next]_vars =>
            [\A t \in Tokens : Open(t) =>
                /\ pair'[t].adapter = pair[t].adapter /\ pair'[t].target = pair[t].target
                /\ ~pair'[t].active <=> pair'[t].sold = pair[t].target
                /\ position'[t] # None => pair[t].adapter = ArcAdapter]_vars
    BY <1>2
  <1> QED
    BY <1>3, Invariance, PTL DEF Spec, TermsAreFixed

\* A pair of PumpDexAdapter can always be completed once that is wired: a pool
\* at the pair's place would need a creator other than the adapter, every
\* completing purchase pays something, and the root of a product that is not
\* zero is not zero (PumpDexAdapter.addLiquidity, PumpDexFactory.createPool).
THEOREM WiredPairsComplete == Spec => []WiredPairsGraduate
  <1>1. ASSUME IInv, DexWired, NEW t \in Tokens, Open(t), pair[t].adapter = DexAdapter
        PROVE  DexAccepts(t, tokens[t][Pair(t)] - Remaining(t),
                          pair[t].reserve + CostOf(t, Remaining(t)))
    <2> DEFINE value  == pair[t].reserve + CostOf(t, Remaining(t))
               amount == tokens[t][Pair(t)] - Remaining(t)
    <2>1. /\ pair[t].reserve \in Nat
          /\ Remaining(t) \in Nat \ {0} /\ Remaining(t) < tokens[t][Pair(t)]
          /\ tokens[t][Pair(t)] \in Nat
      BY <1>1, OpenPair DEF Open
    <2>2. CostOf(t, Remaining(t)) \in Nat \ {0}
      BY <1>1, <2>1, CostBounds DEF Open
    <2>3. value \in Nat \ {0} /\ amount \in Nat \ {0}
      BY <2>1, <2>2
    <2> HIDE DEF value, amount
    <2>4. factoryOf[DexAdapter] /\ poolCreator = DexAdapter
      BY <1>1 DEF DexWired
    <2>5. pool[t] = None
      BY <1>1, <2>4 DEF IInv, TokenInv, PoolInv, Open, Graduated
    <2>6. amount * value \in Nat \ {0}
      BY <2>3, Z3
    <2>7. Sqrt(amount * value) # 0
      BY <2>6, SqrtIsRoot
    <2> QED
      BY <2>3, <2>4, <2>5, <2>7 DEF value, amount, DexAccepts, MayCreatePool, MaySeed, EmptyPool
  <1>2. IInv => WiredPairsGraduate
    BY <1>1 DEF WiredPairsGraduate
  <1> QED
    BY <1>2, Invariance, PTL
=============================================================================
