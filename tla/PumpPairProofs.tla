--------------------------- MODULE PumpPairProofs ---------------------------
(***************************************************************************)
(* Safety of PumpPair for every number of traders, every supply, sale      *)
(* target, pair of initial virtual reserves and fee the constructor        *)
(* accepts.  The inductive invariant is the conjunction of the type        *)
(* invariant, solvency, the token inventory and the atomicity of           *)
(* graduation: none of the last three is inductive alone, because a sell   *)
(* is payable only while the books agree, and a buy is delivered only      *)
(* while the inventory covers what is left to sell.                        *)
(***************************************************************************)
EXTENDS PumpPair, BondingCurveProofs

IInv == TypeOK /\ Solvent /\ Inventory /\ GraduationAtomic

-----------------------------------------------------------------------------
(* Moving an amount between two accounts of a ledger.                      *)

\* An account that pays another loses the amount and the other gains it.
LEMMA MoveBetween ==
    ASSUME NEW S, NEW book \in [S -> Int], NEW from \in S, NEW to \in S, from # to, NEW amount \in Int
    PROVE  /\ Move(book, from, to, amount) \in [S -> Int]
           /\ Move(book, from, to, amount)[from] = book[from] - amount
           /\ Move(book, from, to, amount)[to] = book[to] + amount
  BY DEF Move

\* Nobody else is affected, and paying oneself changes nothing.
LEMMA MoveElsewhere ==
    ASSUME NEW S, NEW book \in [S -> Int], NEW from \in S, NEW to \in S, NEW amount \in Int,
           NEW x \in S, x \notin {from, to} \/ from = to
    PROVE  /\ Move(book, from, to, amount) \in [S -> Int]
           /\ Move(book, from, to, amount)[x] = book[x]
  BY DEF Move

\* A payment that is covered leaves no account below zero.
LEMMA MoveNat ==
    ASSUME NEW S, NEW book \in [S -> Nat], NEW from \in S, NEW to \in S, NEW amount \in Nat,
           amount <= book[from]
    PROVE  Move(book, from, to, amount) \in [S -> Nat]
  <1> DEFINE m == Move(book, from, to, amount)
  <1>1. book \in [S -> Int]
    OBVIOUS
  <1>2. m \in [S -> Int]
    BY <1>1, MoveBetween, MoveElsewhere
  <1>3. ASSUME NEW x \in S PROVE m[x] \in Nat
    <2>1. CASE x = from /\ from # to
      BY <1>1, <2>1, MoveBetween
    <2>2. CASE x = to /\ from # to
      BY <1>1, <2>2, MoveBetween
    <2>3. CASE x = to /\ from = to
      BY <1>1, <2>3, MoveElsewhere
    <2>4. CASE x \notin {from, to}
      BY <1>1, <2>4, MoveElsewhere
    <2> QED
      BY <2>1, <2>2, <2>3, <2>4
  <1> QED
    BY <1>2, <1>3

-----------------------------------------------------------------------------
LEMMA InitInv == Init => IInv
  <1> SUFFICES ASSUME Init PROVE IInv
    OBVIOUS
  <1> USE AccountsAssumption, CurveAssumption, InputAssumption
  <1>1. TypeOK
    <2>1. balanceOf \in [Accounts -> Nat]
      BY DEF Init
    <2>2. native \in [Accounts -> Nat]
      BY DEF Init
    <2>3. allowance \in [Users -> Nat]
      BY DEF Init
    <2>4. paused \in BOOLEAN /\ adapterUp \in BOOLEAN
      BY DEF Init
    <2>5. /\ tokensSold \in 0 .. graduationTokenAmount
          /\ nativeReserve \in Nat /\ virtualTokenReserve \in Nat
          /\ virtualNativeReserve \in Nat \ {0} /\ donated \in Nat
      BY DEF Init
    <2>6. status \in {"ACTIVE", "GRADUATED"} /\ dexPositionId \in {0, 1}
      BY DEF Init
    <2> QED
      BY <2>1, <2>2, <2>3, <2>4, <2>5, <2>6 DEF TypeOK
  <1>2. Solvent
    BY DEF Init, Solvent, Accounts
  <1>3. Inventory
    BY DEF Init, Inventory, Accounts
  <1>4. GraduationAtomic
    BY DEF Init, GraduationAtomic
  <1> QED
    BY <1>1, <1>2, <1>3, <1>4 DEF IInv

\* The reserves of an active pair always have room for what is on sale.
LEMMA ActiveReserves ==
    ASSUME IInv, status = "ACTIVE"
    PROVE  /\ remaining \in Nat \ {0}
           /\ remaining < virtualTokenReserve
           /\ virtualTokenReserve \in Nat \ {0}
           /\ virtualNativeReserve \in Nat \ {0}
           /\ nativeReserve <= virtualNativeReserve
  BY CurveAssumption DEF IInv, TypeOK, Solvent, GraduationAtomic, remaining

\* The native ledger after a buy: the pair keeps exactly the curve cost.
LEMMA BuyFunds ==
    ASSUME TypeOK, NEW u \in Users, NEW value \in Nat, NEW cost \in Nat, NEW fee \in Nat,
           value <= native[u], Refund(value, cost, fee) >= 0
    PROVE  LET funds == Move(Move(Move(native, u, Pair, value), Pair, Treasury, fee),
                             Pair, u, Refund(value, cost, fee))
           IN  /\ funds \in [Accounts -> Nat]
               /\ funds[Pair] = native[Pair] + cost
               /\ funds[Dex] = native[Dex]
  <1> DEFINE refund == value - cost - fee
             paid    == Move(native, u, Pair, value)
             taxed   == Move(paid, Pair, Treasury, fee)
             settled == Move(taxed, Pair, u, refund)
  <1>1. /\ u \in Accounts /\ Pair \in Accounts /\ Treasury \in Accounts /\ Dex \in Accounts
        /\ u # Pair /\ u # Treasury /\ u # Dex /\ Pair # Treasury /\ Pair # Dex /\ Treasury # Dex
    BY AccountsAssumption DEF Accounts
  <1>2. native \in [Accounts -> Nat] /\ native \in [Accounts -> Int]
    BY DEF TypeOK
  <1>3. refund \in Nat /\ Refund(value, cost, fee) = refund
    BY DEF Refund
  <1>4. native[Pair] \in Nat
    BY <1>1, <1>2
  <1>5. /\ paid \in [Accounts -> Nat]
        /\ paid[Pair] = native[Pair] + value
        /\ paid[Dex] = native[Dex]
    <2>1. paid \in [Accounts -> Nat]
      BY <1>1, <1>2, MoveNat
    <2>2. paid[Pair] = native[Pair] + value
      BY <1>1, <1>2, MoveBetween
    <2>3. paid[Dex] = native[Dex]
      BY <1>1, <1>2, MoveElsewhere
    <2> QED
      BY <2>1, <2>2, <2>3
  <1>6. /\ taxed \in [Accounts -> Nat]
        /\ taxed[Pair] = native[Pair] + value - fee
        /\ taxed[Dex] = native[Dex]
    <2> HIDE DEF paid, refund
    <2>1. fee <= paid[Pair] /\ paid \in [Accounts -> Int]
      BY <1>3, <1>4, <1>5 DEF refund
    <2>2. taxed \in [Accounts -> Nat]
      BY <1>1, <1>5, <2>1, MoveNat
    <2>3. taxed[Pair] = paid[Pair] - fee
      BY <1>1, <2>1, MoveBetween
    <2>4. taxed[Dex] = paid[Dex]
      BY <1>1, <2>1, MoveElsewhere
    <2> QED
      BY <1>4, <1>5, <2>1, <2>2, <2>3, <2>4
  <1>7. /\ settled \in [Accounts -> Nat]
        /\ settled[Pair] = native[Pair] + value - fee - refund
        /\ settled[Dex] = native[Dex]
    <2> HIDE DEF taxed, refund
    <2>1. refund <= taxed[Pair] /\ taxed \in [Accounts -> Int]
      BY <1>3, <1>4, <1>6 DEF refund
    <2>2. settled \in [Accounts -> Nat]
      BY <1>1, <1>3, <1>6, <2>1, MoveNat
    <2>3. settled[Pair] = taxed[Pair] - refund
      BY <1>1, <1>3, <2>1, MoveBetween
    <2>4. settled[Dex] = taxed[Dex]
      BY <1>1, <1>3, <2>1, MoveElsewhere
    <2> QED
      BY <1>3, <1>4, <1>6, <2>1, <2>2, <2>3, <2>4
  <1>8. settled[Pair] = native[Pair] + cost
    BY <1>4, <1>7
  <1> QED
    BY <1>3, <1>7, <1>8

-----------------------------------------------------------------------------
(* The quotes, in a reachable state.                                       *)

\* What a buy needs of its quote: some tokens, no more than remain, and a
\* positive cost.
GoodQuote(output, cost, fee) ==
    /\ output \in Nat \ {0} /\ output <= remaining
    /\ cost \in Nat \ {0} /\ fee \in Nat

LEMMA QuoteBuyGood ==
    ASSUME IInv, status = "ACTIVE", NEW amount \in Nat \ {0}, amount <= remaining
    PROVE  LET cost == BuyCost(virtualTokenReserve, virtualNativeReserve, amount)
           IN  GoodQuote(amount, cost, CurveFee(cost))
  <1> DEFINE cost == BuyCost(virtualTokenReserve, virtualNativeReserve, amount)
  <1>1. virtualTokenReserve \in Nat /\ virtualNativeReserve \in Nat \ {0} /\ amount < virtualTokenReserve
    BY ActiveReserves
  <1>2. cost \in Nat \ {0}
    BY <1>1, BuyCostBounds
  <1>3. CurveFee(cost) \in Nat
    BY <1>2, CurveFeeBounds
  <1> QED
    BY <1>2, <1>3 DEF GoodQuote

LEMMA QuoteExactGood ==
    ASSUME IInv, status = "ACTIVE", NEW value \in Nat \ {0}, QuoteExact(value).tokenOutput # 0
    PROVE  GoodQuote(QuoteExact(value).tokenOutput, QuoteExact(value).curveInput, QuoteExact(value).fee)
  <1> DEFINE quote == QuoteExact(value)
             input == value - IncludedFee(value)
             out   == TokensFor(virtualTokenReserve, virtualNativeReserve, input)
             last  == BuyCost(virtualTokenReserve, virtualNativeReserve, remaining)
  <1>1. IncludedFee(value) \in Nat /\ input \in Nat \ {0}
    BY IncludedFeeBounds
  <1>2. virtualTokenReserve \in Nat \ {0} /\ virtualNativeReserve \in Nat \ {0} /\ remaining \in Nat \ {0}
    BY ActiveReserves
  <1>3. out \in Nat
    BY <1>1, <1>2, TokensForBounds
  <1>4. GoodQuote(remaining, last, CurveFee(last))
    BY <1>2, QuoteBuyGood
  <1>5. CASE out > remaining
    <2>1. quote = [tokenOutput |-> remaining, fee |-> CurveFee(last), curveInput |-> last]
      BY <1>5 DEF QuoteExact, ExactQuote
    <2> QED
      BY <2>1, <1>4
  <1>6. CASE ~ (out > remaining)
    <2>1. quote = [tokenOutput |-> out, fee |-> IncludedFee(value), curveInput |-> input]
      BY <1>6 DEF QuoteExact, ExactQuote
    <2>2. out # 0
      BY <2>1
    <2> QED
      BY <2>1, <2>2, <1>1, <1>2, <1>3, <1>6 DEF GoodQuote
  <1> QED
    BY <1>5, <1>6

-----------------------------------------------------------------------------
(* Each kind of step preserves the invariant.                              *)

LEMMA SettleBuyInv ==
    ASSUME IInv, status = "ACTIVE", NEW u \in Users, NEW value \in Nat,
           NEW output, NEW cost, NEW fee, GoodQuote(output, cost, fee),
           SettleBuy(u, value, output, cost, fee)
    PROVE  IInv'
  <1> DEFINE refund == Refund(value, cost, fee)
             tokens == Move(balanceOf, Pair, u, output)
             funds  == Move(Move(Move(native, u, Pair, value), Pair, Treasury, fee), Pair, u, refund)
  <1>1. /\ u \in Accounts /\ Pair \in Accounts /\ Dex \in Accounts
        /\ u # Pair /\ u # Dex /\ Pair # Dex
    BY AccountsAssumption DEF Accounts
  <1>2. output \in Nat \ {0} /\ output <= remaining /\ cost \in Nat \ {0} /\ fee \in Nat
    BY DEF GoodQuote
  <1>3. TypeOK /\ Solvent /\ Inventory /\ GraduationAtomic
    BY DEF IInv
  <1>4. value <= native[u] /\ output <= balanceOf[Pair] /\ refund >= 0
    BY DEF SettleBuy
  <1>5. funds \in [Accounts -> Nat] /\ funds[Pair] = native[Pair] + cost /\ funds[Dex] = native[Dex]
    BY <1>2, <1>3, <1>4, BuyFunds
  <1>6. balanceOf \in [Accounts -> Nat] /\ balanceOf \in [Accounts -> Int]
    BY <1>3 DEF TypeOK
  <1>7. tokens \in [Accounts -> Nat] /\ tokens[Pair] = balanceOf[Pair] - output
    <2>1. tokens \in [Accounts -> Nat]
      BY <1>1, <1>2, <1>4, <1>6, MoveNat
    <2>2. tokens[Pair] = balanceOf[Pair] - output
      BY <1>1, <1>2, <1>6, MoveBetween
    <2> QED
      BY <2>1, <2>2
  <1>8. /\ tokensSold' = tokensSold + output
        /\ virtualTokenReserve' = virtualTokenReserve - output
        /\ virtualNativeReserve' = virtualNativeReserve + cost
        /\ UNCHANGED <<paused, allowance, adapterUp, donated>>
    BY DEF SettleBuy
  <1>9. /\ tokensSold' \in Nat /\ tokensSold' <= graduationTokenAmount
        /\ virtualTokenReserve' \in Nat
        /\ virtualTokenReserve' = initialVirtualTokenReserve - tokensSold'
        /\ virtualNativeReserve' \in Nat \ {0}
        /\ graduationTokenAmount \in Nat
    BY <1>2, <1>3, <1>8, CurveAssumption DEF TypeOK, Solvent, remaining
  <1>10. paused' \in BOOLEAN /\ adapterUp' \in BOOLEAN /\ allowance' \in [Users -> Nat] /\ donated' \in Nat
    BY <1>3, <1>8 DEF TypeOK
  <1>11. nativeReserve \in Nat /\ native[Pair] = nativeReserve /\ native[Dex] \in Nat
    BY <1>1, <1>3 DEF TypeOK, Solvent
  <1> HIDE DEF tokens, funds, refund
  <1>12. CASE tokensSold + output # graduationTokenAmount
    <2>1. nativeReserve' = nativeReserve + cost /\ balanceOf' = tokens /\ native' = funds /\ UNCHANGED phase
      BY <1>12 DEF SettleBuy, tokens, funds, refund
    <2>2. status' = "ACTIVE" /\ dexPositionId' = dexPositionId /\ dexPositionId = 0
      BY <1>3, <2>1 DEF phase, GraduationAtomic, TypeOK
    <2>3. TypeOK'
      BY <1>2, <1>5, <1>7, <1>9, <1>10, <1>11, <2>1, <2>2 DEF TypeOK
    <2>4. Solvent'
      BY <1>2, <1>3, <1>5, <1>8, <1>9, <1>11, <2>1, <2>2, CurveAssumption DEF Solvent
    <2>5. Inventory'
      <3>1. tokensSold + balanceOf[Pair] = initialSupply + donated
        BY <1>3 DEF Inventory
      <3>2. tokensSold \in Nat /\ balanceOf[Pair] \in Nat
        BY <1>1, <1>3 DEF TypeOK
      <3> QED
        BY <1>2, <1>7, <1>8, <2>1, <3>1, <3>2 DEF Inventory
    <2>6. GraduationAtomic'
      BY <1>8, <1>9, <1>12, <2>2 DEF GraduationAtomic
    <2> QED
      BY <2>3, <2>4, <2>5, <2>6 DEF IInv
  <1>13. CASE tokensSold + output = graduationTokenAmount
    <2> DEFINE reserve == nativeReserve + cost
    <2>1. Graduate(tokens, funds, reserve)
      BY <1>13 DEF SettleBuy, tokens, funds, refund
    <2>2. /\ status' = "GRADUATED" /\ dexPositionId' = 1 /\ nativeReserve' = 0
          /\ balanceOf' = Move(tokens, Pair, Dex, tokens[Pair])
          /\ native' = Move(funds, Pair, Dex, reserve)
      BY <2>1 DEF Graduate
    <2>3. reserve \in Nat \ {0} /\ reserve = funds[Pair]
      BY <1>2, <1>5, <1>11
    <2>4. balanceOf' \in [Accounts -> Nat]
      <3>1. tokens[Pair] \in Nat
        BY <1>1, <1>7
      <3> QED
        BY <1>1, <1>7, <2>2, <3>1, MoveNat
    <2>5. native' \in [Accounts -> Nat]
      BY <1>1, <1>5, <2>2, <2>3, MoveNat
    <2>6. native'[Pair] = 0 /\ native'[Dex] > 0
      <3> HIDE DEF reserve
      <3>1. funds \in [Accounts -> Int] /\ reserve \in Int
        BY <1>5, <2>3
      <3>2. native'[Pair] = funds[Pair] - reserve /\ native'[Dex] = funds[Dex] + reserve
        BY <1>1, <2>2, <3>1, MoveBetween
      <3> QED
        BY <1>5, <1>11, <2>3, <3>2
    <2>7. TypeOK'
      BY <1>9, <1>10, <2>2, <2>4, <2>5 DEF TypeOK
    <2>8. Solvent' /\ Inventory'
      BY <1>9, <2>2, <2>6 DEF Solvent, Inventory
    <2>9. GraduationAtomic'
      BY <1>8, <1>9, <1>13, <2>2, <2>6 DEF GraduationAtomic
    <2> QED
      BY <2>7, <2>8, <2>9 DEF IInv
  <1> QED
    BY <1>12, <1>13

LEMMA SellInv ==
    ASSUME IInv, NEW u \in Users, NEW amount \in Nat, NEW minNativeOutput \in Nat,
           Sell(u, amount, minNativeOutput)
    PROVE  IInv'
  <1> DEFINE gross == SellGross(virtualTokenReserve, virtualNativeReserve, nativeReserve, amount)
             fee   == CurveFee(gross)
             taxed == Move(native, Pair, Treasury, fee)
  <1>1. /\ u \in Accounts /\ Pair \in Accounts /\ Treasury \in Accounts /\ Dex \in Accounts
        /\ u # Pair /\ u # Dex /\ Pair # Dex /\ Pair # Treasury /\ Dex # Treasury
    BY AccountsAssumption DEF Accounts
  <1>2. TypeOK /\ Solvent /\ Inventory /\ GraduationAtomic
    BY DEF IInv
  <1>3. /\ status = "ACTIVE" /\ amount \in Nat \ {0} /\ amount <= tokensSold
        /\ gross <= nativeReserve /\ gross <= native[Pair]
        /\ amount <= allowance[u] /\ amount <= balanceOf[u]
    BY DEF Sell, Trading
  <1>4. /\ tokensSold' = tokensSold - amount
        /\ nativeReserve' = nativeReserve - gross
        /\ virtualTokenReserve' = virtualTokenReserve + amount
        /\ virtualNativeReserve' = virtualNativeReserve - gross
        /\ allowance' = Spend(u, amount)
        /\ balanceOf' = Move(balanceOf, u, Pair, amount)
        /\ native' = Move(taxed, Pair, u, gross - fee)
        /\ UNCHANGED <<phase, paused, adapterUp, donated>>
    BY DEF Sell
  <1>5. gross \in Nat
    <2>1. virtualTokenReserve \in Nat /\ virtualNativeReserve \in Nat \ {0}
          /\ nativeReserve \in Nat /\ nativeReserve <= virtualNativeReserve
      BY <1>2, <1>3, ActiveReserves DEF TypeOK
    <2> QED
      BY <1>3, <2>1, SellGrossBounds
  <1>6. fee \in Nat /\ fee <= gross
    BY <1>5, CurveFeeBounds
  <1> HIDE DEF gross, fee
  <1>7. native \in [Accounts -> Nat] /\ native \in [Accounts -> Int] /\ native[Pair] \in Nat /\ native[Dex] \in Nat
    BY <1>1, <1>2 DEF TypeOK
  <1>8. taxed \in [Accounts -> Nat] /\ taxed[Pair] = native[Pair] - fee /\ taxed[Dex] = native[Dex]
    <2>1. fee <= native[Pair]
      BY <1>3, <1>5, <1>6, <1>7
    <2>2. taxed \in [Accounts -> Nat]
      BY <1>1, <1>6, <1>7, <2>1, MoveNat
    <2>3. taxed[Pair] = native[Pair] - fee
      BY <1>1, <1>6, <1>7, MoveBetween
    <2>4. taxed[Dex] = native[Dex]
      BY <1>1, <1>6, <1>7, MoveElsewhere
    <2> QED
      BY <2>2, <2>3, <2>4
  <1> HIDE DEF taxed
  <1>9. native' \in [Accounts -> Nat] /\ native'[Pair] = native[Pair] - gross /\ native'[Dex] = native[Dex]
    <2>1. gross - fee \in Nat /\ gross - fee <= taxed[Pair] /\ taxed \in [Accounts -> Int]
      <3>1. gross <= native[Pair] /\ gross - fee \in Nat
        BY <1>3, <1>5, <1>6, <1>7
      <3>2. taxed[Pair] = native[Pair] - fee /\ taxed \in [Accounts -> Int]
        BY <1>8
      <3> QED
        BY <1>5, <1>6, <1>7, <3>1, <3>2
    <2>2. native' \in [Accounts -> Nat]
      BY <1>1, <1>4, <1>8, <2>1, MoveNat
    <2>3. native'[Pair] = taxed[Pair] - (gross - fee)
      BY <1>1, <1>4, <2>1, MoveBetween
    <2>4. native'[Dex] = taxed[Dex]
      BY <1>1, <1>4, <2>1, MoveElsewhere
    <2> QED
      BY <1>5, <1>6, <1>7, <1>8, <2>2, <2>3, <2>4
  <1>10. balanceOf' \in [Accounts -> Nat] /\ balanceOf'[Pair] = balanceOf[Pair] + amount
    <2>1. balanceOf \in [Accounts -> Nat] /\ balanceOf \in [Accounts -> Int]
      BY <1>2 DEF TypeOK
    <2>2. balanceOf' \in [Accounts -> Nat]
      BY <1>1, <1>3, <1>4, <2>1, MoveNat
    <2>3. balanceOf'[Pair] = balanceOf[Pair] + amount
      BY <1>1, <1>3, <1>4, <2>1, MoveBetween
    <2> QED
      BY <2>2, <2>3
  <1>11. allowance' \in [Users -> Nat]
    <2>1. allowance \in [Users -> Nat]
      BY <1>2 DEF TypeOK
    <2>2. allowance[u] - amount \in Nat
      BY <1>3, <2>1
    <2> QED
      BY <1>4, <2>1, <2>2 DEF Spend
  <1>12. status' = status /\ dexPositionId' = dexPositionId
    BY <1>4 DEF phase
  <1>13. TypeOK'
    <2>1. paused' \in BOOLEAN /\ adapterUp' \in BOOLEAN
      BY <1>2, <1>4 DEF TypeOK
    <2>2. virtualNativeReserve' \in Nat \ {0}
      BY <1>2, <1>3, <1>4, <1>5, CurveAssumption DEF TypeOK, Solvent
    <2>3. tokensSold' \in 0 .. graduationTokenAmount /\ nativeReserve' \in Nat /\ virtualTokenReserve' \in Nat
      BY <1>2, <1>3, <1>4, <1>5, CurveAssumption DEF TypeOK
    <2>4. status' \in {"ACTIVE", "GRADUATED"} /\ dexPositionId' \in {0, 1} /\ donated' \in Nat
      BY <1>2, <1>4, <1>12 DEF TypeOK
    <2> QED
      BY <1>9, <1>10, <1>11, <2>1, <2>2, <2>3, <2>4 DEF TypeOK
  <1>14. Solvent'
    BY <1>2, <1>3, <1>4, <1>5, <1>9, CurveAssumption DEF Solvent, TypeOK
  <1>15. Inventory'
    <2>1. tokensSold \in Nat /\ balanceOf[Pair] \in Nat
      BY <1>1, <1>2 DEF TypeOK
    <2> QED
      BY <1>2, <1>3, <1>4, <1>10, <2>1 DEF Inventory
  <1>16. GraduationAtomic'
    <2>1. tokensSold \in Nat /\ graduationTokenAmount \in Nat /\ tokensSold < graduationTokenAmount
      BY <1>2, <1>3, CurveAssumption DEF TypeOK, GraduationAtomic
    <2> QED
      BY <1>2, <1>3, <1>4, <1>12, <2>1 DEF GraduationAtomic
  <1> QED
    BY <1>13, <1>14, <1>15, <1>16 DEF IInv

\* A transfer to the pair grows its inventory and the donations alike; any
\* other transfer leaves both alone.
LEMMA TransferInv ==
    ASSUME IInv, NEW u \in Users, NEW to \in Users \cup {Pair}, NEW amount \in Nat,
           Transfer(u, to, amount)
    PROVE  IInv'
  <1>1. u \in Accounts /\ to \in Accounts /\ Pair \in Accounts /\ u # Pair
    BY AccountsAssumption DEF Accounts
  <1>2. balanceOf \in [Accounts -> Nat] /\ balanceOf \in [Accounts -> Int] /\ donated \in Nat
    BY DEF IInv, TypeOK
  <1>3. /\ amount <= balanceOf[u]
        /\ balanceOf' = Move(balanceOf, u, to, amount)
        /\ donated' = IF to = Pair THEN donated + amount ELSE donated
        /\ UNCHANGED <<curve, phase, paused, allowance, native, adapterUp>>
    BY DEF Transfer
  <1>4. balanceOf' \in [Accounts -> Nat]
    BY <1>1, <1>2, <1>3, MoveNat
  <1>5. TypeOK'
    <2>1. donated' \in Nat
      BY <1>2, <1>3
    <2> QED
      BY <1>3, <1>4, <2>1 DEF IInv, TypeOK, curve, phase
  <1>6. Solvent' /\ GraduationAtomic'
    BY <1>3 DEF IInv, Solvent, GraduationAtomic, curve, phase
  <1>7. Inventory'
    <2>1. CASE to = Pair
      <3>1. balanceOf'[Pair] = balanceOf[Pair] + amount
        BY <1>1, <1>2, <1>3, <2>1, MoveBetween
      <3>2. balanceOf[Pair] \in Nat /\ tokensSold \in Nat
        BY <1>1, <1>2 DEF IInv, TypeOK
      <3>3. tokensSold' = tokensSold /\ status' = status /\ donated' = donated + amount
        BY <1>3, <2>1 DEF curve, phase
      <3> QED
        BY CurveAssumption, <1>2, <3>1, <3>2, <3>3 DEF IInv, Inventory
    <2>2. CASE to # Pair
      <3>1. balanceOf'[Pair] = balanceOf[Pair]
        BY <1>1, <1>2, <1>3, <2>2, MoveElsewhere
      <3> QED
        BY <1>3, <2>2, <3>1 DEF IInv, Inventory, curve, phase
    <2> QED
      BY <2>1, <2>2
  <1> QED
    BY <1>5, <1>6, <1>7 DEF IInv

LEMMA WithdrawInv ==
    ASSUME IInv, NEW recipient \in Users, NEW amount \in Nat, Withdraw(recipient, amount)
    PROVE  IInv'
  <1>1. /\ recipient \in Accounts /\ Pair \in Accounts /\ Treasury \in Accounts /\ Dex \in Accounts
        /\ Pair \notin {Treasury, recipient} /\ Dex \notin {Treasury, recipient}
    BY AccountsAssumption DEF Accounts
  <1>2. native \in [Accounts -> Nat] /\ native \in [Accounts -> Int]
    BY DEF IInv, TypeOK
  <1>3. /\ amount <= native[Treasury]
        /\ native' = Move(native, Treasury, recipient, amount)
        /\ UNCHANGED <<curve, phase, paused, balanceOf, allowance, adapterUp, donated>>
    BY DEF Withdraw
  <1>4. native' \in [Accounts -> Nat]
    BY <1>1, <1>2, <1>3, MoveNat
  <1>5. native'[Pair] = native[Pair]
    BY <1>1, <1>2, <1>3, MoveElsewhere
  <1>6. native'[Dex] = native[Dex]
    BY <1>1, <1>2, <1>3, MoveElsewhere
  <1>7. TypeOK'
    BY <1>3, <1>4 DEF IInv, TypeOK, curve, phase
  <1>8. Solvent' /\ Inventory' /\ GraduationAtomic'
    BY <1>3, <1>5, <1>6 DEF IInv, Solvent, Inventory, GraduationAtomic, curve, phase
  <1> QED
    BY <1>7, <1>8 DEF IInv

\* Pausing, approving and the adapter's mood move nothing the invariant reads.
LEMMA QuietInv ==
    ASSUME IInv, UNCHANGED <<curve, phase, balanceOf, native, donated>>,
           paused' \in BOOLEAN, adapterUp' \in BOOLEAN, allowance' \in [Users -> Nat]
    PROVE  IInv'
  <1>1. TypeOK'
    BY DEF IInv, TypeOK, curve, phase
  <1>2. Solvent' /\ Inventory' /\ GraduationAtomic'
    BY DEF IInv, Solvent, Inventory, GraduationAtomic, curve, phase
  <1> QED
    BY <1>1, <1>2 DEF IInv

-----------------------------------------------------------------------------
LEMMA NextInv == IInv /\ [Next]_vars => IInv'
  <1> SUFFICES ASSUME IInv, [Next]_vars PROVE IInv'
    OBVIOUS
  <1>0. Payments \subseteq Nat /\ TokenAmounts \subseteq Nat /\ Allowances \subseteq Nat
    BY InputAssumption, CurveAssumption DEF TokenAmounts
  <1>1. ASSUME NEW u \in Users, NEW amount \in TokenAmounts, NEW maxNativeInput \in Payments,
               NEW value \in Payments, Buy(u, amount, maxNativeInput, value)
        PROVE  IInv'
    <2> DEFINE cost == BuyCost(virtualTokenReserve, virtualNativeReserve, amount)
    <2>1. status = "ACTIVE" /\ amount \in Nat \ {0} /\ tokensSold + amount <= graduationTokenAmount
      BY <1>0, <1>1 DEF Buy, Trading
    <2>2. amount <= remaining
      BY <2>1, CurveAssumption DEF remaining, IInv, TypeOK
    <2>3. GoodQuote(amount, cost, CurveFee(cost))
      BY <2>1, <2>2, QuoteBuyGood
    <2>4. SettleBuy(u, value, amount, cost, CurveFee(cost)) /\ value \in Nat
      BY <1>0, <1>1 DEF Buy
    <2> QED
      BY <2>1, <2>3, <2>4, SettleBuyInv
  <1>2. ASSUME NEW u \in Users, NEW value \in Payments, NEW minTokenOutput \in TokenAmounts,
               BuyExactNative(u, value, minTokenOutput)
        PROVE  IInv'
    <2> DEFINE quote == QuoteExact(value)
    <2>1. status = "ACTIVE" /\ value \in Nat \ {0} /\ quote.tokenOutput # 0
      BY <1>0, <1>2 DEF BuyExactNative, Trading
    <2>2. GoodQuote(quote.tokenOutput, quote.curveInput, quote.fee)
      BY <2>1, QuoteExactGood
    <2>3. SettleBuy(u, value, quote.tokenOutput, quote.curveInput, quote.fee)
      BY <1>2 DEF BuyExactNative
    <2> QED
      BY <2>1, <2>2, <2>3, SettleBuyInv
  <1>3. ASSUME NEW u \in Users, NEW amount \in TokenAmounts, NEW minNativeOutput \in Payments,
               Sell(u, amount, minNativeOutput)
        PROVE  IInv'
    BY <1>0, <1>3, SellInv
  <1>4. ASSUME NEW shouldPause \in BOOLEAN, SetPaused(shouldPause)
        PROVE  IInv'
    BY <1>4, QuietInv DEF SetPaused, ledger, IInv, TypeOK
  <1>5. ASSUME NEW u \in Users, NEW amount \in Allowances, Approve(u, amount)
        PROVE  IInv'
    <2>1. allowance' \in [Users -> Nat]
      BY <1>0, <1>5 DEF Approve, IInv, TypeOK
    <2> QED
      BY <1>5, <2>1, QuietInv DEF Approve, IInv, TypeOK
  <1>6. ASSUME NEW u \in Users, NEW to \in Users \cup {Pair}, NEW amount \in TokenAmounts,
               Transfer(u, to, amount)
        PROVE  IInv'
    BY <1>0, <1>6, TransferInv
  <1>7. ASSUME NEW recipient \in Users, NEW amount \in Payments, Withdraw(recipient, amount)
        PROVE  IInv'
    BY <1>0, <1>7, WithdrawInv
  <1>8. CASE AdapterChanges
    <2>1. adapterUp' \in BOOLEAN
      BY <1>8 DEF AdapterChanges, IInv, TypeOK
    <2> QED
      BY <1>8, <2>1, QuietInv DEF AdapterChanges, ledger, IInv, TypeOK
  <1>9. CASE UNCHANGED vars
    BY <1>9, QuietInv DEF vars, ledger, IInv, TypeOK
  <1> QED
    BY <1>1, <1>2, <1>3, <1>4, <1>5, <1>6, <1>7, <1>8, <1>9 DEF Next

\* The inductive invariant holds in every reachable state.
LEMMA Invariance == Spec => []IInv
  <1>1. Init => IInv
    BY InitInv
  <1>2. IInv /\ [Next]_vars => IInv'
    BY NextInv
  <1> QED
    BY <1>1, <1>2, PTL DEF Spec

\* Every balance, allowance and reserve stays a natural number, so that no
\* subtraction of the contract (quotes, refunds, transfers) underflows, and
\* the pair never sells more than graduationTokenAmount.
THEOREM TypeCorrect == Spec => []TypeOK
  <1>1. IInv => TypeOK
    BY DEF IInv
  <1> QED
    BY <1>1, Invariance, PTL

\* Whatever is bought, sold, refunded or sent to it, an active pair holds
\* exactly the native it has recorded, and its virtual reserves are the
\* initial ones moved by what was sold and by what it holds.
THEOREM Solvency == Spec => []Solvent
  <1>1. IInv => Solvent
    BY DEF IInv
  <1> QED
    BY <1>1, Invariance, PTL

\* What an active pair has sold, and what is left in it, is the supply and
\* what was donated to it: no buy can fail for want of tokens.
THEOREM InventoryKept == Spec => []Inventory
  <1>1. IInv => Inventory
    BY DEF IInv
  <1> QED
    BY <1>1, Invariance, PTL

\* There is no half graduation: status, position, reserve and the liquidity
\* given to the adapter change in the transaction that sells the last token.
THEOREM GraduationIsAtomic == Spec => []GraduationAtomic
  <1>1. IInv => GraduationAtomic
    BY DEF IInv
  <1> QED
    BY <1>1, Invariance, PTL

-----------------------------------------------------------------------------
(* Action properties and refinement, from the same invariant.              *)

\* What a step can do to the reserves: a priced buy, a priced sell, or
\* nothing at all; and only the first can change the status.
Bought == \E output \in Nat \ {0}, cost \in Nat \ {0} :
    /\ status = "ACTIVE"
    /\ output <= remaining
    /\ (virtualNativeReserve + cost) * (virtualTokenReserve - output) >= product
    /\ tokensSold' = tokensSold + output
    /\ virtualTokenReserve' = virtualTokenReserve - output
    /\ virtualNativeReserve' = virtualNativeReserve + cost
    /\ status' = status => nativeReserve' = nativeReserve + cost

Sold == \E amount \in Nat \ {0}, gross \in Nat :
    /\ status = "ACTIVE" /\ status' = "ACTIVE"
    /\ gross <= nativeReserve
    /\ amount <= tokensSold
    /\ (virtualNativeReserve - gross) * (virtualTokenReserve + amount)
          + (virtualTokenReserve + amount) > product
    /\ tokensSold' = tokensSold - amount
    /\ virtualTokenReserve' = virtualTokenReserve + amount
    /\ virtualNativeReserve' = virtualNativeReserve - gross
    /\ nativeReserve' = nativeReserve - gross

\* quoteBuy never charges less than the product demands.
LEMMA QuoteBuyCovers ==
    ASSUME IInv, status = "ACTIVE", NEW amount \in Nat \ {0}, amount <= remaining
    PROVE  (virtualNativeReserve + BuyCost(virtualTokenReserve, virtualNativeReserve, amount))
             * (virtualTokenReserve - amount) >= product
  <1>1. virtualTokenReserve \in Nat /\ virtualNativeReserve \in Nat \ {0} /\ amount < virtualTokenReserve
    BY ActiveReserves
  <1> QED
    BY <1>1, BuyCostBounds DEF product

\* Neither does quoteBuyExactNative, capped or not.
LEMMA QuoteExactCovers ==
    ASSUME IInv, status = "ACTIVE", NEW value \in Nat \ {0}, QuoteExact(value).tokenOutput # 0
    PROVE  (virtualNativeReserve + QuoteExact(value).curveInput)
             * (virtualTokenReserve - QuoteExact(value).tokenOutput) >= product
  <1> DEFINE quote == QuoteExact(value)
             input == value - IncludedFee(value)
             out   == TokensFor(virtualTokenReserve, virtualNativeReserve, input)
             last  == BuyCost(virtualTokenReserve, virtualNativeReserve, remaining)
  <1>1. input \in Nat \ {0}
    BY IncludedFeeBounds
  <1>2. virtualTokenReserve \in Nat \ {0} /\ virtualNativeReserve \in Nat \ {0} /\ remaining \in Nat \ {0}
    BY ActiveReserves
  <1>3. (virtualNativeReserve + input) * (virtualTokenReserve - out) >= product
    BY <1>1, <1>2, TokensForBounds DEF product
  <1>4. (virtualNativeReserve + last) * (virtualTokenReserve - remaining) >= product
    BY <1>2, QuoteBuyCovers
  <1>5. CASE out > remaining
    <2>1. quote = [tokenOutput |-> remaining, fee |-> CurveFee(last), curveInput |-> last]
      BY <1>5 DEF QuoteExact, ExactQuote
    <2> QED
      BY <2>1, <1>4
  <1>6. CASE ~ (out > remaining)
    <2>1. quote = [tokenOutput |-> out, fee |-> IncludedFee(value), curveInput |-> input]
      BY <1>6 DEF QuoteExact, ExactQuote
    <2> QED
      BY <2>1, <1>3
  <1> QED
    BY <1>5, <1>6

LEMMA SettleBuyBought ==
    ASSUME IInv, status = "ACTIVE", NEW u, NEW value, NEW output, NEW cost, NEW fee,
           GoodQuote(output, cost, fee), SettleBuy(u, value, output, cost, fee),
           (virtualNativeReserve + cost) * (virtualTokenReserve - output) >= product
    PROVE  Bought
  <1>1. output \in Nat \ {0} /\ output <= remaining /\ cost \in Nat \ {0}
    BY DEF GoodQuote
  <1>2. status' = status => nativeReserve' = nativeReserve + cost
    BY DEF SettleBuy, Graduate
  <1>3. /\ tokensSold' = tokensSold + output
        /\ virtualTokenReserve' = virtualTokenReserve - output
        /\ virtualNativeReserve' = virtualNativeReserve + cost
    BY DEF SettleBuy
  <1> QED
    BY <1>1, <1>2, <1>3 DEF Bought

LEMMA StepKinds ==
    ASSUME IInv, [Next]_vars
    PROVE  Bought \/ Sold \/ UNCHANGED <<curve, phase, native[Pair]>>
  <1>0. Payments \subseteq Nat /\ TokenAmounts \subseteq Nat
    BY InputAssumption, CurveAssumption DEF TokenAmounts
  <1>1. ASSUME NEW u \in Users, NEW amount \in TokenAmounts, NEW maxNativeInput \in Payments,
               NEW value \in Payments, Buy(u, amount, maxNativeInput, value)
        PROVE  Bought
    <2> DEFINE cost == BuyCost(virtualTokenReserve, virtualNativeReserve, amount)
    <2>1. status = "ACTIVE" /\ amount \in Nat \ {0} /\ tokensSold + amount <= graduationTokenAmount
      BY <1>0, <1>1 DEF Buy, Trading
    <2>2. amount <= remaining
      BY <2>1, CurveAssumption DEF remaining, IInv, TypeOK
    <2>3. SettleBuy(u, value, amount, cost, CurveFee(cost))
      BY <1>1 DEF Buy
    <2>4. GoodQuote(amount, cost, CurveFee(cost))
      BY <2>1, <2>2, QuoteBuyGood
    <2>5. (virtualNativeReserve + cost) * (virtualTokenReserve - amount) >= product
      BY <2>1, <2>2, QuoteBuyCovers
    <2> HIDE DEF cost
    <2> QED
      BY <2>1, <2>3, <2>4, <2>5, SettleBuyBought
  <1>2. ASSUME NEW u \in Users, NEW value \in Payments, NEW minTokenOutput \in TokenAmounts,
               BuyExactNative(u, value, minTokenOutput)
        PROVE  Bought
    <2> DEFINE quote == QuoteExact(value)
    <2>1. status = "ACTIVE" /\ value \in Nat \ {0} /\ quote.tokenOutput # 0
      BY <1>0, <1>2 DEF BuyExactNative, Trading
    <2>2. SettleBuy(u, value, quote.tokenOutput, quote.curveInput, quote.fee)
      BY <1>2 DEF BuyExactNative
    <2>3. GoodQuote(quote.tokenOutput, quote.curveInput, quote.fee)
      BY <2>1, QuoteExactGood
    <2>4. (virtualNativeReserve + quote.curveInput) * (virtualTokenReserve - quote.tokenOutput) >= product
      BY <2>1, QuoteExactCovers
    <2> HIDE DEF quote
    <2> QED
      BY <2>1, <2>2, <2>3, <2>4, SettleBuyBought
  <1>3. ASSUME NEW u \in Users, NEW amount \in TokenAmounts, NEW minNativeOutput \in Payments,
               Sell(u, amount, minNativeOutput)
        PROVE  Sold
    <2> DEFINE gross == SellGross(virtualTokenReserve, virtualNativeReserve, nativeReserve, amount)
    <2>1. status = "ACTIVE" /\ status' = status /\ amount \in Nat \ {0} /\ amount <= tokensSold
      BY <1>0, <1>3 DEF Sell, Trading, phase
    <2>2. virtualTokenReserve \in Nat /\ virtualNativeReserve \in Nat \ {0}
          /\ nativeReserve \in Nat /\ nativeReserve <= virtualNativeReserve
      BY <2>1, ActiveReserves DEF IInv, TypeOK
    <2>3. /\ gross \in Nat /\ gross <= nativeReserve
          /\ (virtualNativeReserve - gross) * (virtualTokenReserve + amount)
               + (virtualTokenReserve + amount) > product
      BY <2>1, <2>2, SellGrossBounds DEF product
    <2>4. /\ tokensSold' = tokensSold - amount
          /\ virtualTokenReserve' = virtualTokenReserve + amount
          /\ virtualNativeReserve' = virtualNativeReserve - gross
          /\ nativeReserve' = nativeReserve - gross
      BY <1>3 DEF Sell
    <2> HIDE DEF gross
    <2> QED
      BY <2>1, <2>3, <2>4 DEF Sold
  <1>4. ASSUME NEW recipient \in Users, NEW amount \in Payments, Withdraw(recipient, amount)
        PROVE  UNCHANGED <<curve, phase, native[Pair]>>
    <2>1. /\ recipient \in Accounts /\ Pair \in Accounts /\ Treasury \in Accounts
          /\ Pair \notin {Treasury, recipient}
      BY AccountsAssumption DEF Accounts
    <2>2. native \in [Accounts -> Int] /\ amount \in Int
      BY <1>0 DEF IInv, TypeOK
    <2>3. native' = Move(native, Treasury, recipient, amount)
      BY <1>4 DEF Withdraw
    <2>4. native'[Pair] = native[Pair]
      BY <2>1, <2>2, <2>3, MoveElsewhere
    <2> QED
      BY <1>4, <2>4 DEF Withdraw
  <1>5. CASE \/ \E shouldPause \in BOOLEAN : SetPaused(shouldPause)
             \/ \E u \in Users, amount \in Allowances : Approve(u, amount)
             \/ \E u \in Users, to \in Users \cup {Pair}, amount \in TokenAmounts : Transfer(u, to, amount)
             \/ AdapterChanges
             \/ UNCHANGED vars
    BY <1>5 DEF SetPaused, Approve, Transfer, AdapterChanges, vars, ledger
  <1> QED
    BY <1>1, <1>2, <1>3, <1>4, <1>5 DEF Next

\* After graduation nothing moves the curve or the status again.
THEOREM GraduationIsFinal == Spec => ClosedForever
  <1>1. IInv /\ [Next]_vars => [status = "GRADUATED" => UNCHANGED <<curve, phase>>]_vars
    <2> SUFFICES ASSUME IInv, [Next]_vars, status = "GRADUATED"
                 PROVE  UNCHANGED <<curve, phase>>
      OBVIOUS
    <2>1. ~ Bought /\ ~ Sold
      BY DEF Bought, Sold
    <2> QED
      BY <2>1, StepKinds
  <1>2. Init => IInv
    BY InitInv
  <1>3. IInv /\ [Next]_vars => IInv'
    BY NextInv
  <1> QED
    BY <1>1, <1>2, <1>3, PTL DEF Spec, ClosedForever

\* No buy is ever under-priced and no sell over-priced by more than the
\* rounding of its one division.
THEOREM Rounding == Spec => RoundingBounded
  <1>1. IInv /\ [Next]_vars =>
          [/\ tokensSold' > tokensSold => product' >= product
           /\ tokensSold' < tokensSold => product' + virtualTokenReserve' > product]_vars
    <2> SUFFICES ASSUME IInv, [Next]_vars
                 PROVE  /\ tokensSold' > tokensSold => product' >= product
                        /\ tokensSold' < tokensSold => product' + virtualTokenReserve' > product
      OBVIOUS
    <2>1. /\ tokensSold \in Nat /\ virtualTokenReserve \in Nat /\ virtualNativeReserve \in Nat
          /\ nativeReserve \in Nat
      BY CurveAssumption DEF IInv, TypeOK
    <2>2. product' = virtualTokenReserve' * virtualNativeReserve'
      BY DEF product
    <2>3. CASE Bought
      <3>1. PICK output \in Nat \ {0}, cost \in Nat \ {0} :
                /\ (virtualNativeReserve + cost) * (virtualTokenReserve - output) >= product
                /\ tokensSold' = tokensSold + output
                /\ virtualTokenReserve' = virtualTokenReserve - output
                /\ virtualNativeReserve' = virtualNativeReserve + cost
        BY <2>3 DEF Bought
      <3>2. product' = (virtualNativeReserve + cost) * (virtualTokenReserve - output)
        BY <2>1, <2>2, <3>1, Z3
      <3>3. ~ (tokensSold' < tokensSold)
        BY <2>1, <3>1
      <3> QED
        BY <3>1, <3>2, <3>3
    <2>4. CASE Sold
      <3>1. PICK amount \in Nat \ {0}, gross \in Nat :
                /\ (virtualNativeReserve - gross) * (virtualTokenReserve + amount)
                     + (virtualTokenReserve + amount) > product
                /\ tokensSold' = tokensSold - amount
                /\ virtualTokenReserve' = virtualTokenReserve + amount
                /\ virtualNativeReserve' = virtualNativeReserve - gross
        BY <2>4 DEF Sold
      <3>2. product' = (virtualNativeReserve - gross) * (virtualTokenReserve + amount)
        BY <2>1, <2>2, <3>1, Z3
      <3>3. ~ (tokensSold' > tokensSold)
        BY <2>1, <3>1
      <3> QED
        BY <3>1, <3>2, <3>3
    <2>5. CASE UNCHANGED <<curve, phase, native[Pair]>>
      BY <2>1, <2>5 DEF curve
    <2> QED
      BY <2>3, <2>4, <2>5, StepKinds
  <1>2. Init => IInv
    BY InitInv
  <1>3. IInv /\ [Next]_vars => IInv'
    BY NextInv
  <1> QED
    BY <1>1, <1>2, <1>3, PTL DEF Spec, RoundingBounded

\* Whatever an active pair has sold, an amount bought and sold straight back
\* leaves its reserves as they were.
THEOREM RoundTrip == Spec => []RoundTripRestores
  <1>1. IInv => RoundTripRestores
    <2> SUFFICES ASSUME IInv, status = "ACTIVE", NEW amount \in 1 .. graduationTokenAmount - tokensSold
                 PROVE  LET cost == BuyCost(virtualTokenReserve, virtualNativeReserve, amount)
                        IN  SellGross(virtualTokenReserve - amount, virtualNativeReserve + cost,
                                      nativeReserve + cost, amount) = cost
      BY DEF RoundTripRestores
    <2>1. virtualTokenReserve \in Nat /\ virtualNativeReserve \in Nat \ {0} /\ nativeReserve \in Nat
          /\ amount \in Nat \ {0} /\ amount < virtualTokenReserve
      BY ActiveReserves, CurveAssumption DEF IInv, TypeOK, remaining
    <2> QED
      BY <2>1, BuyThenSellIsNeutral
  <1>2. Init => IInv
    BY InitInv
  <1>3. IInv /\ [Next]_vars => IInv'
    BY NextInv
  <1> QED
    BY <1>1, <1>2, <1>3, PTL DEF Spec

\* What is true of the input cap in every reachable state: a quote for an exact
\* payment takes exactly that payment while tokens are left afterwards, and the
\* quote that buys the last of them asks for at most one wei more.
QuoteWithinOneWei ==
    status = "ACTIVE" =>
        \A value \in Nat \ {0} :
            LET quote == QuoteExact(value)
            IN  /\ quote.tokenOutput < remaining => quote.curveInput + quote.fee = value
                /\ quote.curveInput + quote.fee <= value + 1

\* quoteBuyExactNative oversteps its payment in the last purchase only and by
\* no more than a wei, whatever was traded before.
THEOREM QuotedWithinOneWei == Spec => []QuoteWithinOneWei
  <1>1. IInv => QuoteWithinOneWei
    <2> SUFFICES ASSUME IInv, status = "ACTIVE", NEW value \in Nat \ {0}
                 PROVE  LET quote == QuoteExact(value)
                        IN  /\ quote.tokenOutput < remaining => quote.curveInput + quote.fee = value
                            /\ quote.curveInput + quote.fee <= value + 1
      BY DEF QuoteWithinOneWei
    <2>1. /\ virtualTokenReserve \in Nat /\ virtualNativeReserve \in Nat \ {0}
          /\ remaining \in Nat \ {0} /\ remaining < virtualTokenReserve
      BY ActiveReserves
    <2>2. PICK quote : quote = ExactQuote(virtualTokenReserve, virtualNativeReserve, remaining, value)
      OBVIOUS
    <2>3. /\ quote.tokenOutput < remaining => quote.curveInput + quote.fee = value
          /\ quote.curveInput + quote.fee <= value + 1
      BY <2>1, <2>2, ExactQuoteBounds
    <2> QED
      BY <2>2, <2>3 DEF QuoteExact
  <1>2. Init => IInv
    BY InitInv
  <1>3. IInv /\ [Next]_vars => IInv'
    BY NextInv
  <1> QED
    BY <1>1, <1>2, <1>3, PTL DEF Spec

\* Every behaviour of the pair is a behaviour of an escrowed sale whose
\* escrow is the native the pair really holds.
THEOREM Refinement == Spec => SaleSpec
  <1>1. Init => Sale!Init
    BY AccountsAssumption DEF Init, Sale!Init, Accounts
  <1>2. IInv /\ IInv' /\ [Next]_vars => [Sale!Next]_Sale!saleVars
    <2> SUFFICES ASSUME IInv, IInv', [Next]_vars
                 PROVE  Sale!Next \/ UNCHANGED Sale!saleVars
      OBVIOUS
    <2>1. /\ native[Pair] = nativeReserve /\ native'[Pair] = nativeReserve'
          /\ nativeReserve \in Nat /\ tokensSold \in Nat /\ graduationTokenAmount \in Nat
          /\ status' \in {"ACTIVE", "GRADUATED"}
      BY CurveAssumption DEF IInv, TypeOK, Solvent
    <2>2. /\ status = "ACTIVE" <=> tokensSold < graduationTokenAmount
          /\ status' = "ACTIVE" <=> tokensSold' < graduationTokenAmount
          /\ status' = "GRADUATED" => nativeReserve' = 0
      BY DEF IInv, GraduationAtomic
    <2>3. CASE Bought
      <3>1. PICK output \in Nat \ {0}, cost \in Nat \ {0} :
                /\ status = "ACTIVE"
                /\ output <= remaining
                /\ tokensSold' = tokensSold + output
                /\ status' = status => nativeReserve' = nativeReserve + cost
        BY <2>3 DEF Bought
      <3>2. CASE status' = "ACTIVE"
        <4>1. tokensSold' - tokensSold = output /\ native'[Pair] - native[Pair] = cost
          BY <2>1, <3>1, <3>2
        <4>2. Sale!Purchase(tokensSold' - tokensSold, native'[Pair] - native[Pair])
          BY <2>1, <2>2, <3>1, <3>2, <4>1 DEF Sale!Purchase
        <4> QED
          BY <4>2 DEF Sale!Next
      <3>3. CASE status' # "ACTIVE"
        <4>1. tokensSold' = graduationTokenAmount
          BY <2>1, <2>2, <3>1, <3>3 DEF remaining
        <4>2. Sale!LastPurchase
          BY <2>1, <2>2, <3>1, <3>3, <4>1 DEF Sale!LastPurchase
        <4> QED
          BY <4>2 DEF Sale!Next
      <3> QED
        BY <3>2, <3>3
    <2>4. CASE Sold
      <3>1. PICK amount \in Nat \ {0}, gross \in Nat :
                /\ status = "ACTIVE" /\ status' = "ACTIVE"
                /\ gross <= nativeReserve
                /\ amount <= tokensSold
                /\ tokensSold' = tokensSold - amount
                /\ nativeReserve' = nativeReserve - gross
        BY <2>4 DEF Sold
      <3>2. tokensSold - tokensSold' = amount /\ native[Pair] - native'[Pair] = gross
        BY <2>1, <3>1
      <3>3. Sale!Return(tokensSold - tokensSold', native[Pair] - native'[Pair])
        BY <2>1, <3>1, <3>2 DEF Sale!Return
      <3> QED
        BY <3>3 DEF Sale!Next
    <2>5. CASE UNCHANGED <<curve, phase, native[Pair]>>
      BY <2>5 DEF curve, phase, Sale!saleVars
    <2> QED
      BY <2>3, <2>4, <2>5, StepKinds
  <1>3. Init => IInv
    BY InitInv
  <1>4. IInv /\ [Next]_vars => IInv'
    BY NextInv
  <1> QED
    BY <1>1, <1>2, <1>3, <1>4, PTL DEF Spec, SaleSpec, Sale!Spec
=============================================================================
