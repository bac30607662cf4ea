------------------------- MODULE WalletPanelsProofs -------------------------
(***************************************************************************)
(* What the panels promise for any wallet, any amounts and prices, and any *)
(* number of clicks, edits, moves and failures.                            *)
(*                                                                         *)
(* A panel has no lock: what a function has checked stays true because no  *)
(* other function runs and no transaction is left that nobody waits for.   *)
(* The invariant says so: as long as no two functions ran at once, only    *)
(* the latest click is running (OneRun); as long as the page has not lost  *)
(* track of a transaction, one that is outstanding has the button disabled *)
(* behind it (Watched), and the funds that were read are still there       *)
(* (FundsInv).                                                             *)
(***************************************************************************)
EXTENDS WalletPanels, FiniteSetTheorems, TLAPS

Sides    == {"buy", "sell"}
Stages   == {"quote", "balance", "allowance", "approve", "approval", "simulate", "sign",
             "wait", "poll", "done"}
Statuses == {"pending", "success", "gas", "balance", "allowance", "price"}
Runs         == [pc : Stages, side : Sides \cup {Nothing}, input : Nat, min : Nat, low : Nat]
Transactions == [run : Clicks, kind : {"buy", "sell", "approve", "launch"}, input : Nat,
                 min : Nat, low : Nat, status : Statuses]

\* The stages a function of each panel goes through, and those after its quote.
StagesOf(s) ==
    IF panel = "launch" THEN {"sign", "wait", "poll"}
    ELSE IF panel = "trade"
         THEN IF s = "buy" THEN {"quote", "balance", "sign"}
              ELSE {"balance", "allowance", "approve", "approval", "quote", "sign"}
         ELSE IF s = "buy" THEN {"balance", "quote", "simulate", "sign"}
              ELSE {"balance", "quote", "allowance", "approve", "approval", "simulate", "sign"}
Quoted(s) ==
    IF panel = "launch" THEN {}
    ELSE IF panel = "trade"
         THEN IF s = "buy" THEN {"balance", "sign"} ELSE {"sign"}
         ELSE {"allowance", "approve", "approval", "simulate", "sign"}

Bound(output) == output - output \div Tolerance

-----------------------------------------------------------------------------
(* The invariant.                                                          *)

FormInv ==
    /\ panel \in {"trade", "swap", "launch"}
    /\ side \in Sides /\ amount \in Nat
    /\ maxing \in Sides \cup {Nothing}
    /\ maxing # Nothing => panel # "launch"
    /\ asking = {} \/ asking = {Key}
    /\ QuoteIsOfForm

ChainInv ==
    /\ native \in Nat /\ tokens \in Nat /\ allowance \in Nat /\ rate \in Nat \ {0}
    /\ tokens <= Wealth
    /\ panel = "trade" => allowance \in {0, Endless}

\* A function of the click k.
RunOK(k) ==
    /\ k <= clicks
    /\ runs[k].side \in Sides /\ runs[k].pc \in StagesOf(runs[k].side)
    /\ runs[k].input > 0 /\ runs[k].low <= rate
    /\ runs[k].pc \in Quoted(runs[k].side) => runs[k].min >= Bound(runs[k].input * runs[k].low)
    /\ panel = "trade" /\ runs[k].side = "sell" =>
        /\ runs[k].pc # "balance" => runs[k].input <= Wealth
        /\ runs[k].pc \in {"quote", "sign"} => allowance = Endless
RunsInv ==
    /\ clicks \in Nat
    /\ runs \in [Clicks -> Runs]
    /\ \A k \in Clicks : Active(k) => RunOK(k)

\* A transaction, and how far the function that sent it has come.
TxOK(n) ==
    /\ txs[n].run <= clicks
    /\ txs[n].kind = "launch" <=> panel = "launch"
    /\ txs[n].kind = "approve" => runs[txs[n].run].pc \in {"approval", "simulate", "sign", "done"}
    /\ txs[n].kind # "approve" => runs[txs[n].run].pc \in {"wait", "poll", "done"}
    /\ txs[n].kind \in {"approve", "launch"} => txs[n].status \notin {"balance", "allowance"}
    /\ txs[n].kind \in Sides => txs[n].min >= Bound(txs[n].input * txs[n].low)
    /\ panel = "trade" =>
        /\ txs[n].kind = "approve" => txs[n].input = Endless
        /\ txs[n].kind = "sell" => allowance = Endless /\ txs[n].input <= Wealth
        /\ txs[n].status # "allowance"
TxsInv ==
    /\ txs \in Seq(Transactions)
    /\ \A n \in DOMAIN txs : TxOK(n)
    /\ \A n, m \in DOMAIN txs :
        txs[n].run = txs[m].run /\ (txs[n].kind = "approve" <=> txs[m].kind = "approve") => n = m

ButtonInv ==
    /\ phase \in {"idle", "buying", "approving", "selling", "confirming"}
    /\ seen \in {"none", "loading", "success", "error"}
    /\ seen # "none" => hash \in DOMAIN txs
    /\ writer # 0 => writer \in Clicks /\ Prompt(runs[writer].pc)

OneRun == ~overlap => \A k \in Clicks : Active(k) => k = clicks

\* The button is disabled behind an outstanding transaction.
Watched(n) ==
    \/ panel # "launch" /\ hash = n /\ seen = "loading" /\ \A k \in Clicks : ~Active(k)
    \/ panel = "launch" /\ phase = "confirming" /\ runs[txs[n].run].pc = "wait"
WatchInv ==
    ~overlap => \A n \in Outstanding : txs[n].kind # "approve" /\ n \notin gaveUp => Watched(n)

\* The wallet can pay for what is about to be signed, or has been.
Covered(kind, input) ==
    /\ kind = "buy"  => native >= input
    /\ kind = "sell" => tokens >= input /\ allowance >= input
FundsInv ==
    ~overlap /\ gaveUp = {} =>
        /\ \A n \in Outstanding :
            /\ txs[n].kind = "approve" => runs[txs[n].run].pc = "approval"
            /\ Covered(txs[n].kind, txs[n].input)
        /\ \A k \in Clicks :
            /\ panel # "launch" /\ runs[k].pc = "sign" => Covered(runs[k].side, runs[k].input)
            /\ panel = "trade" /\ runs[k].side = "sell" /\ Active(k) /\ runs[k].pc # "balance" =>
                tokens >= runs[k].input
        /\ \A n \in DOMAIN txs : txs[n].status \notin {"balance", "allowance"}

IInv == FormInv /\ ChainInv /\ RunsInv /\ TxsInv /\ ButtonInv /\ OneRun /\ WatchInv /\ FundsInv

-----------------------------------------------------------------------------
(* Helpers.                                                                *)

LEMMA BoundGrows ==
    ASSUME NEW a \in Nat, NEW b \in Nat, a <= b
    PROVE  Bound(a) <= Bound(b) /\ Bound(a) \in Nat
  <1>1. Tolerance \in Nat \ {0}
    BY PanelAssumption
  <1> DEFINE p == a \div Tolerance
             q == b \div Tolerance
  <1>2. p \in Nat /\ q \in Nat /\ Tolerance * p <= a /\ a < Tolerance * p + Tolerance
        /\ Tolerance * q <= b /\ b < Tolerance * q + Tolerance
    BY <1>1
  <1> HIDE DEF p, q
  <1>3. p <= Tolerance * p
    BY <1>1, <1>2
  <1>4. q - p <= b - a
    <2>1. CASE q <= p
      BY <1>2, <2>1
    <2>2. CASE q > p
      <3>1. PICK d \in Nat : q = p + 1 + d
        <4>1. q - p - 1 \in Nat /\ q = p + 1 + (q - p - 1)
          BY <1>2, <2>2
        <4> QED
          BY <4>1
      <3>2. Tolerance * q = Tolerance * p + Tolerance + Tolerance * d
        BY <1>1, <1>2, <3>1
      <3>3. d <= Tolerance * d
        BY <1>1, <3>1
      <3>4. Tolerance * p \in Nat /\ Tolerance * d \in Nat
        BY <1>1, <1>2, <3>1
      <3> QED
        BY <1>1, <1>2, <3>1, <3>2, <3>3, <3>4
    <2> QED
      BY <1>2, <2>1, <2>2
  <1>5. p <= a
    BY <1>1, <1>2, <1>3
  <1> QED
    BY <1>2, <1>4, <1>5 DEF Bound, p, q

LEMMA Products ==
    ASSUME NEW n \in Nat, NEW a \in Nat, NEW b \in Nat, a <= b
    PROVE  n * a \in Nat /\ n * b \in Nat /\ n * a <= n * b
  <1>1. PICK d \in Nat : b = a + d
    <2>1. b - a \in Nat /\ b = a + (b - a)
      OBVIOUS
    <2> QED
      BY <2>1
  <1>2. n * b = n * a + n * d /\ n * d \in Nat
    BY <1>1
  <1> QED
    BY <1>2

\* A click is one of MaxClicks, so that Endless is more than the wallet holds.
LEMMA EndlessSuffices ==
    ASSUME NEW k \in Clicks
    PROVE  Wealth \in Nat /\ Endless \in Nat /\ Wealth < Endless
  <1>1. MaxClicks \in Nat /\ 1 <= MaxClicks /\ Wealth \in Nat
    BY PanelAssumption DEF Clicks
  <1>2. Wealth * 1 <= Wealth * MaxClicks
    BY <1>1, Products
  <1> QED
    BY <1>1, <1>2, PanelAssumption

\* The scripts, stage by stage.
LEMMA TradeStages ==
    ASSUME NEW k \in Clicks, panel = "trade"
    PROVE  /\ runs[k].side = "buy" =>
                /\ runs[k].pc = "quote"   => Following(k) = "balance"
                /\ runs[k].pc = "balance" => Following(k) = "sign"
                /\ runs[k].pc = "sign"    => Following(k) = "done"
           /\ runs[k].side = "sell" =>
                /\ runs[k].pc = "balance"   => Following(k) = "allowance"
                /\ runs[k].pc = "allowance" => Following(k) = "quote"
                /\ runs[k].pc = "quote"     => Following(k) = "sign"
                /\ runs[k].pc = "sign"      => Following(k) = "done"
  <1>1. CASE runs[k].side = "buy"
    <2> DEFINE script == TradeScript("buy")
    <2>1. DOMAIN script = 1 .. 4 /\ script[1] = "quote" /\ script[2] = "balance"
          /\ script[3] = "sign" /\ script[4] = "done"
      BY DEF TradeScript
    <2>2. Script(runs[k].side) = script
      BY <1>1 DEF Script
    <2> HIDE DEF script
    <2>3. \A n \in DOMAIN script : /\ script[n] = "quote"   => n = 1
                                   /\ script[n] = "balance" => n = 2
                                   /\ script[n] = "sign"    => n = 3
      BY <2>1
    <2> QED
      BY <1>1, <2>1, <2>2, <2>3 DEF Following
  <1>2. CASE runs[k].side = "sell"
    <2> DEFINE script == TradeScript("sell")
    <2>1. DOMAIN script = 1 .. 5 /\ script[1] = "balance" /\ script[2] = "allowance"
          /\ script[3] = "quote" /\ script[4] = "sign" /\ script[5] = "done"
      BY DEF TradeScript
    <2>2. Script(runs[k].side) = script
      BY <1>2 DEF Script
    <2> HIDE DEF script
    <2>3. \A n \in DOMAIN script : /\ script[n] = "balance"   => n = 1
                                   /\ script[n] = "allowance" => n = 2
                                   /\ script[n] = "quote"     => n = 3
                                   /\ script[n] = "sign"      => n = 4
      BY <2>1
    <2> QED
      BY <1>2, <2>1, <2>2, <2>3 DEF Following
  <1> QED
    BY <1>1, <1>2

LEMMA SwapStages ==
    ASSUME NEW k \in Clicks, panel = "swap"
    PROVE  /\ runs[k].side = "buy" =>
                /\ runs[k].pc = "balance"  => Following(k) = "quote"
                /\ runs[k].pc = "quote"    => Following(k) = "simulate"
                /\ runs[k].pc = "simulate" => Following(k) = "sign"
                /\ runs[k].pc = "sign"     => Following(k) = "done"
           /\ runs[k].side = "sell" =>
                /\ runs[k].pc = "balance"   => Following(k) = "quote"
                /\ runs[k].pc = "quote"     => Following(k) = "allowance"
                /\ runs[k].pc = "allowance" => Following(k) = "simulate"
                /\ runs[k].pc = "simulate"  => Following(k) = "sign"
                /\ runs[k].pc = "sign"      => Following(k) = "done"
  <1>1. CASE runs[k].side = "buy"
    <2> DEFINE script == SwapScript("buy")
    <2>1. DOMAIN script = 1 .. 5 /\ script[1] = "balance" /\ script[2] = "quote"
          /\ script[3] = "simulate" /\ script[4] = "sign" /\ script[5] = "done"
      BY DEF SwapScript
    <2>2. Script(runs[k].side) = script
      BY <1>1 DEF Script
    <2> HIDE DEF script
    <2>3. \A n \in DOMAIN script : /\ script[n] = "balance"  => n = 1
                                   /\ script[n] = "quote"    => n = 2
                                   /\ script[n] = "simulate" => n = 3
                                   /\ script[n] = "sign"     => n = 4
      BY <2>1
    <2> QED
      BY <1>1, <2>1, <2>2, <2>3 DEF Following
  <1>2. CASE runs[k].side = "sell"
    <2> DEFINE script == SwapScript("sell")
    <2>1. DOMAIN script = 1 .. 6 /\ script[1] = "balance" /\ script[2] = "quote"
          /\ script[3] = "allowance" /\ script[4] = "simulate" /\ script[5] = "sign"
          /\ script[6] = "done"
      BY DEF SwapScript
    <2>2. Script(runs[k].side) = script
      BY <1>2 DEF Script
    <2> HIDE DEF script
    <2>3. \A n \in DOMAIN script : /\ script[n] = "balance"   => n = 1
                                   /\ script[n] = "quote"     => n = 2
                                   /\ script[n] = "allowance" => n = 3
                                   /\ script[n] = "simulate"  => n = 4
                                   /\ script[n] = "sign"      => n = 5
      BY <2>1
    <2> QED
      BY <1>2, <2>1, <2>2, <2>3 DEF Following
  <1> QED
    BY <1>1, <1>2

LEMMA LaunchStages ==
    ASSUME NEW k \in Clicks, panel = "launch", runs[k].pc = "sign"
    PROVE  Following(k) = "wait"
  <1> DEFINE script == LaunchScript
  <1>1. DOMAIN script = 1 .. 4 /\ script[1] = "sign" /\ script[2] = "wait"
        /\ script[3] = "poll" /\ script[4] = "done"
    BY DEF LaunchScript
  <1>2. Script(runs[k].side) = script
    BY DEF Script
  <1> HIDE DEF script
  <1>3. \A n \in DOMAIN script : script[n] = "sign" => n = 1
    BY <1>1
  <1> QED
    BY <1>1, <1>2, <1>3 DEF Following

-----------------------------------------------------------------------------
(* One step of a function.                                                 *)

Phases == {"idle", "buying", "approving", "selling", "confirming"}

StepsTo(k, next, min) ==
    /\ runs' \in [Clicks -> Runs]
    /\ runs'[k] = [runs[k] EXCEPT !.pc = next, !.min = min]
    /\ \A j \in Clicks : j # k => runs'[j] = runs[j]
    /\ writer' # 0 => writer' \in Clicks /\ Prompt(runs'[writer'].pc)

LEMMA GotoSteps ==
    ASSUME NEW k \in Clicks, NEW next \in Stages, RunsInv, ButtonInv, Goto(k, next)
    PROVE  StepsTo(k, next, runs[k].min)
  <1>1. runs \in [Clicks -> Runs] /\ runs[k] \in Runs /\ k \in Nat /\ k # 0
    BY PanelAssumption DEF RunsInv, Clicks
  <1>2. runs' = [runs EXCEPT ![k].pc = next]
    BY DEF Goto
  <1>3. runs'[k] = [runs[k] EXCEPT !.pc = next, !.min = runs[k].min]
    BY <1>1, <1>2 DEF Runs
  <1>4. runs' \in [Clicks -> Runs] /\ \A j \in Clicks : j # k => runs'[j] = runs[j]
    BY <1>1, <1>2 DEF Runs
  <1>5. ASSUME writer' # 0
        PROVE  writer' \in Clicks /\ Prompt(runs'[writer'].pc)
    <2>1. CASE Prompt(next)
      <3>1. writer' = k
        BY <2>1 DEF Goto
      <3>2. runs'[k].pc = next
        BY <1>1, <1>2 DEF Runs
      <3> QED
        BY <2>1, <3>1, <3>2
    <2>2. CASE ~Prompt(next)
      <3>1. writer' = writer /\ writer # k
        BY <1>5, <2>2 DEF Goto
      <3> QED
        BY <1>4, <1>5, <3>1 DEF ButtonInv
    <2> QED
      BY <2>1, <2>2
  <1> QED
    BY <1>3, <1>4, <1>5 DEF StepsTo

LEMMA TxIs ==
    ASSUME TxsInv, NEW n \in DOMAIN txs
    PROVE  /\ n \in 1 .. Len(txs) /\ txs[n] \in Transactions /\ TxOK(n)
           /\ txs[n].run \in Clicks /\ txs[n].input \in Nat
  <1>1. txs \in Seq(Transactions) /\ n \in 1 .. Len(txs)
    BY DEF TxsInv
  <1>2. txs[n] \in Transactions
    BY <1>1
  <1> QED
    BY <1>1, <1>2 DEF TxsInv, Transactions

\* A step that sends nothing keeps the invariant when the function keeps its
\* own part of it, and waits for what it has sent.
LEMMA Advance ==
    ASSUME IInv, NEW k \in Clicks, Active(k), NEW next \in Stages, NEW min \in Nat,
           StepsTo(k, next, min),
           UNCHANGED <<panel, side, amount, asking, maxing, hash, seen, txs, native, tokens,
                       allowance, rate, clicks, overlap, maxed>>,
           quote' = quote \/ quote'.by = "swap",
           phase' \in Phases, gaveUp \subseteq gaveUp',
           next # "done" => RunOK(k)',
           runs[k].pc \in {"approval", "simulate", "sign"} => next \in {"simulate", "sign", "done"},
           runs[k].pc \in {"wait", "poll"} => next \in {"poll", "done"},
           \A n \in Outstanding :
            /\ runs[k].pc = "wait" /\ txs[n].run = k /\ txs[n].kind # "approve" => n \in gaveUp'
            /\ runs[k].pc = "approval" /\ txs[n].run = k /\ txs[n].kind = "approve" => gaveUp' # {},
           ~overlap /\ gaveUp = {} =>
            /\ panel # "launch" /\ next = "sign" => Covered(runs[k].side, runs[k].input)
            /\ panel = "trade" /\ runs[k].side = "sell" /\ next \notin {"balance", "done"} =>
                tokens >= runs[k].input
    PROVE  IInv'
  <1> USE DEF IInv
  <1>1. /\ runs \in [Clicks -> Runs] /\ runs' \in [Clicks -> Runs]
        /\ runs'[k].pc = next /\ runs'[k].side = runs[k].side
        /\ runs'[k].input = runs[k].input
    BY DEF RunsInv, StepsTo, Runs
  <1>2. \A j \in Clicks : j # k => runs'[j] = runs[j]
    BY DEF StepsTo
  <1>3. FormInv'
    BY DEF FormInv, QuoteIsOfForm, Key
  <1>4. ChainInv'
    BY DEF ChainInv
  <1>5. RunsInv'
    <2>1. ASSUME NEW j \in Clicks, Active(j)'
          PROVE  RunOK(j)'
      <3>1. CASE j = k
        BY <1>1, <2>1, <3>1 DEF Active
      <3>2. CASE j # k
        <4>1. runs'[j] = runs[j] /\ RunOK(j)
          BY <1>2, <2>1, <3>2 DEF Active, RunsInv
        <4> QED
          BY <4>1 DEF RunOK, StagesOf, Quoted
      <3> QED
        BY <3>1, <3>2
    <2> QED
      BY <1>1, <2>1 DEF RunsInv
  <1>6. TxsInv'
    <2>1. ASSUME NEW n \in DOMAIN txs
          PROVE  TxOK(n)'
      <3>1. TxOK(n) /\ txs[n].run \in Clicks
        BY TxIs
      <3>2. CASE txs[n].run = k
        <4>1. txs[n].kind = "approve" => runs'[k].pc \in {"approval", "simulate", "sign", "done"}
          BY <1>1, <3>1, <3>2 DEF TxOK, Active
        <4>2. txs[n].kind # "approve" => runs'[k].pc \in {"wait", "poll", "done"}
          BY <1>1, <3>1, <3>2 DEF TxOK, Active
        <4> QED
          BY <3>1, <3>2, <4>1, <4>2 DEF TxOK
      <3>3. CASE txs[n].run # k
        BY <1>2, <3>1, <3>3 DEF TxOK
      <3> QED
        BY <3>2, <3>3
    <2> QED
      BY <2>1 DEF TxsInv
  <1>7. ButtonInv'
    BY DEF ButtonInv, StepsTo, Phases
  <1>8. OneRun'
    BY <1>1, <1>2 DEF OneRun, Active
  <1>9. WatchInv'
    <2> SUFFICES ASSUME ~overlap, NEW n \in Outstanding, txs[n].kind # "approve",
                        n \notin gaveUp'
                 PROVE  Watched(n)'
      BY DEF WatchInv, Outstanding
    <2>1. Watched(n) /\ txs[n].run \in Clicks
      BY TxIs DEF WatchInv, Outstanding
    <2>2. panel = "launch" /\ runs[txs[n].run].pc = "wait"
      BY <2>1 DEF Watched
    <2>3. txs[n].run = k
      BY <2>1, <2>2 DEF OneRun, Active
    <2> QED
      BY <2>2, <2>3
  <1>10. FundsInv'
    <2> SUFFICES ASSUME ~overlap, gaveUp' = {}
                 PROVE  /\ \A n \in Outstanding :
                            /\ txs[n].kind = "approve" => runs'[txs[n].run].pc = "approval"
                            /\ Covered(txs[n].kind, txs[n].input)
                        /\ \A j \in Clicks :
                            /\ panel # "launch" /\ runs'[j].pc = "sign" =>
                                Covered(runs'[j].side, runs'[j].input)
                            /\ panel = "trade" /\ runs'[j].side = "sell" /\ runs'[j].pc # "done"
                               /\ runs'[j].pc # "balance" => tokens >= runs'[j].input
                        /\ \A n \in DOMAIN txs : txs[n].status \notin {"balance", "allowance"}
      BY DEF FundsInv, Outstanding, Covered, Active
    <2>1. gaveUp = {}
      OBVIOUS
    <2>2. ASSUME NEW n \in Outstanding
          PROVE  /\ txs[n].kind = "approve" => runs'[txs[n].run].pc = "approval"
                 /\ Covered(txs[n].kind, txs[n].input)
      <3>1. /\ txs[n].kind = "approve" => runs[txs[n].run].pc = "approval"
            /\ Covered(txs[n].kind, txs[n].input)
            /\ txs[n].run \in Clicks
        BY <2>1, TxIs DEF FundsInv, Outstanding
      <3> QED
        BY <1>2, <3>1
    <2>3. ASSUME NEW j \in Clicks
          PROVE  /\ panel # "launch" /\ runs'[j].pc = "sign" =>
                     Covered(runs'[j].side, runs'[j].input)
                 /\ panel = "trade" /\ runs'[j].side = "sell" /\ runs'[j].pc # "done"
                    /\ runs'[j].pc # "balance" => tokens >= runs'[j].input
      <3>1. CASE j = k
        BY <1>1, <2>1, <3>1
      <3>2. CASE j # k
        BY <1>2, <2>1, <3>2 DEF FundsInv, Active
      <3> QED
        BY <3>1, <3>2
    <2>4. \A n \in DOMAIN txs : txs[n].status \notin {"balance", "allowance"}
      BY <2>1 DEF FundsInv
    <2> QED
      BY <2>2, <2>3, <2>4
  <1> QED
    BY <1>3, <1>4, <1>5, <1>6, <1>7, <1>8, <1>9, <1>10

\* A function that ends.
LEMMA Ends ==
    ASSUME IInv, NEW k \in Clicks, Active(k), Goto(k, "done"),
           UNCHANGED <<panel, side, amount, asking, maxing, quote, hash, seen, txs, native, tokens,
                       allowance, rate, clicks, overlap, maxed>>,
           phase' \in Phases, gaveUp \subseteq gaveUp',
           \A n \in Outstanding :
            /\ runs[k].pc = "wait" /\ txs[n].run = k /\ txs[n].kind # "approve" => n \in gaveUp'
            /\ runs[k].pc = "approval" /\ txs[n].run = k /\ txs[n].kind = "approve" => gaveUp' # {}
    PROVE  IInv'
  <1>1. runs[k].min \in Nat /\ "done" \in Stages
    BY DEF IInv, RunsInv, Runs, Stages
  <1>2. StepsTo(k, "done", runs[k].min)
    BY <1>1, GotoSteps DEF IInv
  <1>3. RunOK(k)
    BY DEF IInv, RunsInv
  <1> QED
    BY <1>1, <1>2, Advance

-----------------------------------------------------------------------------
(* The steps of the functions.                                             *)

LEMMA ActiveRun ==
    ASSUME IInv, NEW k \in Clicks, Active(k)
    PROVE  /\ RunOK(k) /\ runs[k] \in Runs /\ panel \in {"trade", "swap", "launch"}
           /\ runs[k].side \in Sides /\ runs[k].input \in Nat /\ runs[k].min \in Nat
           /\ runs[k].low \in Nat /\ k \in Nat
  BY PanelAssumption DEF IInv, RunsInv, FormInv, RunOK, Runs, Clicks

\* What Advance asks of a run that goes on with another stage.
LEMMA StepKeeps ==
    ASSUME IInv, NEW k \in Clicks, Active(k), NEW next \in Stages, NEW min \in Nat,
           StepsTo(k, next, min), UNCHANGED <<panel, clicks, rate, allowance>>,
           next \in StagesOf(runs[k].side),
           next \in Quoted(runs[k].side) =>
                \/ runs[k].pc \in Quoted(runs[k].side) /\ min = runs[k].min
                \/ min >= Bound(runs[k].input * runs[k].low),
           panel = "trade" /\ runs[k].side = "sell" =>
            /\ next # "balance" => runs[k].input <= Wealth
            /\ next \in {"quote", "sign"} => allowance = Endless
    PROVE  RunOK(k)'
  <1>1. RunOK(k) /\ runs[k] \in Runs
    BY ActiveRun
  <1>2. /\ runs'[k].pc = next /\ runs'[k].side = runs[k].side /\ runs'[k].input = runs[k].input
        /\ runs'[k].min = min /\ runs'[k].low = runs[k].low
    BY <1>1 DEF StepsTo, Runs
  <1>3. next \in Quoted(runs[k].side) => min >= Bound(runs[k].input * runs[k].low)
    BY <1>1 DEF RunOK
  <1>4. StagesOf(runs[k].side)' = StagesOf(runs[k].side) /\ Quoted(runs[k].side)' = Quoted(runs[k].side)
    BY <1>2 DEF StagesOf, Quoted
  <1>5. runs'[k].pc \in Quoted(runs[k].side) =>
            runs'[k].min >= Bound(runs'[k].input * runs'[k].low)
    BY <1>2, <1>3
  <1> QED
    BY <1>1, <1>2, <1>4, <1>5 DEF RunOK

LEMMA BalanceReadKeepsInv == ASSUME IInv, NEW k \in Clicks, BalanceRead(k) PROVE IInv'
  <1>1. runs[k].pc = "balance" /\ Active(k)
    BY DEF BalanceRead, Reading, Active
  <1>2. /\ RunOK(k) /\ runs[k].side \in Sides /\ panel \in {"trade", "swap"}
        /\ runs[k].input \in Nat /\ runs[k].min \in Nat
    BY <1>1, ActiveRun DEF RunOK, StagesOf
  <1>3. CASE ~Affords(k) /\ Fails(k)
    <2>1. phase' \in Phases
      BY <1>3 DEF Fails, Failed, IInv, ButtonInv, Phases
    <2> QED
      BY <1>1, <1>3, <2>1, Ends DEF Fails, BalanceRead, Reading, chain, bounds, past
  <1>4. CASE Affords(k) /\ Goto(k, Following(k))
    <2> DEFINE next == Following(k)
    <2>1. /\ panel = "trade" /\ runs[k].side = "buy"  => next = "sign"
          /\ panel = "trade" /\ runs[k].side = "sell" => next = "allowance"
          /\ panel = "swap" => next = "quote"
      BY <1>1, <1>2, TradeStages, SwapStages DEF Sides
    <2>2. next \in Stages
      BY <1>2, <2>1 DEF Stages, Sides
    <2>3. StepsTo(k, next, runs[k].min)
      BY <1>4, <2>2, GotoSteps DEF IInv
    <2>4. /\ runs[k].side = "sell" => runs[k].input <= tokens
          /\ panel = "trade" /\ runs[k].side = "buy" => runs[k].input <= native
      BY <1>2, <1>4 DEF Affords, Sides, IInv, ChainInv
    <2>5. runs[k].side = "sell" => runs[k].input <= Wealth
      BY <1>2, <2>4, PanelAssumption DEF IInv, ChainInv
    <2>6. UNCHANGED <<panel, side, amount, asking, maxing, quote, hash, seen, txs, native, tokens,
                      allowance, rate, clicks, overlap, maxed, gaveUp>>
      BY DEF BalanceRead, Reading, chain, bounds, past
    <2>7. phase' \in Phases
      BY <1>4 DEF BalanceRead, Fails, Failed, IInv, ButtonInv, Phases
    <2>8. /\ next \in StagesOf(runs[k].side)
          /\ next \in Quoted(runs[k].side) => runs[k].pc \in Quoted(runs[k].side)
      BY <1>1, <1>2, <2>1 DEF StagesOf, Quoted, Sides
    <2>9. RunOK(k)'
      BY <1>1, <1>2, <2>1, <2>2, <2>3, <2>5, <2>6, <2>8, StepKeeps
    <2>10. /\ panel # "launch" /\ next = "sign" => Covered(runs[k].side, runs[k].input)
           /\ panel = "trade" /\ runs[k].side = "sell" => tokens >= runs[k].input
      BY <1>2, <2>1, <2>4 DEF Covered, Sides, IInv, ChainInv
    <2> HIDE DEF next
    <2> QED
      BY <1>1, <1>2, <2>2, <2>3, <2>6, <2>7, <2>9, <2>10, Advance
  <1> QED
    BY <1>3, <1>4 DEF BalanceRead

LEMMA MinimumIsBound ==
    ASSUME IInv, NEW k \in Clicks, Active(k)
    PROVE  Minimum(k) \in Nat /\ Minimum(k) >= Bound(runs[k].input * runs[k].low)
  <1>1. /\ runs[k].low <= rate /\ runs[k].low \in Nat /\ rate \in Nat /\ runs[k].input \in Nat
    BY ActiveRun DEF RunOK, IInv, ChainInv
  <1>2. /\ runs[k].input * rate \in Nat /\ runs[k].input * runs[k].low \in Nat
        /\ runs[k].input * runs[k].low <= runs[k].input * rate
    BY <1>1, Products
  <1>3. Minimum(k) = Bound(runs[k].input * rate)
    BY DEF Minimum, Bound
  <1> QED
    BY <1>2, <1>3, BoundGrows

LEMMA QuoteReadKeepsInv == ASSUME IInv, NEW k \in Clicks, QuoteRead(k) PROVE IInv'
  <1>1. runs[k].pc = "quote" /\ Active(k)
    BY DEF QuoteRead, Active
  <1>2. /\ RunOK(k) /\ runs[k].side \in Sides /\ panel \in {"trade", "swap"}
        /\ runs[k].input \in Nat /\ runs[k] \in Runs /\ k # 0
    BY <1>1, ActiveRun DEF RunOK, StagesOf, Clicks
  <1> DEFINE next == Following(k)
             min  == Minimum(k)
  <1>3. /\ panel = "trade" /\ runs[k].side = "buy"  => next = "balance"
        /\ panel = "trade" /\ runs[k].side = "sell" => next = "sign"
        /\ panel = "swap" /\ runs[k].side = "buy"  => next = "simulate"
        /\ panel = "swap" /\ runs[k].side = "sell" => next = "allowance"
    BY <1>1, <1>2, TradeStages, SwapStages
  <1>4. next \in Stages
    BY <1>2, <1>3 DEF Stages, Sides
  <1>5. min \in Nat /\ min >= Bound(runs[k].input * runs[k].low)
    BY <1>1, MinimumIsBound
  <1>6. /\ runs' = [runs EXCEPT ![k].pc = next, ![k].min = min]
        /\ writer' = IF Prompt(next) THEN k ELSE writer
    BY DEF QuoteRead
  <1>7. /\ panel = "trade" /\ runs[k].side = "sell" =>
            runs[k].input <= Wealth /\ allowance = Endless
        /\ ~overlap /\ gaveUp = {} /\ panel = "trade" /\ runs[k].side = "sell" =>
            tokens >= runs[k].input
    BY <1>1, <1>2 DEF RunOK, IInv, FundsInv
  <1> HIDE DEF next, min
  <1>8. StepsTo(k, next, min)
    <2>1. runs \in [Clicks -> Runs] /\ runs' \in [Clicks -> Runs]
          /\ runs'[k] = [runs[k] EXCEPT !.pc = next, !.min = min]
          /\ \A j \in Clicks : j # k => runs'[j] = runs[j]
      BY <1>2, <1>4, <1>5, <1>6 DEF IInv, RunsInv, Runs
    <2>2. ASSUME writer' # 0
          PROVE  writer' \in Clicks /\ Prompt(runs'[writer'].pc)
      <3>1. CASE Prompt(next)
        BY <1>2, <1>6, <2>1, <3>1 DEF Runs
      <3>2. CASE ~Prompt(next)
        <4>1. writer' = writer /\ writer \in Clicks /\ Prompt(runs[writer].pc)
          BY <1>6, <2>2, <3>2 DEF IInv, ButtonInv
        <4>2. writer # k
          BY <1>1, <4>1 DEF Prompt
        <4> QED
          BY <2>1, <4>1, <4>2
      <3> QED
        BY <3>1, <3>2
    <2> QED
      BY <2>1, <2>2 DEF StepsTo
  <1>9. UNCHANGED <<panel, side, amount, asking, maxing, phase, hash, seen, txs, native, tokens,
                    allowance, rate, clicks, overlap, maxed, gaveUp>>
    BY DEF QuoteRead, chain, bounds, past
  <1>10. next \in StagesOf(runs[k].side)
    BY <1>2, <1>3 DEF StagesOf, Sides
  <1>11. RunOK(k)'
    BY <1>1, <1>4, <1>5, <1>7, <1>8, <1>9, <1>10, StepKeeps
  <1>12. quote' = quote \/ quote'.by = "swap"
    BY DEF QuoteRead
  <1>13. /\ panel # "launch" /\ next = "sign" => panel = "trade" /\ runs[k].side = "sell"
         /\ panel = "trade" /\ runs[k].side = "sell" /\ ~overlap /\ gaveUp = {} =>
              Covered(runs[k].side, runs[k].input) /\ tokens >= runs[k].input
    BY <1>2, <1>3, <1>7, EndlessSuffices DEF Covered, Sides
  <1>14. phase' \in Phases
    BY <1>9 DEF IInv, ButtonInv, Phases
  <1> QED
    BY <1>1, <1>4, <1>5, <1>8, <1>9, <1>11, <1>12, <1>13, <1>14, Advance

LEMMA AllowanceReadKeepsInv == ASSUME IInv, NEW k \in Clicks, AllowanceRead(k) PROVE IInv'
  <1>1. runs[k].pc = "allowance" /\ Active(k)
    BY DEF AllowanceRead, Reading, Active
  <1>2. /\ RunOK(k) /\ runs[k].side = "sell" /\ panel \in {"trade", "swap"}
        /\ runs[k].input \in Nat /\ runs[k].min \in Nat /\ runs[k].input > 0
    BY <1>1, ActiveRun DEF RunOK, StagesOf, Sides
  <1>3. PICK next \in {"approve", "quote", "simulate"} :
            /\ Goto(k, next)
            /\ panel = "trade" => next \in {"approve", "quote"}
            /\ panel = "swap"  => next \in {"approve", "simulate"}
            /\ next = "quote" => Allowed(k)
    <2>1. /\ panel = "trade" => Following(k) = "quote"
          /\ panel = "swap"  => Following(k) = "simulate"
      BY <1>1, <1>2, TradeStages, SwapStages
    <2>2. Goto(k, "approve") \/ (Allowed(k) /\ Goto(k, Following(k)))
      BY DEF AllowanceRead
    <2> QED
      BY <1>2, <2>1, <2>2
  <1>4. next \in Stages /\ next \in StagesOf(runs[k].side)
        /\ (next \in Quoted(runs[k].side) => runs[k].pc \in Quoted(runs[k].side))
    BY <1>1, <1>2, <1>3 DEF Stages, StagesOf, Quoted
  <1>5. StepsTo(k, next, runs[k].min)
    BY <1>3, <1>4, GotoSteps DEF IInv
  <1>6. UNCHANGED <<panel, side, amount, asking, maxing, quote, hash, seen, txs, native, tokens,
                    allowance, rate, clicks, overlap, maxed, gaveUp>>
    BY DEF AllowanceRead, Reading, chain, bounds, past
  <1>7. phase' \in Phases
    BY DEF AllowanceRead, IInv, ButtonInv, Phases
  <1>8. panel = "trade" /\ next = "quote" => allowance = Endless
    BY <1>2, <1>3 DEF Allowed, IInv, ChainInv
  <1>9. /\ panel = "trade" => runs[k].input <= Wealth
        /\ ~overlap /\ gaveUp = {} /\ panel = "trade" => tokens >= runs[k].input
    BY <1>1, <1>2 DEF RunOK, IInv, FundsInv
  <1>10. RunOK(k)'
    BY <1>1, <1>2, <1>3, <1>4, <1>5, <1>6, <1>8, <1>9, StepKeeps
  <1> QED
    BY <1>1, <1>2, <1>3, <1>4, <1>5, <1>6, <1>7, <1>9, <1>10, Advance

LEMMA SimulatedKeepsInv == ASSUME IInv, NEW k \in Clicks, Simulated(k) PROVE IInv'
  <1>1. runs[k].pc = "simulate" /\ Active(k)
    BY DEF Simulated, Reading, Active
  <1>2. /\ RunOK(k) /\ runs[k].side \in Sides /\ panel = "swap"
        /\ runs[k].input \in Nat /\ runs[k].min \in Nat
    BY <1>1, ActiveRun DEF RunOK, StagesOf, Sides
  <1>3. UNCHANGED <<panel, side, amount, asking, maxing, quote, hash, seen, txs, native, tokens,
                    allowance, rate, clicks, overlap, maxed, gaveUp>>
    BY DEF Simulated, Reading, chain, bounds, past
  <1>4. phase' \in Phases
    BY <1>2 DEF Simulated, Fails, IInv, ButtonInv, Phases
  <1>5. CASE Fails(k)
    BY <1>1, <1>3, <1>4, <1>5, Ends DEF Fails
  <1>6. CASE Refusal(Final(k)) = "success" /\ Goto(k, Following(k))
    <2>1. Following(k) = "sign"
      BY <1>1, <1>2, SwapStages DEF Sides
    <2>2. StepsTo(k, "sign", runs[k].min)
      BY <1>6, <2>1, GotoSteps DEF IInv, Stages
    <2>3. Covered(runs[k].side, runs[k].input)
      <3>1. /\ Final(k).kind = runs[k].side /\ Final(k).input = runs[k].input
        BY <1>2 DEF Final
      <3>2. ~(Final(k).kind = "buy" /\ native < Final(k).input)
        BY <1>6 DEF Refusal
      <3>3. ~(Final(k).kind = "sell" /\ tokens < Final(k).input)
        BY <1>6 DEF Refusal
      <3>4. ~(Final(k).kind = "sell" /\ allowance < Final(k).input)
        BY <1>6 DEF Refusal
      <3> QED
        BY <1>2, <3>1, <3>2, <3>3, <3>4 DEF Covered, IInv, ChainInv
    <2>4. /\ "sign" \in Stages /\ "sign" \in StagesOf(runs[k].side)
          /\ runs[k].pc \in Quoted(runs[k].side)
      BY <1>1, <1>2 DEF StagesOf, Quoted, Stages, Sides
    <2>5. RunOK(k)'
      BY <1>1, <1>2, <1>3, <2>2, <2>4, StepKeeps
    <2> QED
      BY <1>1, <1>2, <1>3, <1>4, <2>2, <2>3, <2>4, <2>5, Advance
  <1> QED
    BY <1>5, <1>6 DEF Simulated

LEMMA RpcFailsKeepsInv == ASSUME IInv, NEW k \in Clicks, RpcFails(k) PROVE IInv'
  <1>1. runs[k].pc \in {"balance", "quote", "allowance", "simulate"} /\ Active(k)
    BY DEF RpcFails, Active
  <1>2. phase' \in Phases
    BY DEF RpcFails, Fails, Failed, IInv, ButtonInv, Phases
  <1> QED
    BY <1>1, <1>2, Ends DEF RpcFails, Fails, form, chain, past

LEMMA RejectKeepsInv == ASSUME IInv, NEW k \in Clicks, Reject(k) PROVE IInv'
  <1>1. runs[k].pc \in {"approve", "sign"} /\ Active(k)
    BY DEF Reject, Prompt, Active
  <1>2. phase' \in Phases
    BY DEF Reject, Fails, Failed, IInv, ButtonInv, Phases
  <1> QED
    BY <1>1, <1>2, Ends DEF Reject, Fails, form, chain, bounds, past

LEMMA PollEndsKeepsInv == ASSUME IInv, NEW k \in Clicks, PollEnds(k) PROVE IInv'
  <1>1. runs[k].pc = "poll" /\ Active(k)
    BY DEF PollEnds, Active
  <1>2. phase' \in Phases
    BY DEF PollEnds, Phases
  <1> QED
    BY <1>1, <1>2, Ends DEF PollEnds, form, chain, bounds, past

\* What a function waits for is what it has sent.
LEMMA OfIs ==
    ASSUME TxsInv, NEW n \in DOMAIN txs
    PROVE  /\ txs[n].kind = "approve" => Of(txs[n].run, "approve") = n
           /\ txs[n].kind = "launch" => Of(txs[n].run, "launch") = n
  <1>1. \A m \in DOMAIN txs :
            txs[n].run = txs[m].run /\ (txs[n].kind = "approve" <=> txs[m].kind = "approve") => n = m
    BY DEF TxsInv
  <1>2. ASSUME NEW kind \in {"approve", "launch"}, txs[n].kind = kind
        PROVE  Of(txs[n].run, kind) = n
    <2>1. \A m \in DOMAIN txs : txs[m].run = txs[n].run /\ txs[m].kind = kind => m = n
      BY <1>1, <1>2
    <2> QED
      BY <1>2, <2>1 DEF Of
  <1> QED
    BY <1>2

LEMMA ApprovalEndsKeepsInv == ASSUME IInv, NEW k \in Clicks, ApprovalEnds(k) PROVE IInv'
  <1>1. runs[k].pc = "approval" /\ Active(k)
    BY DEF ApprovalEnds, Active
  <1>2. /\ RunOK(k) /\ runs[k].side = "sell" /\ panel \in {"trade", "swap"}
        /\ runs[k].input \in Nat /\ runs[k].min \in Nat
    BY <1>1, ActiveRun DEF RunOK, StagesOf, Sides
  <1>3. UNCHANGED <<panel, side, amount, asking, maxing, quote, hash, seen, txs, native, tokens,
                    allowance, rate, clicks, overlap, maxed>>
    BY DEF ApprovalEnds, form, chain
  <1>4. phase' \in Phases
    BY <1>2 DEF ApprovalEnds, Fails, Failed, IInv, ButtonInv, Phases
  <1>5. gaveUp \subseteq gaveUp'
    BY DEF ApprovalEnds
  <1>6. ASSUME NEW n \in Outstanding, txs[n].run = k, txs[n].kind = "approve"
        PROVE  gaveUp' # {}
    <2>1. Of(k, "approve") = n /\ txs[n].status = "pending"
      BY <1>6, OfIs DEF IInv, Outstanding
    <2> QED
      BY <1>2, <2>1 DEF ApprovalEnds
  <1>7. Goto(k, "done") \/ (panel = "swap" /\ Goto(k, "simulate"))
    BY DEF ApprovalEnds, Fails
  <1>8. CASE Goto(k, "done")
    BY <1>1, <1>3, <1>4, <1>5, <1>6, <1>8, Ends
  <1>9. CASE panel = "swap" /\ Goto(k, "simulate")
    <2>1. StepsTo(k, "simulate", runs[k].min)
      BY <1>9, GotoSteps DEF IInv, Stages
    <2>2. /\ "simulate" \in Stages /\ "simulate" \in StagesOf(runs[k].side)
          /\ runs[k].pc \in Quoted(runs[k].side)
      BY <1>1, <1>2, <1>9 DEF StagesOf, Quoted, Stages, Sides
    <2>3. RunOK(k)'
      BY <1>1, <1>2, <1>3, <1>9, <2>1, <2>2, StepKeeps
    <2> QED
      BY <1>1, <1>2, <1>3, <1>4, <1>5, <1>6, <1>9, <2>1, <2>2, <2>3, Advance
  <1> QED
    BY <1>7, <1>8, <1>9

LEMMA LaunchEndsKeepsInv == ASSUME IInv, NEW k \in Clicks, LaunchEnds(k) PROVE IInv'
  <1>1. runs[k].pc = "wait" /\ Active(k)
    BY DEF LaunchEnds, Active
  <1>2. /\ RunOK(k) /\ runs[k].side \in Sides /\ panel = "launch"
        /\ runs[k].input \in Nat /\ runs[k].min \in Nat
    BY <1>1, ActiveRun DEF RunOK, StagesOf, Sides
  <1>3. UNCHANGED <<panel, side, amount, asking, maxing, quote, hash, seen, txs, native, tokens,
                    allowance, rate, clicks, overlap, maxed>>
    BY DEF LaunchEnds, form, chain
  <1>4. phase' \in Phases
    BY DEF LaunchEnds, Fails, Failed, IInv, ButtonInv, Phases
  <1>5. gaveUp \subseteq gaveUp'
    BY DEF LaunchEnds
  <1>6. ASSUME NEW n \in Outstanding, txs[n].run = k, txs[n].kind # "approve"
        PROVE  n \in gaveUp'
    <2>1. n \in DOMAIN txs /\ txs[n].status = "pending"
      BY DEF Outstanding
    <2>2. txs[n].kind = "launch"
      BY <1>2, <2>1, TxIs DEF TxOK, IInv
    <2>3. Of(k, "launch") = n
      BY <1>6, <2>1, <2>2, OfIs DEF IInv
    <2> QED
      BY <2>1, <2>3 DEF LaunchEnds
  <1>7. Goto(k, "done") \/ Goto(k, "poll")
    BY DEF LaunchEnds, Fails
  <1>8. CASE Goto(k, "done")
    BY <1>1, <1>3, <1>4, <1>5, <1>6, <1>8, Ends
  <1>9. CASE Goto(k, "poll")
    <2>1. StepsTo(k, "poll", runs[k].min)
      BY <1>9, GotoSteps DEF IInv, Stages
    <2>2. /\ "poll" \in Stages /\ "poll" \in StagesOf(runs[k].side)
          /\ "poll" \notin Quoted(runs[k].side)
      BY <1>2 DEF StagesOf, Quoted, Stages, Sides
    <2>3. RunOK(k)'
      BY <1>1, <1>2, <1>3, <2>1, <2>2, StepKeeps
    <2> QED
      BY <1>1, <1>2, <1>3, <1>4, <1>5, <1>6, <2>1, <2>2, <2>3, Advance
  <1> QED
    BY <1>7, <1>8, <1>9

-----------------------------------------------------------------------------
(* The form.                                                               *)

LEMMA FormSteps ==
    ASSUME IInv, FormInv',
           UNCHANGED <<panel, phase, writer, hash, seen, runs, txs, native, tokens, allowance, rate,
                       clicks, gaveUp, overlap>>
    PROVE  IInv'
  <1>1. RunsInv'
    BY DEF IInv, RunsInv, RunOK, Active, StagesOf, Quoted
  <1>2. TxsInv'
    BY DEF IInv, TxsInv, TxOK
  <1>3. ChainInv' /\ ButtonInv' /\ OneRun'
    BY DEF IInv, ChainInv, ButtonInv, OneRun, Active
  <1>4. WatchInv' /\ FundsInv'
    BY DEF IInv, WatchInv, FundsInv, Watched, Covered, Outstanding, Active
  <1> QED
    BY <1>1, <1>2, <1>3, <1>4 DEF IInv

LEMMA EditKeepsInv ==
    ASSUME IInv, NEW s \in {"buy", "sell"}, NEW a \in Amounts \cup {0}, Edit(s, a)
    PROVE  IInv'
  <1>1. a \in Nat
    BY PanelAssumption
  <1>2. FormInv'
    BY <1>1 DEF IInv, FormInv, Edit, Asking, Key, Sides, QuoteIsOfForm
  <1> QED
    BY <1>2, FormSteps DEF Edit, button, chain

LEMMA QuotesKeepInv ==
    ASSUME IInv, NEW key \in asking, QuoteArrives(key) \/ QuoteFails(key)
    PROVE  IInv'
  <1>1. key = Key /\ asking' = {}
    BY DEF IInv, FormInv, QuoteArrives, QuoteFails
  <1>2. FormInv'
    BY <1>1 DEF IInv, FormInv, QuoteArrives, QuoteFails, Key, QuoteIsOfForm
  <1> QED
    BY <1>2, FormSteps DEF QuoteArrives, QuoteFails, button, chain, bounds, past

LEMMA SetMaximumKeepsInv == ASSUME IInv, SetMaximum PROVE IInv'
  <1>1. FormInv'
    BY DEF IInv, FormInv, SetMaximum, Key, QuoteIsOfForm
  <1> QED
    BY <1>1, FormSteps DEF SetMaximum, button, chain, past

LEMMA MaximumReadKeepsInv == ASSUME IInv, MaximumRead PROVE IInv'
  <1>1. maxing \in Sides /\ panel \in {"trade", "swap"} /\ native \in Nat /\ tokens \in Nat
    BY DEF MaximumRead, IInv, FormInv, ChainInv
  <1>2. native - native \div 100 \in Nat
    <2>1. native \div 100 \in Nat /\ native \div 100 <= native
      BY <1>1
    <2> QED
      BY <1>1, <2>1
  <1>3. Spendable(maxing) \in Nat
    BY <1>1, <1>2 DEF Spendable, Sides
  <1>4. amount' \in Nat
    BY <1>3 DEF MaximumRead, IInv, FormInv
  <1>5. UNCHANGED <<panel, side, quote>> /\ maxing' = Nothing
    BY DEF MaximumRead
  <1>6. asking' = {} \/ asking' = {<<side, amount'>>}
    BY DEF MaximumRead, Asking, IInv, FormInv, Key
  <1>7. maxed' = TRUE \/ (amount' = amount /\ maxed' = maxed)
    BY DEF MaximumRead
  <1>8. FormInv'
    BY <1>4, <1>5, <1>6, <1>7 DEF IInv, FormInv, Key, QuoteIsOfForm
  <1> QED
    BY <1>8, FormSteps DEF MaximumRead, button, chain, bounds

-----------------------------------------------------------------------------
(* Clicks and signatures.                                                  *)

\* A click comes when nothing is outstanding that the page knows of.
LEMMA NothingWatched ==
    ASSUME IInv, ~Pending, ~overlap, NEW n \in Outstanding, txs[n].kind # "approve"
    PROVE  n \in gaveUp
  <1>1. SUFFICES ASSUME Watched(n) PROVE FALSE
    BY DEF IInv, WatchInv
  <1>2. panel \in {"trade", "swap", "launch"}
    BY DEF IInv, FormInv
  <1> QED
    BY <1>1, <1>2 DEF Watched, Pending

LEMMA ClickKeepsInv == ASSUME IInv, NEW k \in Clicks, Click(k) PROVE IInv'
  <1>1. /\ k = clicks + 1 /\ clicks' = k /\ clicks \in Nat /\ k \in Nat /\ k # 0
        /\ UNCHANGED <<panel, side, amount, asking, maxing, txs, native, tokens, allowance, rate,
                       gaveUp, maxed>>
        /\ runs \in [Clicks -> Runs]
    BY DEF Click, chain, IInv, RunsInv, Clicks
  <1>2. ~Active(k)
    BY <1>1 DEF IInv, RunsInv, RunOK
  <1>3. /\ panel \in {"trade", "swap", "launch"} /\ side \in Sides /\ amount \in Nat
        /\ rate \in Nat \ {0}
    BY DEF IInv, FormInv, ChainInv
  <1> DEFINE first == Head(Script(side))
  <1>4. first \in StagesOf(side) /\ first \in Stages /\ first \notin Quoted(side) /\ first # "done"
        /\ (first = "sign" => panel = "launch")
        /\ (panel = "trade" /\ side = "sell" => first = "balance")
    <2>1. CASE panel = "trade" /\ side = "buy"
      BY <2>1 DEF Script, TradeScript, StagesOf, Quoted, Stages
    <2>2. CASE panel = "trade" /\ side = "sell"
      BY <2>2 DEF Script, TradeScript, StagesOf, Quoted, Stages
    <2>3. CASE panel = "swap" /\ side = "buy"
      BY <2>3 DEF Script, SwapScript, StagesOf, Quoted, Stages
    <2>4. CASE panel = "swap" /\ side = "sell"
      BY <2>4 DEF Script, SwapScript, StagesOf, Quoted, Stages
    <2>5. CASE panel = "launch"
      BY <2>5 DEF Script, LaunchScript, StagesOf, Quoted, Stages
    <2> QED
      BY <1>3, <2>1, <2>2, <2>3, <2>4, <2>5 DEF Sides
  <1> DEFINE run == [pc |-> first, side |-> side, input |-> amount, min |-> 0, low |-> rate]
  <1>5. \/ UNCHANGED <<runs, writer, phase>>
        \/ /\ amount > 0
           /\ runs' = [runs EXCEPT ![k] = run]
           /\ writer' = (IF Prompt(first) THEN k ELSE writer)
           /\ phase' = (IF panel = "trade" /\ side = "buy" THEN "buying" ELSE phase)
    BY DEF Click, Valid
  <1>6. run \in Runs
    BY <1>3, <1>4 DEF Runs
  <1> HIDE DEF first
  <1>7. /\ runs' \in [Clicks -> Runs] /\ \A j \in Clicks : j # k => runs'[j] = runs[j]
        /\ runs'[k] = runs[k] \/ (runs'[k] = run /\ amount > 0)
    BY <1>1, <1>5, <1>6
  <1>8. FormInv'
    BY <1>1 DEF Click, IInv, FormInv, Key, QuoteIsOfForm
  <1>9. ChainInv'
    BY <1>1 DEF IInv, ChainInv
  <1>10. RunsInv'
    <2>1. ASSUME NEW j \in Clicks, Active(j)'
          PROVE  RunOK(j)'
      <3>1. CASE j = k
        <4>1. /\ runs'[k].pc = first /\ runs'[k].side = side /\ runs'[k].input = amount /\ amount > 0
              /\ runs'[k].low = rate
          BY <1>2, <1>7, <2>1, <3>1 DEF Active
        <4>2. StagesOf(side)' = StagesOf(side) /\ Quoted(side)' = Quoted(side)
          BY <1>1 DEF StagesOf, Quoted
        <4> QED
          BY <1>1, <1>3, <1>4, <3>1, <4>1, <4>2 DEF RunOK
      <3>2. CASE j # k
        <4>1. runs'[j] = runs[j] /\ RunOK(j)
          BY <1>7, <2>1, <3>2 DEF Active, IInv, RunsInv
        <4>2. j <= clicks'
          BY <1>1, <4>1 DEF RunOK, Clicks
        <4> QED
          BY <1>1, <4>1, <4>2 DEF RunOK, StagesOf, Quoted
      <3> QED
        BY <3>1, <3>2
    <2> QED
      BY <1>1, <1>7, <2>1 DEF RunsInv
  <1>11. ASSUME NEW n \in DOMAIN txs
         PROVE  txs[n].run # k /\ runs'[txs[n].run] = runs[txs[n].run] /\ txs[n].run <= clicks'
    <2>1. txs[n].run \in Clicks /\ txs[n].run <= clicks
      BY TxIs DEF IInv, TxOK
    <2> QED
      BY <1>1, <1>7, <2>1 DEF Clicks
  <1>12. TxsInv'
    <2>1. ASSUME NEW n \in DOMAIN txs
          PROVE  TxOK(n)'
      BY <1>1, <1>11 DEF IInv, TxsInv, TxOK
    <2> QED
      BY <1>1, <2>1 DEF IInv, TxsInv
  <1>13. ButtonInv'
    <2>1. phase' \in Phases /\ seen' = "none"
      BY <1>5 DEF Click, IInv, ButtonInv, Phases
    <2>2. ASSUME writer' # 0
          PROVE  writer' \in Clicks /\ Prompt(runs'[writer'].pc)
      <3>1. CASE writer' = k /\ Prompt(first) /\ runs'[k] = run
        BY <3>1
      <3>2. CASE writer' = writer
        <4>1. writer \in Clicks /\ Prompt(runs[writer].pc)
          BY <2>2, <3>2 DEF IInv, ButtonInv
        <4>2. writer # k
          BY <1>2, <4>1 DEF Active, Prompt
        <4> QED
          BY <1>7, <3>2, <4>1, <4>2
      <3> QED
        BY <1>1, <1>5, <3>1, <3>2
    <2> QED
      BY <2>1, <2>2 DEF ButtonInv, Phases
  <1>14. OneRun'
    <2> SUFFICES ASSUME ~overlap', NEW j \in Clicks, Active(j)'
                 PROVE  j = k
      BY <1>1 DEF OneRun
    <2>1. ~Active(j)
      BY DEF Click
    <2> QED
      BY <1>7, <2>1 DEF Active
  <1>16. ~overlap' => ~overlap
    BY DEF Click
  <1>17. WatchInv'
    <2> SUFFICES ASSUME ~overlap', NEW n \in Outstanding, txs[n].kind # "approve"
                 PROVE  n \in gaveUp
      BY <1>1 DEF WatchInv, Outstanding
    <2> QED
      BY <1>16, NothingWatched DEF Click
  <1>18. FundsInv'
    <2> SUFFICES ASSUME ~overlap', gaveUp = {}
                 PROVE  /\ \A n \in Outstanding :
                            /\ txs[n].kind = "approve" => runs'[txs[n].run].pc = "approval"
                            /\ Covered(txs[n].kind, txs[n].input)
                        /\ \A j \in Clicks :
                            /\ panel # "launch" /\ runs'[j].pc = "sign" =>
                                Covered(runs'[j].side, runs'[j].input)
                            /\ panel = "trade" /\ runs'[j].side = "sell" /\ runs'[j].pc # "done"
                               /\ runs'[j].pc # "balance" => tokens >= runs'[j].input
                        /\ \A n \in DOMAIN txs : txs[n].status \notin {"balance", "allowance"}
      BY <1>1 DEF FundsInv, Outstanding, Covered, Active
    <2>1. \A n \in Outstanding :
            /\ txs[n].kind = "approve" => runs'[txs[n].run].pc = "approval"
            /\ Covered(txs[n].kind, txs[n].input)
      BY <1>11, <1>16 DEF IInv, FundsInv, Outstanding
    <2>2. ASSUME NEW j \in Clicks
          PROVE  /\ panel # "launch" /\ runs'[j].pc = "sign" =>
                     Covered(runs'[j].side, runs'[j].input)
                 /\ panel = "trade" /\ runs'[j].side = "sell" /\ runs'[j].pc # "done"
                    /\ runs'[j].pc # "balance" => tokens >= runs'[j].input
      <3>1. CASE runs'[j] = runs[j]
        BY <1>16, <3>1 DEF IInv, FundsInv, Active
      <3>2. CASE runs'[j] = run
        BY <1>4, <3>2
      <3> QED
        BY <1>7, <3>1, <3>2
    <2>3. \A n \in DOMAIN txs : txs[n].status \notin {"balance", "allowance"}
      BY <1>16 DEF IInv, FundsInv
    <2> QED
      BY <2>1, <2>2, <2>3
  <1> QED
    BY <1>8, <1>9, <1>10, <1>12, <1>13, <1>14, <1>17, <1>18 DEF IInv

LEMMA AppendIs ==
    ASSUME TxsInv, NEW tx \in Transactions, txs' = Append(txs, tx)
    PROVE  /\ txs' \in Seq(Transactions) /\ Len(txs') = Len(txs) + 1
           /\ DOMAIN txs' = DOMAIN txs \cup {Len(txs) + 1} /\ Len(txs) + 1 \notin DOMAIN txs
           /\ txs'[Len(txs) + 1] = tx
           /\ \A n \in DOMAIN txs : txs'[n] = txs[n]
  <1>1. txs \in Seq(Transactions) /\ Len(txs) \in Nat /\ DOMAIN txs = 1 .. Len(txs)
    BY DEF TxsInv
  <1>2. txs' \in Seq(Transactions) /\ Len(txs') = Len(txs) + 1 /\ DOMAIN txs' = 1 .. Len(txs) + 1
    BY <1>1
  <1>3. txs'[Len(txs) + 1] = tx /\ \A n \in DOMAIN txs : txs'[n] = txs[n]
    BY <1>1
  <1> QED
    BY <1>1, <1>2, <1>3

LEMMA ConfirmKeepsInv == ASSUME IInv, NEW k \in Clicks, Confirm(k) PROVE IInv'
  <1>1. runs[k].pc \in {"approve", "sign"} /\ Active(k)
    BY DEF Confirm, Active
  <1>2. /\ RunOK(k) /\ runs[k].side \in Sides /\ panel \in {"trade", "swap", "launch"}
        /\ runs[k].input \in Nat /\ runs[k].min \in Nat /\ runs[k].low \in Nat
    BY <1>1, ActiveRun DEF RunOK
  <1>3. UNCHANGED <<panel, side, amount, asking, maxing, quote, native, tokens,
                    allowance, rate, clicks, overlap, maxed, gaveUp>>
    BY DEF Confirm, form, chain, bounds, past
  <1> DEFINE tx   == IF runs[k].pc = "approve" THEN Approval(k) ELSE Final(k)
             next == IF runs[k].pc = "approve" THEN "approval"
                     ELSE IF panel = "launch" THEN "wait" ELSE "done"
  <1>0. PICK new \in Nat : new = Len(txs) + 1
    BY DEF IInv, TxsInv
  <1>4. txs' = Append(txs, tx) /\ Goto(k, next)
    <2>1. runs[k].pc = "sign" => Following(k) = IF panel = "launch" THEN "wait" ELSE "done"
      BY <1>2, TradeStages, SwapStages, LaunchStages DEF Sides
    <2> QED
      BY <2>1 DEF Confirm
  <1>5. /\ tx \in Transactions /\ tx.run = k /\ tx.status = "pending"
        /\ runs[k].pc = "approve" => tx.kind = "approve" /\ (panel = "trade" => tx.input = Endless)
        /\ runs[k].pc = "sign" =>
            /\ tx.kind = IF panel = "launch" THEN "launch" ELSE runs[k].side
            /\ tx.input = runs[k].input /\ tx.min = runs[k].min /\ tx.low = runs[k].low
    <2>1. Approval(k) \in Transactions
      BY <1>2, PanelAssumption DEF Approval, Transactions, Statuses
    <2>2. Final(k) \in Transactions
      BY <1>2 DEF Final, Transactions, Statuses, Sides
    <2> QED
      BY <2>1, <2>2 DEF Approval, Final
  <1>6. /\ runs[k].pc = "approve" => runs[k].side = "sell" /\ panel \in {"trade", "swap"}
        /\ runs[k].pc = "sign" /\ panel # "launch" => "sign" \in Quoted(runs[k].side)
    BY <1>2 DEF RunOK, StagesOf, Sides, Quoted
  <1>7. next \in Stages
    BY DEF Stages
  <1> HIDE DEF tx, next
  <1>8. StepsTo(k, next, runs[k].min)
    BY <1>4, <1>7, GotoSteps DEF IInv
  <1>9. /\ runs' \in [Clicks -> Runs] /\ \A j \in Clicks : j # k => runs'[j] = runs[j]
        /\ runs'[k].pc = next /\ runs'[k].side = runs[k].side /\ runs'[k].input = runs[k].input
        /\ runs'[k].min = runs[k].min /\ runs'[k].low = runs[k].low
    BY <1>8 DEF StepsTo, Runs, IInv, RunsInv
  <1>10. /\ txs' \in Seq(Transactions) /\ Len(txs') = new
         /\ DOMAIN txs' = DOMAIN txs \cup {new} /\ new \notin DOMAIN txs
         /\ txs'[new] = tx /\ \A n \in DOMAIN txs : txs'[n] = txs[n]
    BY <1>0, <1>4, <1>5, AppendIs DEF IInv
  <1>11. FormInv' /\ ChainInv'
    BY <1>3 DEF IInv, FormInv, ChainInv, QuoteIsOfForm, Key
  <1>12. RunsInv'
    <2>1. ASSUME NEW j \in Clicks, Active(j)'
          PROVE  RunOK(j)'
      <3>1. CASE j = k
        <4>1. next = "approval" \/ (next = "wait" /\ panel = "launch")
          BY <1>9, <2>1, <3>1 DEF next, Active
        <4>2. /\ next \in StagesOf(runs[k].side)
              /\ next \in Quoted(runs[k].side) => runs[k].pc \in Quoted(runs[k].side)
              /\ next = "approval" => runs[k].pc = "approve"
          BY <1>2, <1>6, <4>1 DEF next, StagesOf, Quoted, Sides, RunOK
        <4> QED
          BY <1>1, <1>2, <1>3, <1>7, <1>8, <3>1, <4>1, <4>2, StepKeeps DEF RunOK
      <3>2. CASE j # k
        <4>1. runs'[j] = runs[j] /\ RunOK(j)
          BY <1>9, <2>1, <3>2 DEF Active, IInv, RunsInv
        <4> QED
          BY <1>3, <4>1 DEF RunOK, StagesOf, Quoted
      <3> QED
        BY <3>1, <3>2
    <2> QED
      BY <1>3, <1>9, <2>1 DEF IInv, RunsInv
  <1>13. \A n \in DOMAIN txs :
            txs[n].run = k => runs[k].pc = "sign" /\ txs[n].kind = "approve" /\ panel # "launch"
    BY <1>1, TxIs DEF IInv, TxOK
  <1>14. TxsInv'
    <2>1. ASSUME NEW n \in DOMAIN txs
          PROVE  TxOK(n)'
      <3>1. TxOK(n) /\ txs[n].run \in Clicks /\ txs'[n] = txs[n]
        BY <1>10, TxIs DEF IInv
      <3>2. CASE txs[n].run = k
        <4>1. txs[n].kind = "approve" /\ runs'[k].pc = "done"
          BY <1>9, <1>13, <3>2 DEF next
        <4> QED
          BY <1>3, <3>1, <3>2, <4>1 DEF TxOK
      <3>3. CASE txs[n].run # k
        BY <1>3, <1>9, <3>1, <3>3 DEF TxOK
      <3> QED
        BY <3>2, <3>3
    <2>2. TxOK(new)'
      <3>1. CASE runs[k].pc = "approve"
        BY <1>2, <1>3, <1>5, <1>6, <1>9, <1>10, <3>1 DEF TxOK, RunOK, next, Sides
      <3>2. CASE runs[k].pc = "sign"
        <4>1. /\ tx.kind \in Sides => tx.min >= Bound(tx.input * tx.low)
              /\ tx.kind = "launch" <=> panel = "launch"
              /\ tx.kind # "approve"
          BY <1>2, <1>5, <1>6, <3>2 DEF RunOK, Sides
        <4>2. panel = "trade" /\ tx.kind = "sell" => allowance = Endless /\ tx.input <= Wealth
          BY <1>2, <1>5, <3>2 DEF RunOK
        <4>3. next \in {"wait", "done"}
          BY <3>2 DEF next
        <4> QED
          BY <1>2, <1>3, <1>5, <1>9, <1>10, <4>1, <4>2, <4>3 DEF TxOK, RunOK
      <3> QED
        BY <1>1, <3>1, <3>2
    <2>3. ASSUME NEW n \in DOMAIN txs', NEW m \in DOMAIN txs', txs'[n].run = txs'[m].run,
                 txs'[n].kind = "approve" <=> txs'[m].kind = "approve"
          PROVE  n = m
      <3>1. ASSUME NEW o \in DOMAIN txs, txs[o].run = k
            PROVE  ~(txs[o].kind = "approve" <=> tx.kind = "approve")
        BY <1>2, <1>5, <1>13, <3>1 DEF Sides
      <3>2. CASE n \in DOMAIN txs /\ m \in DOMAIN txs
        BY <1>10, <2>3, <3>2 DEF IInv, TxsInv
      <3>3. CASE n = new /\ m \in DOMAIN txs
        BY <1>5, <1>10, <2>3, <3>1, <3>3
      <3>4. CASE m = new /\ n \in DOMAIN txs
        BY <1>5, <1>10, <2>3, <3>1, <3>4
      <3> QED
        BY <1>10, <3>2, <3>3, <3>4
    <2> QED
      BY <1>10, <2>1, <2>2, <2>3 DEF TxsInv
  <1>15. ButtonInv'
    <2>1. phase' \in Phases
      BY DEF Confirm, IInv, ButtonInv, Phases
    <2>2. seen' \in {"none", "loading", "success", "error"} /\ (seen' # "none" => hash' \in DOMAIN txs')
      BY <1>10 DEF Confirm, IInv, ButtonInv
    <2> QED
      BY <1>8, <2>1, <2>2 DEF StepsTo, ButtonInv, Phases
  <1>16. OneRun'
    BY <1>1, <1>3, <1>9 DEF IInv, OneRun, Active
  <1>17. ASSUME ~overlap, NEW n \in Outstanding, txs[n].kind # "approve"
         PROVE  n \in gaveUp
    <2>1. SUFFICES ASSUME Watched(n) PROVE FALSE
      BY <1>17 DEF IInv, WatchInv
    <2>2. n \in DOMAIN txs /\ txs[n].run \in Clicks
      BY TxIs DEF Outstanding, IInv
    <2>3. runs[txs[n].run].pc = "wait"
      BY <1>1, <2>1 DEF Watched
    <2>4. txs[n].run = k
      BY <1>1, <1>17, <2>2, <2>3 DEF IInv, OneRun, Active
    <2> QED
      BY <1>1, <2>3, <2>4
  <1>18. ASSUME NEW n \in Outstanding'
         PROVE  n = new \/ (n \in Outstanding /\ txs'[n] = txs[n])
    BY <1>10 DEF Outstanding
  <1>19. WatchInv'
    <2> SUFFICES ASSUME ~overlap, NEW n \in Outstanding', txs'[n].kind # "approve", n \notin gaveUp
                 PROVE  Watched(n)'
      BY <1>3 DEF WatchInv
    <2>1. n = new
      BY <1>17, <1>18
    <2>2. runs[k].pc = "sign"
      BY <1>1, <1>5, <1>10, <2>1
    <2>3. CASE panel = "launch"
      BY <1>3, <1>5, <1>9, <1>10, <2>1, <2>2, <2>3 DEF Watched, Confirm, next
    <2>4. CASE panel # "launch"
      <3>1. hash' = new /\ seen' = "loading"
        BY <1>10, <2>2, <2>4 DEF Confirm
      <3>2. \A j \in Clicks : ~Active(j)'
        BY <1>1, <1>9, <2>2, <2>4 DEF IInv, OneRun, Active, next
      <3> QED
        BY <1>3, <2>1, <2>4, <3>1, <3>2 DEF Watched
    <2> QED
      BY <2>3, <2>4
  <1>20. FundsInv'
    <2> SUFFICES ASSUME ~overlap, gaveUp = {}
                 PROVE  /\ \A n \in Outstanding' :
                            /\ txs'[n].kind = "approve" => runs'[txs'[n].run].pc = "approval"
                            /\ Covered(txs'[n].kind, txs'[n].input)
                        /\ \A j \in Clicks :
                            /\ panel # "launch" /\ runs'[j].pc = "sign" =>
                                Covered(runs'[j].side, runs'[j].input)
                            /\ panel = "trade" /\ runs'[j].side = "sell" /\ runs'[j].pc # "done"
                               /\ runs'[j].pc # "balance" => tokens >= runs'[j].input
                        /\ \A n \in DOMAIN txs' : txs'[n].status \notin {"balance", "allowance"}
      BY <1>3 DEF FundsInv, Covered, Active
    <2>1. FundsInv
      BY DEF IInv
    <2>2. ASSUME NEW n \in Outstanding'
          PROVE  /\ txs'[n].kind = "approve" => runs'[txs'[n].run].pc = "approval"
                 /\ Covered(txs'[n].kind, txs'[n].input)
      <3>1. CASE n = new
        <4>1. CASE runs[k].pc = "approve"
          BY <1>5, <1>9, <1>10, <3>1, <4>1 DEF Covered, next
        <4>2. CASE runs[k].pc = "sign"
          BY <1>2, <1>5, <1>9, <1>10, <2>1, <3>1, <4>2 DEF Covered, FundsInv, Sides
        <4> QED
          BY <1>1, <4>1, <4>2
      <3>2. CASE n # new
        <4>1. n \in Outstanding /\ txs'[n] = txs[n] /\ txs[n].run \in Clicks
          BY <1>18, <3>2, TxIs DEF Outstanding, IInv
        <4>2. /\ txs[n].kind = "approve" => runs[txs[n].run].pc = "approval"
              /\ Covered(txs[n].kind, txs[n].input)
          BY <2>1, <4>1 DEF FundsInv
        <4> QED
          BY <1>1, <1>9, <4>1, <4>2
      <3> QED
        BY <3>1, <3>2
    <2>3. ASSUME NEW j \in Clicks
          PROVE  /\ panel # "launch" /\ runs'[j].pc = "sign" =>
                     Covered(runs'[j].side, runs'[j].input)
                 /\ panel = "trade" /\ runs'[j].side = "sell" /\ runs'[j].pc # "done"
                    /\ runs'[j].pc # "balance" => tokens >= runs'[j].input
      <3>1. CASE j = k
        BY <1>1, <1>9, <2>1, <3>1 DEF FundsInv, Active, next
      <3>2. CASE j # k
        BY <1>9, <2>1, <3>2 DEF FundsInv, Active
      <3> QED
        BY <3>1, <3>2
    <2>4. \A n \in DOMAIN txs' : txs'[n].status \notin {"balance", "allowance"}
      BY <1>5, <1>10, <2>1 DEF FundsInv
    <2> QED
      BY <2>2, <2>3, <2>4
  <1> QED
    BY <1>11, <1>12, <1>14, <1>15, <1>16, <1>19, <1>20 DEF IInv

-----------------------------------------------------------------------------
(* Receipts, the chain and the market.                                     *)

LEMMA ReceiptsKeepInv == ASSUME IInv, SeeReceipt \/ LoseReceipt PROVE IInv'
  <1>1. /\ seen = "loading" /\ seen' \in {"success", "error"} /\ gaveUp \subseteq gaveUp'
        /\ gaveUp' = gaveUp \/ gaveUp' = gaveUp \cup {hash}
        /\ txs[hash].status # "pending" \/ hash \in gaveUp'
        /\ UNCHANGED <<panel, side, amount, asking, maxing, quote, phase, writer, hash, runs, txs,
                       native, tokens, allowance, rate, clicks, overlap, maxed>>
    BY DEF SeeReceipt, LoseReceipt, form, chain, bounds, past
  <1>2. FormInv' /\ ChainInv' /\ ButtonInv' /\ OneRun'
    BY <1>1 DEF IInv, FormInv, ChainInv, ButtonInv, OneRun, QuoteIsOfForm, Key, Active
  <1>3. RunsInv' /\ TxsInv'
    BY <1>1 DEF IInv, RunsInv, RunOK, Active, StagesOf, Quoted, TxsInv, TxOK
  <1>4. WatchInv'
    <2> SUFFICES ASSUME ~overlap, NEW n \in Outstanding, txs[n].kind # "approve", n \notin gaveUp'
                 PROVE  Watched(n)'
      BY <1>1 DEF WatchInv, Outstanding
    <2>1. Watched(n) /\ txs[n].status = "pending"
      BY <1>1 DEF IInv, WatchInv, Outstanding
    <2> QED
      BY <1>1, <2>1 DEF Watched
  <1>5. FundsInv'
    BY <1>1 DEF IInv, FundsInv, Outstanding, Covered, Active
  <1> QED
    BY <1>2, <1>3, <1>4, <1>5 DEF IInv

LEMMA MovePriceKeepsInv == ASSUME IInv, NEW r \in Rates, MovePrice(r) PROVE IInv'
  <1>1. /\ UNCHANGED <<panel, side, amount, asking, maxing, quote, phase, writer, hash, seen, txs,
                       native, tokens, allowance, clicks, overlap, maxed, gaveUp>>
        /\ rate' = r /\ r \in Nat \ {0}
    BY PanelAssumption DEF MovePrice, form, button, past
  <1>2. runs \in [Clicks -> Runs]
    BY DEF IInv, RunsInv
  <1>3. ASSUME NEW k \in Clicks
        PROVE  /\ runs'[k] \in Runs
               /\ runs'[k].pc = runs[k].pc /\ runs'[k].side = runs[k].side
               /\ runs'[k].input = runs[k].input /\ runs'[k].min = runs[k].min
               /\ Active(k) => runs'[k].low <= r /\ runs'[k].low <= runs[k].low
    <2>1. runs'[k] = IF Active(k) /\ r < runs[k].low THEN [runs[k] EXCEPT !.low = r] ELSE runs[k]
      BY DEF MovePrice
    <2> QED
      BY <1>1, <1>2, <2>1 DEF Runs
  <1>4. runs' \in [Clicks -> Runs]
    <2>1. runs' = [k \in Clicks |-> runs'[k]]
      BY DEF MovePrice
    <2> QED
      BY <1>3, <2>1
  <1>5. \A k \in Clicks : Active(k)' <=> Active(k)
    BY <1>3 DEF Active
  <1>6. FormInv' /\ ChainInv'
    BY <1>1 DEF IInv, FormInv, ChainInv, QuoteIsOfForm, Key
  <1>7. RunsInv'
    <2>1. ASSUME NEW k \in Clicks, Active(k)
          PROVE  RunOK(k)'
      <3>1. RunOK(k) /\ runs[k] \in Runs /\ runs'[k] \in Runs
        BY <1>2, <1>3, <2>1 DEF IInv, RunsInv
      <3>2. Bound(runs'[k].input * runs'[k].low) <= Bound(runs[k].input * runs[k].low)
        <4>1. /\ runs[k].input \in Nat /\ runs[k].low \in Nat /\ runs'[k].low \in Nat
              /\ runs'[k].input = runs[k].input /\ runs'[k].low <= runs[k].low
          BY <1>3, <2>1, <3>1 DEF Runs
        <4> QED
          BY <4>1, Products, BoundGrows
      <3>3. StagesOf(runs[k].side)' = StagesOf(runs[k].side)
            /\ Quoted(runs[k].side)' = Quoted(runs[k].side)
        BY <1>1, <1>3 DEF StagesOf, Quoted
      <3>4. runs'[k].pc \in Quoted(runs[k].side) =>
                runs'[k].min >= Bound(runs'[k].input * runs'[k].low)
        <4>1. /\ runs[k].input * runs[k].low \in Nat /\ runs'[k].input * runs'[k].low \in Nat
              /\ runs[k].min \in Nat
          BY <3>1, Products DEF Runs
        <4>2. /\ Bound(runs[k].input * runs[k].low) \in Nat
              /\ Bound(runs'[k].input * runs'[k].low) \in Nat
          BY <4>1, BoundGrows
        <4> QED
          BY <1>3, <3>1, <3>2, <4>1, <4>2 DEF RunOK
      <3> QED
        BY <1>1, <1>3, <2>1, <3>1, <3>3, <3>4 DEF RunOK
    <2> QED
      BY <1>1, <1>4, <1>5, <2>1 DEF IInv, RunsInv
  <1>8. TxsInv'
    <2>1. ASSUME NEW n \in DOMAIN txs
          PROVE  TxOK(n)'
      BY <1>1, <1>3, TxIs DEF IInv, TxOK
    <2> QED
      BY <1>1, <2>1 DEF IInv, TxsInv
  <1>9. ButtonInv' /\ OneRun'
    BY <1>1, <1>3, <1>5 DEF IInv, ButtonInv, OneRun
  <1>10. \A n \in Outstanding : txs[n].run \in Clicks /\ n \in DOMAIN txs
    BY TxIs DEF IInv, Outstanding
  <1>11. Outstanding' = Outstanding
    BY <1>1 DEF Outstanding
  <1>12. WatchInv'
    <2> SUFFICES ASSUME ~overlap, NEW n \in Outstanding, txs[n].kind # "approve", n \notin gaveUp
                 PROVE  Watched(n)'
      BY <1>1, <1>11 DEF WatchInv
    <2>1. Watched(n)
      BY DEF IInv, WatchInv
    <2> QED
      BY <1>1, <1>3, <1>5, <1>10, <2>1 DEF Watched
  <1>13. FundsInv'
    BY <1>1, <1>3, <1>5, <1>10, <1>11 DEF IInv, FundsInv, Covered
  <1> QED
    BY <1>6, <1>7, <1>8, <1>9, <1>12, <1>13 DEF IInv

\* Only the oldest outstanding transaction is mined; when the page has kept
\* track of everything it is the only one.
LEMMA MineKeepsInv == ASSUME IInv, Mine PROVE IInv'
  <1>1. PICK n \in Outstanding, outOfGas \in BOOLEAN :
            LET status == IF outOfGas THEN "gas" ELSE Refusal(txs[n])
            IN  /\ txs' = [txs EXCEPT ![n].status = status]
                /\ IF status = "success"
                   THEN /\ native' = IF txs[n].kind = "buy" THEN native - txs[n].input ELSE native
                        /\ tokens' = IF txs[n].kind = "sell" THEN tokens - txs[n].input ELSE tokens
                        /\ allowance' = CASE txs[n].kind = "approve" -> txs[n].input
                                          [] txs[n].kind = "sell" /\ allowance # Endless ->
                                                allowance - txs[n].input
                                          [] OTHER -> allowance
                   ELSE UNCHANGED <<native, tokens, allowance>>
    BY DEF Mine
  <1>2. UNCHANGED <<panel, side, amount, asking, maxing, quote, phase, writer, hash, seen, runs,
                    rate, clicks, overlap, maxed, gaveUp>>
    BY DEF Mine, form, button, past
  <1> DEFINE status == IF outOfGas THEN "gas" ELSE Refusal(txs[n])
  <1>3. /\ n \in DOMAIN txs /\ txs[n] \in Transactions /\ TxOK(n) /\ txs[n].run \in Clicks
        /\ txs[n].input \in Nat /\ txs[n].status = "pending"
        /\ txs[n].kind \in {"buy", "sell", "approve", "launch"}
    BY TxIs DEF Outstanding, IInv, Transactions
  <1>4. native \in Nat /\ tokens \in Nat /\ allowance \in Nat /\ tokens <= Wealth
        /\ Endless \in Nat /\ Wealth \in Nat /\ Wealth < Endless
    BY <1>3, EndlessSuffices DEF IInv, ChainInv
  <1>5. /\ status \in {"success", "gas", "balance", "allowance", "price"}
        /\ txs[n].kind \in {"approve", "launch"} => status \in {"success", "gas"}
        /\ status = "balance" => \/ txs[n].kind = "buy" /\ native < txs[n].input
                                 \/ txs[n].kind = "sell" /\ tokens < txs[n].input
        /\ status = "allowance" => txs[n].kind = "sell" /\ allowance < txs[n].input
        /\ status = "success" => Covered(txs[n].kind, txs[n].input)
    BY <1>3, <1>4 DEF Refusal, Covered
  <1>6. /\ txs' = [txs EXCEPT ![n].status = status]
        /\ status # "success" => UNCHANGED <<native, tokens, allowance>>
        /\ status = "success" =>
            /\ native' = IF txs[n].kind = "buy" THEN native - txs[n].input ELSE native
            /\ tokens' = IF txs[n].kind = "sell" THEN tokens - txs[n].input ELSE tokens
            /\ txs[n].kind = "approve" => allowance' = txs[n].input
            /\ txs[n].kind = "sell" /\ allowance # Endless => allowance' = allowance - txs[n].input
            /\ txs[n].kind = "sell" /\ allowance = Endless => allowance' = allowance
            /\ txs[n].kind \in {"buy", "launch"} => allowance' = allowance
    BY <1>1, <1>3
  <1> HIDE DEF status
  <1>7. /\ txs' \in Seq(Transactions) /\ DOMAIN txs' = DOMAIN txs
        /\ txs'[n] = [txs[n] EXCEPT !.status = status]
        /\ \A m \in DOMAIN txs : m # n => txs'[m] = txs[m]
    <2>1. txs \in Seq(Transactions)
      BY DEF IInv, TxsInv
    <2>2. [txs[n] EXCEPT !.status = status] \in Transactions
      BY <1>3, <1>5 DEF Transactions, Statuses
    <2>3. txs' = [txs EXCEPT ![n] = [txs[n] EXCEPT !.status = status]]
      BY <1>6
    <2> QED
      BY <1>3, <2>1, <2>2, <2>3
  <1>8. /\ txs'[n].status = status /\ txs'[n].run = txs[n].run /\ txs'[n].kind = txs[n].kind
        /\ txs'[n].input = txs[n].input /\ txs'[n].min = txs[n].min /\ txs'[n].low = txs[n].low
    BY <1>3, <1>7 DEF Transactions
  <1>9. \A m \in DOMAIN txs :
            /\ txs'[m].run = txs[m].run /\ txs'[m].kind = txs[m].kind
            /\ txs'[m].input = txs[m].input /\ txs'[m].min = txs[m].min /\ txs'[m].low = txs[m].low
    BY <1>7, <1>8
  <1>10. FormInv'
    BY <1>2 DEF IInv, FormInv, QuoteIsOfForm, Key
  <1>11. panel = "trade" =>
            /\ allowance \in {0, Endless} /\ allowance' \in {0, Endless}
            /\ allowance = Endless => allowance' = Endless
    BY <1>3, <1>6 DEF IInv, ChainInv, TxOK
  <1>12. ChainInv'
    <2>1. native' \in Nat /\ tokens' \in Nat /\ tokens' <= Wealth /\ allowance' \in Nat
      BY <1>3, <1>4, <1>5, <1>6 DEF Covered
    <2> QED
      BY <1>2, <1>11, <2>1 DEF IInv, ChainInv
  <1>13. RunsInv'
    BY <1>2, <1>11 DEF IInv, RunsInv, RunOK, Active, StagesOf, Quoted
  <1>14. TxsInv'
    <2>1. ASSUME NEW m \in DOMAIN txs
          PROVE  TxOK(m)'
      <3>1. TxOK(m)
        BY TxIs DEF IInv
      <3>2. CASE m = n
        <4>1. panel = "trade" => txs'[n].status # "allowance"
          BY <1>3, <1>4, <1>5, <1>8 DEF TxOK
        <4>2. txs'[n].kind \in {"approve", "launch"} => txs'[n].status \notin {"balance", "allowance"}
          BY <1>5, <1>8
        <4> QED
          BY <1>2, <1>3, <1>8, <1>11, <3>2, <4>1, <4>2 DEF TxOK
      <3>3. CASE m # n
        BY <1>2, <1>7, <1>11, <3>1, <3>3 DEF TxOK
      <3> QED
        BY <3>2, <3>3
    <2>2. \A m, o \in DOMAIN txs :
            txs'[m].run = txs'[o].run /\ (txs'[m].kind = "approve" <=> txs'[o].kind = "approve")
                => m = o
      BY <1>9 DEF IInv, TxsInv
    <2> QED
      BY <1>7, <2>1, <2>2 DEF TxsInv
  <1>15. ButtonInv' /\ OneRun'
    BY <1>2, <1>7 DEF IInv, ButtonInv, OneRun, Active
  <1>16. ASSUME NEW m \in Outstanding'
         PROVE  m \in Outstanding /\ m # n /\ txs'[m] = txs[m]
    BY <1>5, <1>7, <1>8 DEF Outstanding
  <1>17. WatchInv'
    <2> SUFFICES ASSUME ~overlap, NEW m \in Outstanding', txs'[m].kind # "approve", m \notin gaveUp
                 PROVE  Watched(m)'
      BY <1>2 DEF WatchInv
    <2>1. Watched(m) /\ txs'[m] = txs[m]
      BY <1>16 DEF IInv, WatchInv
    <2> QED
      BY <1>2, <2>1 DEF Watched, Active
  <1>18. FundsInv'
    <2> DEFINE CoveredThen(kind, input) == /\ kind = "buy"  => native' >= input
                                           /\ kind = "sell" => tokens' >= input /\ allowance' >= input
    <2> SUFFICES ASSUME ~overlap, gaveUp = {}
                 PROVE  /\ \A m \in Outstanding' :
                            /\ txs'[m].kind = "approve" => runs[txs'[m].run].pc = "approval"
                            /\ CoveredThen(txs'[m].kind, txs'[m].input)
                        /\ \A k \in Clicks :
                            /\ panel # "launch" /\ runs[k].pc = "sign" =>
                                CoveredThen(runs[k].side, runs[k].input)
                            /\ panel = "trade" /\ runs[k].side = "sell" /\ Active(k)
                               /\ runs[k].pc # "balance" => tokens' >= runs[k].input
                        /\ \A m \in DOMAIN txs : txs'[m].status \notin {"balance", "allowance"}
      BY <1>2, <1>7 DEF FundsInv, Covered, Active
    <2>1. FundsInv
      BY DEF IInv
    <2>2. ASSUME txs[n].kind # "approve"
          PROVE  Watched(n)
      BY <2>2 DEF IInv, WatchInv
    <2>3. ASSUME NEW m \in DOMAIN txs
          PROVE  txs'[m].status \notin {"balance", "allowance"}
      <3>1. Covered(txs[n].kind, txs[n].input)
        BY <2>1 DEF FundsInv
      <3>2. CASE m = n
        BY <1>3, <1>4, <1>5, <1>8, <3>1, <3>2 DEF Covered
      <3>3. CASE m # n
        BY <1>7, <2>1, <3>3 DEF FundsInv
      <3> QED
        BY <3>2, <3>3
    <2>4. CASE txs[n].kind = "approve"
      <3>1. /\ native' = native /\ tokens' = tokens
            /\ runs[txs[n].run].pc = "approval"
        BY <1>6, <2>1, <2>4 DEF FundsInv
      <3>2. \A k \in Clicks : Active(k) => k = txs[n].run
        BY <1>3, <3>1 DEF IInv, OneRun, Active
      <3>3. ASSUME NEW m \in Outstanding'
            PROVE  /\ txs'[m].kind = "approve" => runs[txs'[m].run].pc = "approval"
                   /\ CoveredThen(txs'[m].kind, txs'[m].input)
        <4>1. m \in Outstanding /\ m # n /\ txs'[m] = txs[m] /\ m \in DOMAIN txs /\ txs[m].run \in Clicks
          BY <1>16, TxIs DEF Outstanding, IInv
        <4>2. txs[m].kind # "approve"
          <5> SUFFICES ASSUME txs[m].kind = "approve" PROVE FALSE
            OBVIOUS
          <5>1. Active(txs[m].run)
            BY <2>1, <4>1 DEF FundsInv, Active
          <5>2. txs[m].run = txs[n].run
            BY <3>2, <4>1, <5>1
          <5> QED
            BY <1>3, <2>4, <4>1, <5>2 DEF IInv, TxsInv
        <4>3. Watched(m)
          BY <4>1, <4>2 DEF IInv, WatchInv
        <4>4. panel = "launch"
          BY <1>3, <3>1, <4>3 DEF Watched, Active
        <4> QED
          BY <1>3, <2>4, <4>4 DEF TxOK
      <3>4. ASSUME NEW k \in Clicks
            PROVE  /\ panel # "launch" /\ runs[k].pc = "sign" =>
                        CoveredThen(runs[k].side, runs[k].input)
                   /\ panel = "trade" /\ runs[k].side = "sell" /\ Active(k) /\ runs[k].pc # "balance" =>
                        tokens' >= runs[k].input
        <4>1. runs[k].pc # "sign"
          BY <3>1, <3>2 DEF Active
        <4> QED
          BY <2>1, <3>1, <4>1 DEF FundsInv
      <3> QED
        BY <2>3, <3>3, <3>4
    <2>5. CASE panel = "launch"
      <3>1. \A m \in DOMAIN txs : txs[m].kind = "launch"
        BY <2>5, TxIs DEF IInv, TxOK
      <3>2. \A m \in Outstanding' : txs'[m].kind = "launch"
        BY <1>9, <1>16, <3>1 DEF Outstanding
      <3> QED
        BY <2>3, <2>5, <3>2
    <2>6. CASE txs[n].kind # "approve" /\ panel # "launch"
      <3>1. hash = n /\ \A k \in Clicks : ~Active(k)
        BY <2>2, <2>6 DEF Watched
      <3>2. Outstanding' = {}
        <4> SUFFICES ASSUME NEW m \in Outstanding' PROVE FALSE
          OBVIOUS
        <4>1. m \in Outstanding /\ m # n /\ m \in DOMAIN txs /\ txs[m].run \in Clicks
          BY <1>16, TxIs DEF Outstanding, IInv
        <4>2. CASE txs[m].kind = "approve"
          BY <2>1, <3>1, <4>1, <4>2 DEF FundsInv, Active
        <4>3. CASE txs[m].kind # "approve"
          <5>1. Watched(m)
            BY <4>1, <4>3 DEF IInv, WatchInv
          <5> QED
            BY <2>6, <3>1, <4>1, <5>1 DEF Watched
        <4> QED
          BY <4>2, <4>3
      <3>3. \A k \in Clicks : runs[k].pc # "sign"
        BY <3>1 DEF Active
      <3> QED
        BY <2>3, <3>1, <3>2, <3>3
    <2> QED
      BY <2>4, <2>5, <2>6
  <1> QED
    BY <1>10, <1>12, <1>13, <1>14, <1>15, <1>17, <1>18 DEF IInv

-----------------------------------------------------------------------------
(* The invariant holds.                                                    *)

LEMMA InitInv == Init => IInv
  <1> SUFFICES ASSUME Init PROVE IInv
    OBVIOUS
  <1>1. /\ panel \in {"trade", "swap", "launch"} /\ amount \in Nat /\ rate \in Nat \ {0}
        /\ Wealth \in Nat /\ Endless \in Nat
    BY PanelAssumption DEF Init
  <1>2. FormInv
    BY <1>1 DEF Init, FormInv, QuoteIsOfForm, Key, Sides
  <1>3. \A k \in Clicks : ~Active(k) /\ runs[k].pc = "done"
    BY DEF Init, NoRun, Active
  <1>4. RunsInv
    BY <1>3 DEF Init, RunsInv, NoRun, Runs, Stages
  <1>5. txs = <<>> /\ Outstanding = {} /\ DOMAIN txs = {}
    BY DEF Init, Outstanding
  <1>6. TxsInv
    BY <1>5 DEF TxsInv
  <1>7. ChainInv /\ ButtonInv /\ OneRun
    BY <1>1, <1>3 DEF Init, ChainInv, ButtonInv, OneRun
  <1>8. WatchInv /\ FundsInv
    BY <1>3, <1>5 DEF WatchInv, FundsInv
  <1> QED
    BY <1>2, <1>4, <1>6, <1>7, <1>8 DEF IInv

LEMMA StutterKeepsInv == ASSUME IInv, UNCHANGED vars PROVE IInv'
  <1>1. FormInv'
    BY DEF IInv, FormInv, vars, form, QuoteIsOfForm, Key, past
  <1> QED
    BY <1>1, FormSteps DEF vars, button, chain, bounds, past

LEMMA NextKeepsInv == ASSUME IInv, [Next]_vars PROVE IInv'
  <1>1. ASSUME NEW s \in {"buy", "sell"}, NEW a \in Amounts \cup {0}, Edit(s, a)
        PROVE  IInv'
    BY <1>1, EditKeepsInv
  <1>2. ASSUME NEW key \in asking, QuoteArrives(key) \/ QuoteFails(key)
        PROVE  IInv'
    BY <1>2, QuotesKeepInv
  <1>3. CASE SetMaximum \/ MaximumRead
    BY <1>3, SetMaximumKeepsInv, MaximumReadKeepsInv
  <1>4. ASSUME NEW k \in Clicks, Click(k) \/ Answered(k) \/ Confirm(k) \/ Reject(k) \/ RpcFails(k)
        PROVE  IInv'
    <2>1. CASE Answered(k)
      BY <2>1, BalanceReadKeepsInv, QuoteReadKeepsInv, AllowanceReadKeepsInv, SimulatedKeepsInv,
         ApprovalEndsKeepsInv, LaunchEndsKeepsInv, PollEndsKeepsInv DEF Answered
    <2>2. CASE Click(k) \/ Confirm(k)
      BY <2>2, ClickKeepsInv, ConfirmKeepsInv
    <2>3. CASE Reject(k) \/ RpcFails(k)
      BY <2>3, RejectKeepsInv, RpcFailsKeepsInv
    <2> QED
      BY <1>4, <2>1, <2>2, <2>3
  <1>5. CASE SeeReceipt \/ LoseReceipt \/ Mine
    BY <1>5, ReceiptsKeepInv, MineKeepsInv
  <1>6. ASSUME NEW r \in Rates, MovePrice(r)
        PROVE  IInv'
    BY <1>6, MovePriceKeepsInv
  <1>7. CASE UNCHANGED vars
    BY <1>7, StutterKeepsInv
  <1> QED
    BY <1>1, <1>2, <1>3, <1>4, <1>5, <1>6, <1>7 DEF Next

LEMMA Invariance == Spec => []IInv
  <1>1. IInv /\ [Next]_vars => IInv'
    BY NextKeepsInv
  <1> QED
    BY InitInv, <1>1, PTL DEF Spec

-----------------------------------------------------------------------------
(* The properties.                                                         *)

\* The state of a panel and of the wallet behind it is well formed: a receipt
\* is awaited only for a transaction that was sent, the wallet's prompt belongs
\* to a function that waits for it, balances never go below zero, and one quote
\* at most is being asked for (TradePanel, DexSwapPanel, LaunchPage).
THEOREM TypeCorrect == Spec => []TypeOK
  <1>1. IInv => TypeOK
    <2> SUFFICES ASSUME IInv PROVE TypeOK
      OBVIOUS
    <2>1. Cardinality(asking) <= 1
      BY FS_EmptySet, FS_Singleton DEF IInv, FormInv
    <2> QED
      BY <2>1 DEF IInv, ButtonInv, ChainInv, TypeOK
  <1> QED
    BY <1>1, Invariance, PTL

\* A transaction sent after the panel has looked at balance and allowance does
\* not fail for want of either, as long as no two functions ran at once and the
\* page has not lost track of a transaction; in TradePanel the allowance never
\* runs out (trade, swap).
THEOREM ChecksLast == Spec => []ChecksHold
  <1>1. IInv => ChecksHold
    <2> SUFFICES ASSUME IInv, NEW n \in DOMAIN txs
                 PROVE  /\ txs[n].status \in {"balance", "allowance"} => overlap \/ gaveUp # {}
                        /\ txs[n].status = "allowance" => panel = "swap"
      BY DEF ChecksHold
    <2>1. txs[n].status = "allowance" => panel = "swap"
      BY TxIs DEF IInv, TxOK, FormInv
    <2> QED
      BY <2>1 DEF IInv, FundsInv
  <1> QED
    BY <1>1, Invariance, PTL

\* The least that the user accepts is a tolerance below a price which the
\* market had after the click, however often it moved and whatever quote was on
\* display (trade, swap).
THEOREM MinimumFollowsTheMarket == Spec => []MinimumIsFresh
  <1>1. IInv => MinimumIsFresh
    BY TxIs DEF IInv, TxOK, MinimumIsFresh, Bound, Sides
  <1> QED
    BY <1>1, Invariance, PTL

\* An answer that arrives after the form has changed never replaces the quote
\* on display, but for MAX and for swap() (the effects of TradePanel and
\* DexSwapPanel).
THEOREM QuotesAreOfTheForm == Spec => []QuoteIsOfForm
  <1>1. IInv => QuoteIsOfForm
    BY DEF IInv, FormInv
  <1> QED
    BY <1>1, Invariance, PTL

\* Nobody is offered the button again while a transaction of theirs that the
\* page knows of may still happen (the disabled attributes of the three
\* buttons).
THEOREM ClicksWait == Spec => ClickWaits
  <1>1. ASSUME IInv, [Next]_vars, clicks' # clicks
        PROVE  \A n \in Outstanding : txs[n].kind # "approve" => n \in gaveUp \/ overlap
    <2>1. PICK k \in Clicks : Click(k)
      <3>1. ASSUME NEW k \in Clicks, Answered(k) PROVE clicks' = clicks
        BY <3>1 DEF Answered, BalanceRead, QuoteRead, AllowanceRead, Simulated, Reading,
           ApprovalEnds, LaunchEnds, PollEnds, bounds
      <3>2. ASSUME NEW k \in Clicks, Confirm(k) \/ Reject(k) \/ RpcFails(k)
            PROVE  clicks' = clicks
        BY <3>2 DEF Confirm, Reject, RpcFails, bounds
      <3>3. ASSUME NEW s \in {"buy", "sell"}, NEW a \in Amounts \cup {0}, Edit(s, a)
            PROVE  clicks' = clicks
        BY <3>3 DEF Edit
      <3>4. ASSUME NEW key \in asking, QuoteArrives(key) \/ QuoteFails(key)
            PROVE  clicks' = clicks
        BY <3>4 DEF QuoteArrives, QuoteFails, bounds
      <3>5. ASSUME SetMaximum \/ MaximumRead \/ SeeReceipt \/ LoseReceipt \/ Mine
            PROVE  clicks' = clicks
        BY <3>5 DEF SetMaximum, MaximumRead, SeeReceipt, LoseReceipt, Mine, bounds
      <3>6. ASSUME NEW r \in Rates, MovePrice(r) PROVE clicks' = clicks
        BY <3>6 DEF MovePrice
      <3> QED
        BY <1>1, <3>1, <3>2, <3>3, <3>4, <3>5, <3>6 DEF Next, vars, bounds
    <2>2. ~Pending
      BY <2>1 DEF Click
    <2> QED
      BY <1>1, <2>2, NothingWatched
  <1>2. IInv /\ [Next]_vars =>
            [clicks' # clicks =>
                \A n \in Outstanding : txs[n].kind # "approve" => n \in gaveUp \/ overlap]_vars
    BY <1>1
  <1> QED
    BY <1>2, Invariance, PTL DEF Spec, ClickWaits
=============================================================================
