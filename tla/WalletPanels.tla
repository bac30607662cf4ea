---------------------------- MODULE WalletPanels ----------------------------
(***************************************************************************)
(* The three places of the web application that send transactions:         *)
(* TradePanel (a token on its curve), DexSwapPanel (a graduated token) and *)
(* LaunchPage.  One of them is open, in a browser with one wallet.         *)
(*                                                                         *)
(* A click starts an asynchronous function (trade, swap, submit) that      *)
(* keeps the side and the amount it was called with and goes through a     *)
(* script of reads, wallet prompts and waits; the user, the chain and the  *)
(* market go on between its steps.  What stops a second click is the       *)
(* component's state alone: phase and the receipt of the last transaction  *)
(* in TradePanel, the wallet's prompt and that receipt in DexSwapPanel,    *)
(* the prompt and confirming in LaunchPage.                                *)
(*                                                                         *)
(* The market is a rate: an amount brings rate times as much.  A form of   *)
(* LaunchPage is an amount too, 0 when it is not valid.                    *)
(***************************************************************************)
EXTENDS Integers, Sequences, FiniteSets

CONSTANTS
    Panels,                 \* a subset of {"trade", "swap", "launch"}
    Amounts, Rates,         \* what the user types, what the market is at
    Wealth,                 \* native and tokens in the wallet
    Tolerance,              \* slippage: one part in so many
    Endless,                \* maxUint256
    Nothing,
    MaxClicks, MaxEdits, MaxMoves, MaxFaults

ASSUME PanelAssumption ==
    /\ Panels \subseteq {"trade", "swap", "launch"}
    /\ Amounts \subseteq Nat /\ Rates \subseteq Nat \ {0}
    /\ Wealth \in Nat /\ Tolerance \in Nat \ {0}
    /\ Endless \in Nat /\ Endless > Wealth * MaxClicks
    /\ MaxClicks \in Nat /\ MaxEdits \in Nat /\ MaxMoves \in Nat /\ MaxFaults \in Nat

Clicks == 1 .. MaxClicks

VARIABLES
    panel,
    side, amount,           \* the form
    phase,                  \* phase of TradePanel, confirming of LaunchPage
    writer,                 \* useWriteContract: the click whose prompt is open
    hash, seen,             \* finalHash, hash, transactionHash, and its receipt
    quote, asking,          \* the quote on display; the forms being quoted
    maxing,                 \* the side MAX is reading a balance for
    runs,                   \* click -> [pc, side, input, min, low]
    txs,                    \* the wallet's transactions, in order
    native, tokens, allowance, rate,    \* the chain
    clicks, edits, moves, faults,
    gaveUp, overlap, bounced, maxed     \* history

form   == <<side, amount, quote, asking, maxing>>
button == <<phase, writer, hash, seen>>
chain  == <<native, tokens, allowance, rate>>
bounds == <<clicks, edits, moves, faults>>
past   == <<gaveUp, overlap, bounced, maxed>>
vars   == <<panel, form, button, runs, txs, chain, bounds, past>>

NoRun == [pc |-> "done", side |-> Nothing, input |-> 0, min |-> 0, low |-> 0]
Active(k) == runs[k].pc # "done"

Init ==
    /\ panel \in Panels
    /\ side \in {"buy", "sell"} /\ amount \in Amounts
    /\ phase = "idle" /\ writer = 0 /\ hash = 0 /\ seen = "none"
    /\ quote = Nothing /\ maxing = Nothing
    /\ asking = IF panel = "launch" THEN {} ELSE {<<side, amount>>}
    /\ runs = [k \in Clicks |-> NoRun]
    /\ txs = <<>>
    /\ native = Wealth /\ tokens = Wealth /\ rate \in Rates
    /\ allowance \in {0, Endless}
    /\ panel = "swap" => allowance = 0
    /\ panel = "launch" => side = "buy" /\ allowance = 0
    /\ clicks = 0 /\ edits = 0 /\ moves = 0 /\ faults = 0
    /\ gaveUp = {} /\ overlap = FALSE /\ bounced = FALSE /\ maxed = FALSE

Fault == faults < MaxFaults /\ faults' = faults + 1
---------------------------------------------------------------------------
\* The form.  Changing it cancels the quote that was asked for the old one.

Key == <<side, amount>>
Asking_Both(s, a) == asking \cup {<<s, a>>}
Asking(s, a) == IF a = 0 THEN {} ELSE {<<s, a>>}

Edit(s, a) ==
    /\ panel # "launch" \/ s = side
    /\ edits < MaxEdits /\ edits' = edits + 1
    /\ s # side => a = 0
    /\ <<s, a>> # Key
    /\ side' = s /\ amount' = a
    /\ quote' = Nothing /\ asking' = IF panel = "launch" THEN {} ELSE Asking(s, a)
    /\ maxed' = FALSE
    /\ UNCHANGED <<panel, maxing, button, runs, txs, chain, clicks, moves, faults,
                   gaveUp, overlap, bounced>>

\* The effect that follows side and amount.
QuoteArrives(key) ==
    /\ key \in asking /\ asking' = asking \ {key}
    /\ quote' = [key |-> key, output |-> key[2] * rate, by |-> "effect"]
    /\ UNCHANGED <<panel, side, amount, maxing, button, runs, txs, chain, bounds, past>>
QuoteFails(key) ==
    /\ key \in asking /\ asking' = asking \ {key}
    /\ Fault
    /\ quote' = Nothing
    /\ UNCHANGED <<panel, side, amount, maxing, button, runs, txs, chain, clicks, edits, moves, past>>

\* setMaximum: the old amount's quote may still arrive while the balance is read.
SetMaximum ==
    /\ panel # "launch" /\ maxing = Nothing
    /\ edits < MaxEdits /\ edits' = edits + 1
    /\ maxing' = side /\ quote' = Nothing
    /\ UNCHANGED <<panel, side, amount, asking, button, runs, txs, chain, clicks, moves, faults, past>>
Spendable(s) ==
    CASE s = "buy"                      -> native - native \div 100
      [] s = "sell" /\ panel = "trade"  -> IF tokens > 1 THEN tokens - 1 ELSE tokens
      [] s = "sell" /\ panel = "swap"   -> tokens
MaximumRead ==
    /\ maxing # Nothing /\ maxing' = Nothing
    /\ \/ maxing = "buy" /\ Spendable("buy") = 0 /\ UNCHANGED <<amount, asking, maxed>>
       \/ /\ maxing = "buy" => Spendable("buy") > 0
          /\ amount' = Spendable(maxing)
          /\ maxed' = TRUE
          /\ asking' = IF amount' = amount THEN asking ELSE Asking(side, amount')
    /\ UNCHANGED <<panel, side, quote, button, runs, txs, chain, bounds, gaveUp, overlap, bounced>>

---------------------------------------------------------------------------
\* The asynchronous functions.

TradeScript(s) ==
    IF s = "buy" THEN <<"quote", "balance", "sign", "done">>
                 ELSE <<"balance", "allowance", "quote", "sign", "done">>
SwapScript(s) ==
    IF s = "buy" THEN <<"balance", "quote", "simulate", "sign", "done">>
                 ELSE <<"balance", "quote", "allowance", "simulate", "sign", "done">>
LaunchScript == <<"sign", "wait", "poll", "done">>
Script(s) == CASE panel = "trade"  -> TradeScript(s)
               [] panel = "swap"   -> SwapScript(s)
               [] panel = "launch" -> LaunchScript
Following(k) ==
    LET script == Script(runs[k].side)
        at     == CHOOSE n \in DOMAIN script : script[n] = runs[k].pc
    IN  script[at + 1]

Prompt(pc) == pc \in {"approve", "sign"}

\* The disabled attribute of the button.
Pending_PromptOnly ==
    CASE panel = "trade"  -> phase # "idle" /\ seen # "success"
      [] panel = "swap"   -> writer # 0
      [] panel = "launch" -> writer # 0
Pending ==
    CASE panel = "trade"  -> (phase # "idle" /\ seen # "success") \/ seen = "loading"
      [] panel = "swap"   -> writer # 0 \/ seen = "loading"
      [] panel = "launch" -> writer # 0 \/ phase = "confirming"

\* What each function checks of the form before it does anything.
Valid == amount > 0

\* A click forgets the last transaction, and returns if the form is not valid.
Click(k) ==
    /\ ~Pending
    /\ k = clicks + 1 /\ clicks' = k
    /\ hash' = 0 /\ seen' = "none"
    /\ quote' = IF panel = "swap" THEN Nothing ELSE quote
    /\ overlap' = (overlap \/ \E j \in Clicks : Active(j))
    /\ \/ /\ ~Valid
          /\ bounced' = (bounced \/ (panel = "trade" /\ phase # "idle"))
          /\ UNCHANGED <<phase, writer, runs>>
       \/ /\ Valid
          /\ LET first == Head(Script(side))
             IN  /\ runs' = [runs EXCEPT ![k] = [pc |-> first, side |-> side, input |-> amount,
                                                 min |-> 0, low |-> rate]]
                 /\ writer' = IF Prompt(first) THEN k ELSE writer
          /\ phase' = IF panel = "trade" /\ side = "buy" THEN "buying" ELSE phase
          /\ UNCHANGED bounced
    /\ UNCHANGED <<panel, side, amount, asking, maxing, txs, chain, edits, moves, faults, gaveUp, maxed>>

\* The function goes on to another step, or ends, by return or in its catch;
\* the mistake of a prompt that stays open when it was answered.
Goto_PromptStays(k, pc) ==
    /\ runs' = [runs EXCEPT ![k].pc = pc]
    /\ writer' = IF Prompt(pc) THEN k ELSE writer
Goto(k, pc) ==
    /\ runs' = [runs EXCEPT ![k].pc = pc]
    /\ writer' = CASE Prompt(pc) -> k [] ~Prompt(pc) /\ writer = k -> 0 [] OTHER -> writer
Failed_KeepingPhase == phase
Failed == "idle"
Fails(k) == Goto(k, "done") /\ phase' = IF panel = "swap" THEN phase ELSE Failed

Reading(k, pc) ==
    /\ runs[k].pc = pc
    /\ UNCHANGED <<panel, side, amount, asking, maxing, hash, seen, txs, chain, bounds, past>>

Affords(k) ==
    CASE runs[k].side = "sell"                    -> tokens >= runs[k].input
      [] runs[k].side = "buy" /\ panel = "trade"  -> native >= runs[k].input
      [] runs[k].side = "buy" /\ panel = "swap"   -> native > runs[k].input
BalanceRead(k) ==
    /\ Reading(k, "balance") /\ UNCHANGED quote
    /\ \/ ~Affords(k) /\ Fails(k)
       \/ /\ Affords(k) /\ Goto(k, Following(k))
          /\ phase' = IF panel = "trade" /\ runs[k].side = "sell" THEN "approving" ELSE phase

Minimum_OfDisplay(k) ==
    LET output == IF quote = Nothing THEN runs[k].input * rate ELSE quote.output
    IN  output - output \div Tolerance
Minimum(k) == LET output == runs[k].input * rate IN output - output \div Tolerance
QuoteRead(k) ==
    /\ runs[k].pc = "quote"
    /\ LET next == Following(k)
       IN  /\ runs' = [runs EXCEPT ![k].pc = next, ![k].min = Minimum(k)]
           /\ writer' = IF Prompt(next) THEN k ELSE writer
    /\ quote' = IF panel = "swap"
                THEN [key |-> <<runs[k].side, runs[k].input>>, output |-> runs[k].input * rate,
                      by |-> "swap"]
                ELSE quote
    /\ UNCHANGED <<panel, side, amount, asking, maxing, phase, hash, seen, txs, chain, bounds, past>>

Allowed_Unread(k) == TRUE
Allowed(k) == allowance >= runs[k].input
AllowanceRead(k) ==
    /\ Reading(k, "allowance") /\ UNCHANGED quote
    /\ \/ ~Allowed(k) /\ Goto(k, "approve") /\ UNCHANGED phase
       \/ Allowed(k) /\ Goto(k, Following(k)) /\ phase' = IF panel = "trade" THEN "selling" ELSE phase

\* Why the chain would refuse a transaction, if it would.
Refusal(tx) ==
    CASE tx.kind = "buy"  /\ native < tx.input            -> "balance"
      [] tx.kind = "sell" /\ tokens < tx.input            -> "balance"
      [] tx.kind = "sell" /\ allowance < tx.input         -> "allowance"
      [] tx.kind \in {"buy", "sell"} /\ tx.input * rate < tx.min -> "price"
      [] OTHER                                            -> "success"
Final(k) ==
    [run |-> k, kind |-> IF panel = "launch" THEN "launch" ELSE runs[k].side,
     input |-> runs[k].input, min |-> runs[k].min, low |-> runs[k].low, status |-> "pending"]
\* TradePanel approves without limit, DexSwapPanel what it sells.
Approval(k) ==
    [run |-> k, kind |-> "approve", input |-> IF panel = "trade" THEN Endless ELSE runs[k].input,
     min |-> 0, low |-> 0, status |-> "pending"]

\* simulateContract
Simulated(k) ==
    /\ Reading(k, "simulate") /\ UNCHANGED quote
    /\ \/ Refusal(Final(k)) = "success" /\ Goto(k, Following(k)) /\ UNCHANGED phase
       \/ Refusal(Final(k)) # "success" /\ Fails(k)

\* The user signs.
Confirm(k) ==
    /\ \/ /\ runs[k].pc = "approve"
          /\ txs' = Append(txs, Approval(k))
          /\ Goto(k, "approval")
          /\ UNCHANGED <<phase, hash, seen>>
       \/ /\ runs[k].pc = "sign"
          /\ txs' = Append(txs, Final(k))
          /\ Goto(k, Following(k))
          /\ hash' = Len(txs')
          /\ \/ panel = "launch" /\ phase' = "confirming" /\ UNCHANGED seen
             \/ panel # "launch" /\ seen' = "loading" /\ UNCHANGED phase
    /\ UNCHANGED <<panel, form, chain, bounds, past>>
Reject(k) ==
    /\ Prompt(runs[k].pc)
    /\ Fails(k)
    /\ UNCHANGED <<panel, form, hash, seen, txs, chain, bounds, past>>

\* A read fails.
RpcFails(k) ==
    /\ runs[k].pc \in {"balance", "quote", "allowance", "simulate"}
    /\ Fault
    /\ Fails(k)
    /\ UNCHANGED <<panel, form, hash, seen, txs, chain, clicks, edits, moves, past>>

\* waitForTransactionReceipt on the approval.  DexSwapPanel goes on to sell;
\* TradePanel stops, to be clicked again, and when it has no good receipt
\* reads the allowance a few times before it gives up.
Of(k, kind) == CHOOSE n \in DOMAIN txs : txs[n].run = k /\ txs[n].kind = kind
ApprovalEnds(k) ==
    /\ runs[k].pc = "approval"
    /\ LET status == txs[Of(k, "approve")].status
       IN  \/ /\ status = "success" \/ (panel = "trade" /\ status # "pending" /\ Allowed(k))
              /\ \/ panel = "trade" /\ Goto(k, "done") /\ phase' = "idle"
                 \/ panel = "swap" /\ Goto(k, "simulate") /\ UNCHANGED phase
              /\ UNCHANGED <<faults, gaveUp>>
           \/ /\ status \notin {"pending", "success"}
              /\ panel = "trade" => ~Allowed(k)
              /\ Fails(k)
              /\ UNCHANGED <<faults, gaveUp>>
           \/ \* no answer in time
              /\ Fault /\ gaveUp' = gaveUp \cup {Of(k, "approve")}
              /\ IF panel = "trade" /\ Allowed(k)
                 THEN Goto(k, "done") /\ phase' = "idle"
                 ELSE Fails(k)
    /\ UNCHANGED <<panel, form, hash, seen, txs, chain, clicks, edits, moves,
                   overlap, bounced, maxed>>

\* waitForTransactionReceipt in LaunchPage, 120 seconds at most.
LaunchEnds(k) ==
    /\ runs[k].pc = "wait"
    /\ LET status == txs[Of(k, "launch")].status
       IN  \/ status = "success" /\ Goto(k, "poll") /\ UNCHANGED <<phase, faults, gaveUp>>
           \/ status \notin {"pending", "success"} /\ Fails(k) /\ UNCHANGED <<faults, gaveUp>>
           \/ status = "pending" /\ Fault /\ Fails(k) /\ gaveUp' = gaveUp \cup {Of(k, "launch")}
    /\ UNCHANGED <<panel, form, hash, seen, txs, chain, clicks, edits, moves, overlap, bounced, maxed>>
\* The token is in the API, or twenty attempts have not found it.
PollEnds(k) ==
    /\ runs[k].pc = "poll"
    /\ Goto(k, "done") /\ phase' = "idle"
    /\ UNCHANGED <<panel, form, hash, seen, txs, chain, bounds, past>>

---------------------------------------------------------------------------
\* useWaitForTransactionReceipt: a transaction that reverted is an error.

SeeReceipt ==
    /\ seen = "loading" /\ txs[hash].status # "pending"
    /\ seen' = IF txs[hash].status = "success" THEN "success" ELSE "error"
    /\ UNCHANGED <<panel, form, phase, writer, hash, runs, txs, chain, bounds, past>>
LoseReceipt ==
    /\ seen = "loading" /\ Fault
    /\ seen' = "error" /\ gaveUp' = gaveUp \cup {hash}
    /\ UNCHANGED <<panel, form, phase, writer, hash, runs, txs, chain, clicks, edits, moves,
                   overlap, bounced, maxed>>

---------------------------------------------------------------------------
\* The chain takes the wallet's transactions in order.  Any of them may run
\* out of gas.

Outstanding == {n \in DOMAIN txs : txs[n].status = "pending"}
Mine ==
    \E n \in Outstanding :
        /\ \A m \in Outstanding : n <= m
        /\ \E outOfGas \in BOOLEAN :
            LET tx     == txs[n]
                status == IF outOfGas THEN "gas" ELSE Refusal(tx)
            IN  /\ \/ outOfGas /\ Fault
                   \/ ~outOfGas /\ UNCHANGED faults
                /\ txs' = [txs EXCEPT ![n].status = status]
                /\ IF status = "success"
                   THEN /\ native' = IF tx.kind = "buy" THEN native - tx.input ELSE native
                        /\ tokens' = IF tx.kind = "sell" THEN tokens - tx.input ELSE tokens
                        /\ allowance' = CASE tx.kind = "approve" -> tx.input
                                          [] tx.kind = "sell" /\ allowance # Endless ->
                                                allowance - tx.input
                                          [] OTHER -> allowance
                   ELSE UNCHANGED <<native, tokens, allowance>>
    /\ UNCHANGED <<panel, form, button, runs, rate, clicks, edits, moves, past>>

\* Somebody else trades.
MovePrice(r) ==
    /\ panel # "launch" /\ r # rate
    /\ moves < MaxMoves /\ moves' = moves + 1
    /\ rate' = r
    /\ runs' = [k \in Clicks |-> IF Active(k) /\ r < runs[k].low
                                 THEN [runs[k] EXCEPT !.low = r] ELSE runs[k]]
    /\ UNCHANGED <<panel, form, button, txs, native, tokens, allowance, clicks, edits, faults, past>>

---------------------------------------------------------------------------
Answered(k) ==
    \/ BalanceRead(k) \/ QuoteRead(k) \/ AllowanceRead(k) \/ Simulated(k)
    \/ ApprovalEnds(k) \/ LaunchEnds(k) \/ PollEnds(k)

Next ==
    \/ \E s \in {"buy", "sell"}, a \in Amounts \cup {0} : Edit(s, a)
    \/ \E key \in asking : QuoteArrives(key) \/ QuoteFails(key)
    \/ SetMaximum \/ MaximumRead
    \/ \E k \in Clicks : Click(k) \/ Answered(k) \/ Confirm(k) \/ Reject(k) \/ RpcFails(k)
    \/ SeeReceipt \/ LoseReceipt
    \/ Mine
    \/ \E r \in Rates : MovePrice(r)

\* Reads are answered and transactions mined.  Nobody has to click or to sign.
Fairness ==
    /\ WF_vars(Mine) /\ WF_vars(SeeReceipt)
    /\ \A k \in Clicks : WF_vars(Answered(k))

Spec == Init /\ [][Next]_vars /\ Fairness

---------------------------------------------------------------------------
\* Properties.

TypeOK ==
    /\ phase \in {"idle", "buying", "approving", "selling", "confirming"}
    /\ seen \in {"none", "loading", "success", "error"}
    /\ seen # "none" => hash \in DOMAIN txs
    /\ native \in Nat /\ tokens \in Nat /\ allowance \in Nat
    /\ writer # 0 => Prompt(runs[writer].pc)
    /\ Cardinality(asking) <= 1

\* Nobody is offered the button again while what it sent may still happen: a
\* click never comes between a transaction and its end, unless the page lost
\* track of it: its receipt could not be read, or two functions ran at once.
ClickWaits ==
    [][clicks' # clicks =>
        \A n \in Outstanding : txs[n].kind # "approve" => n \in gaveUp \/ overlap]_vars

\* A transaction sent after the panel has looked at balance and allowance does
\* not fail for want of either, unless two functions ran at once or the page
\* lost track of one: DexSwapPanel approves what it sells, so that an approval
\* nobody waits for any more may lower the allowance of a later sale.  In
\* TradePanel the allowance does not run out even then.
ChecksHold ==
    \A n \in DOMAIN txs :
        /\ txs[n].status \in {"balance", "allowance"} => overlap \/ gaveUp # {}
        /\ txs[n].status = "allowance" => panel = "swap"

\* The least the user accepts is a tolerance below a price the market had after
\* the click: a quote that was on display before a move is never used.
MinimumIsFresh ==
    \A n \in DOMAIN txs :
        LET output == txs[n].input * txs[n].low
        IN  txs[n].kind \in {"buy", "sell"} => txs[n].min >= output - output \div Tolerance

\* The quote on display is the one of the form: an answer that comes after the
\* form has changed is dropped.  MAX changes the amount under a quote that came
\* meanwhile, and swap() shows the quote of the amount it was called with.
QuoteIsOfForm ==
    quote # Nothing /\ quote.key # Key => maxed \/ quote.by = "swap"

\* The button comes back, whatever fails, unless a prompt is left open.
\* TradePanel has two states it does not leave: phase outlives a success, so
\* that the next click on an invalid amount returns with the button disabled;
\* and a last transaction that reverted, or whose receipt was lost, keeps it so.
Stuck == panel = "trade" /\ phase # "idle" /\ (seen = "error" \/ bounced)
ComesBack == <>[](Pending => Stuck \/ \E k \in Clicks : Prompt(runs[k].pc))
=============================================================================
