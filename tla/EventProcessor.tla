--------------------------- MODULE EventProcessor ---------------------------
(***************************************************************************)
(* What EventProcessorService does with the logs of a chain.  Handlers are *)
(* operators from the database to the database; process() runs one of them *)
(* in a transaction that also inserts the log's key, so that the outcome   *)
(* of a log is one of                                                      *)
(*   applied    the handler's writes and the key are committed,            *)
(*   ignored    the token is unknown: only the key is committed,           *)
(*   duplicate  a unique index refused an insert: nothing is committed,    *)
(*   refused    the handler or a foreign key threw: nothing is committed   *)
(*              and the runner starts the range again.                     *)
(*                                                                         *)
(* The chain is the environment: it writes `logs` in the order in which    *)
(* the contracts emit them.  Logs are confirmed before they are read, so   *)
(* the history is complete when the first of them is processed; every      *)
(* prefix of a history is itself a history.  A transaction's number also   *)
(* stands for its time.                                                    *)
(***************************************************************************)
EXTENDS Integers, Sequences, FiniteSets, SequencesExt, FiniteSetsExt

CONSTANTS
    Wallets, Tokens,
    Stranger,           \* a token of some other application on the chain
    StrangeEvents,      \* events of other contracts, and the tokens they name
    Supply, Target,     \* initialSupply and graduationTokenAmount
    Amounts, Prices,    \* token amounts, and native amounts, of one trade
    WAD,                \* scale of prices and percentages
    Intervals,          \* lengths of the candles
    MaxCalls, MaxJoined, MaxForeign, MaxRestarts,   \* bounds on the history and on replays
    NoRow

ASSUME EventAssumption ==
    /\ IsFiniteSet(Wallets) /\ Wallets # {} /\ IsFiniteSet(Tokens)
    /\ Supply \in Nat /\ Target \in 1 .. Supply - 1
    /\ Amounts \subseteq Nat \ {0} /\ Prices \subseteq Nat \ {0}
    /\ WAD \in Nat \ {0} /\ Intervals \subseteq Nat \ {0}
    /\ MaxCalls \in Nat /\ MaxJoined \in Nat
    /\ MaxForeign \in Nat /\ MaxRestarts \in Nat
    /\ Stranger \notin Tokens
    /\ StrangeEvents \subseteq
        {"TokenCreated", "FeeCollected", "Buy", "Sell", "SwapIn", "SwapOut", "Graduated", "Garbled"}
            \X (Tokens \cup {Stranger})

\* A market on the chain, and the rows of a token and of its pool.
Market   == [sold : Int, native : Nat, gift : Nat, pool : Nat \cup {NoRow}]
TokenRow == [status : {"BONDING", "GRADUATED"}, tx : Nat, supply : Nat, threshold : Nat \ {0},
             circulating : Int, progress : Int, price : Nat, volume : Nat, trades : Nat,
             holders : Int]
PoolRow  == [address : {"pair", "pool"} \X Tokens, status : {"PENDING", "ACTIVE"},
             tx : Nat \cup {NoRow}, tokens : Int, quote : Nat]
Stats    == [tokens : Nat, bonding : Int, graduated : Nat, trades : Nat, volume : Nat,
             fees : Nat, traders : Nat]

ASSUME RowAssumption == NoRow \notin Nat \cup Market \cup TokenRow \cup PoolRow

VARIABLES
    curve,              \* token -> its market on the chain
    balance,            \* token -> wallet -> balance on the chain
    moved,              \* token/wallet pairs whose balance changed without a log
    logs, txs,          \* the history and the number of its transactions
    calls, joined,      \* calls made, and those made in the transaction of the call before
    foreign,            \* logs of strangers
    cursor,             \* logs handed to the processor since it last started
    restarts,
    db

chain == <<curve, balance, moved, logs, txs, calls, joined, foreign>>
vars  == <<chain, cursor, restarts, db>>

EmptyDb ==
    [events  |-> {}, wallets |-> {}, trades |-> {}, fees |-> {},
     token   |-> [t \in Tokens |-> NoRow],
     pool    |-> [t \in Tokens |-> NoRow],
     holder  |-> [t \in Tokens |-> [w \in Wallets |-> 0]],
     candles |-> <<>>,
     stats   |-> [tokens |-> 0, bonding |-> 0, graduated |-> 0, trades |-> 0,
                  volume |-> 0, fees |-> 0, traders |-> 0]]

Init ==
    /\ curve = [t \in Tokens |-> NoRow]
    /\ balance = [t \in Tokens |-> [w \in Wallets |-> 0]]
    /\ moved = {} /\ logs = <<>> /\ txs = 0 /\ calls = 0 /\ joined = 0 /\ foreign = 0
    /\ cursor = 0 /\ restarts = 0
    /\ db = EmptyDb

---------------------------------------------------------------------------
\* The chain.

Factory   == <<"factory">>
Treasury  == <<"treasury">>
Elsewhere == <<"elsewhere">>
Pair(t)   == <<"pair", t>>
Pool(t)   == <<"pool", t>>
Total(f) == FoldFunction(+, 0, f)
FeeOf(amount) == amount \div 2

Log(event, source, t, w, amount, quote, tokens, native) ==
    [name |-> event, address |-> source, token |-> t, wallet |-> w, tx |-> 0, index |-> 0,
     amount |-> amount, quote |-> quote, tokenReserve |-> tokens, nativeReserve |-> native]

\* One call of a contract, in a transaction of its own or in that of the call
\* before it: another contract may make several.  Logs are numbered in the
\* order of the chain.  The history is complete before its processing begins:
\* nothing on the chain depends on the database.
Emit(emitted) ==
    /\ db = EmptyDb /\ cursor = 0 /\ restarts = 0
    /\ calls < MaxCalls /\ calls' = calls + 1
    /\ \/ txs' = txs + 1 /\ joined' = joined
       \/ txs > 0 /\ joined < MaxJoined /\ joined' = joined + 1 /\ txs' = txs
    /\ logs' = logs \o [i \in DOMAIN emitted |->
                            [emitted[i] EXCEPT !.tx = txs', !.index = Len(logs) + i]]
    /\ UNCHANGED <<cursor, restarts, db>>

Bonding(t)   == curve[t] # NoRow /\ curve[t].pool = NoRow
Graduated(t) == curve[t] # NoRow /\ curve[t].pool # NoRow

CreateToken(t, w) ==
    /\ curve[t] = NoRow
    /\ curve' = [curve EXCEPT ![t] = [sold |-> 0, native |-> 0, gift |-> 0, pool |-> NoRow]]
    /\ Emit(<<Log("TokenCreated", Factory, t, w, 0, 0, Supply, 0)>>)
    /\ UNCHANGED <<balance, moved, foreign>>

FeeLogs(t, w, fee) ==
    IF fee = 0 THEN <<>> ELSE <<Log("FeeCollected", Treasury, t, w, 0, fee, 0, 0)>>
GraduationLogs(t, w, after) ==
    IF after.pool = NoRow THEN <<>>
    ELSE <<Log("Graduated", Pair(t), t, w, 0, 0, after.pool, after.native)>>

\* The fee is collected, and the Buy logged, before the pair graduates; the
\* mistake of logging the Buy last.
BuyLogs_GraduatedFirst(t, w, n, cost, after) ==
    FeeLogs(t, w, FeeOf(cost)) \o GraduationLogs(t, w, after)
    \o <<Log("Buy", Pair(t), t, w, n, cost, 0, curve[t].native + cost)>>
BuyLogs(t, w, n, cost, after) ==
    FeeLogs(t, w, FeeOf(cost))
    \o <<Log("Buy", Pair(t), t, w, n, cost, 0, curve[t].native + cost)>>
    \o GraduationLogs(t, w, after)

\* `pool` is the pool's token reserve once the pair has graduated; `native`
\* is then the pool's native reserve.
Buy(t, w, n, cost) ==
    /\ Bonding(t) /\ curve[t].sold + n <= Target
    /\ LET sold  == curve[t].sold + n
           after == [curve[t] EXCEPT
                        !.sold = sold, !.native = @ + cost,
                        !.pool = IF sold = Target THEN Supply - Target + curve[t].gift ELSE @]
       IN  /\ curve' = [curve EXCEPT ![t] = after]
           /\ Emit(BuyLogs(t, w, n, cost, after))
    /\ balance' = [balance EXCEPT ![t][w] = @ + n]
    /\ UNCHANGED <<moved, foreign>>

Sell(t, w, n, gross) ==
    /\ Bonding(t) /\ n <= balance[t][w]
    /\ gross <= curve[t].native
    /\ curve' = [curve EXCEPT ![t].sold = @ - n, ![t].native = @ - gross]
    /\ balance' = [balance EXCEPT ![t][w] = @ - n]
    /\ Emit(FeeLogs(t, w, FeeOf(gross))
            \o <<Log("Sell", Pair(t), t, w, n, gross - FeeOf(gross), 0,
                     curve[t].native - gross)>>)
    /\ UNCHANGED <<moved, foreign>>

\* The pool's log names who called it and who received the output.
SwapForToken(t, w, to, n, paid) ==
    /\ Graduated(t) /\ n < curve[t].pool
    /\ curve' = [curve EXCEPT ![t].pool = @ - n, ![t].native = @ + paid]
    /\ balance' = [balance EXCEPT ![t][to] = @ + n]
    /\ moved' = IF to = w THEN moved ELSE moved \cup {<<t, w>>, <<t, to>>}
    /\ Emit(<<Log("SwapIn", Pool(t), t, w, n, paid, curve[t].pool - n, curve[t].native + paid)>>)
    /\ UNCHANGED foreign

SwapForNative(t, w, n, received) ==
    /\ Graduated(t) /\ n <= balance[t][w] /\ received < curve[t].native
    /\ curve' = [curve EXCEPT ![t].pool = @ + n, ![t].native = @ - received]
    /\ balance' = [balance EXCEPT ![t][w] = @ - n]
    /\ Emit(<<Log("SwapOut", Pool(t), t, w, n, received, curve[t].pool + n,
                  curve[t].native - received)>>)
    /\ UNCHANGED <<moved, foreign>>

\* Transfer events are not indexed.
Transfer(t, w, to, n) ==
    /\ w # to /\ n <= balance[t][w]
    /\ balance' = [balance EXCEPT ![t][w] = @ - n, ![t][to] = @ + n]
    /\ moved' = moved \cup {<<t, w>>, <<t, to>>}
    /\ Emit(<<>>)
    /\ UNCHANGED <<curve, foreign>>

\* Tokens sent to the pair leave with it when it graduates.
TransferToPair(t, w, n) ==
    /\ Bonding(t) /\ n <= balance[t][w]
    /\ balance' = [balance EXCEPT ![t][w] = @ - n]
    /\ curve' = [curve EXCEPT ![t].gift = @ + n]
    /\ moved' = moved \cup {<<t, w>>}
    /\ Emit(<<>>)
    /\ UNCHANGED foreign

\* Another contract emits an event with one of the signatures asked for, of a
\* token of its own or of one of PumpNow's.  A "Garbled" one has the signature
\* but not the layout of its arguments.
ForeignLog(event, t, w) ==
    /\ foreign < MaxForeign /\ foreign' = foreign + 1
    /\ Emit(<<Log(event, Elsewhere, t, w, 1, 1, 1, 1)>>)
    /\ UNCHANGED <<curve, balance, moved>>

---------------------------------------------------------------------------
\* The handlers.

Key(log) == <<log.tx, log.index>>
Known(d, log) == log.token \in Tokens /\ d.pool[log.token] # NoRow
Prior(a, b) == a.key[1] < b.key[1] \/ (a.key[1] = b.key[1] /\ a.key[2] < b.key[2])

\* logs(): launches and fees are asked of the factory and of the treasury only,
\* the other events of every contract.
Kept_AnyTreasury(log) == log.name = "TokenCreated" => log.address = Factory
Kept(log) ==
    /\ log.name = "TokenCreated" => log.address = Factory
    /\ log.name = "FeeCollected" => log.address = Treasury

IsBuy(log)   == log.name \in {"Buy", "SwapIn"}
IsSwap(log)  == log.name \in {"SwapIn", "SwapOut"}
IsTrade(log) == log.name \in {"Buy", "Sell"} \/ IsSwap(log)
Signed(log)  == IF IsBuy(log) THEN log.amount ELSE -log.amount
Price(log)   == (log.quote * WAD) \div log.amount
NextBalance(d, log) == d.holder[log.token][log.wallet] + Signed(log)

HolderDelta_NeverLeaves(previous, next) == IF previous = 0 /\ next > 0 THEN 1 ELSE 0
HolderDelta(previous, next) ==
    CASE previous = 0 /\ next > 0 -> 1
      [] previous > 0 /\ next = 0 -> -1
      [] OTHER -> 0

Progress(circulating, threshold) ==
    Min({100 * WAD, (circulating * 100 * WAD) \div threshold})

\* tokenCreated
TokenCreated(d, log) ==
    [d EXCEPT
        !.wallets = @ \cup {log.wallet},
        !.token[log.token] =
            [status |-> "BONDING", tx |-> log.tx, supply |-> log.tokenReserve,
             threshold |-> Target, circulating |-> 0, progress |-> 0, price |-> 0,
             volume |-> 0, trades |-> 0, holders |-> 0],
        !.pool[log.token] =
            [address |-> Pair(log.token), status |-> "PENDING", tx |-> NoRow,
             tokens |-> log.tokenReserve, quote |-> 0],
        !.stats.tokens = @ + 1,
        !.stats.bonding = @ + 1]

\* upsertCandles: one row for each length, opened by its first trade.
OpenTime(tx, interval) == (tx \div interval) * interval
Upserted_KeepingClose(row, price, volume) ==
    [row EXCEPT !.high = Max({@, price}), !.low = Min({@, price}),
                !.volume = @ + volume, !.count = @ + 1]
Upserted(row, price, volume) ==
    [row EXCEPT !.high = Max({@, price}), !.low = Min({@, price}), !.close = price,
                !.volume = @ + volume, !.count = @ + 1]
WithCandles(candles, log) ==
    LET price == Price(log)
        keys  == {<<interval, log.token, OpenTime(log.tx, interval)>> : interval \in Intervals}
        Upsert(k) ==
            IF k \notin DOMAIN candles
            THEN [open |-> price, high |-> price, low |-> price, close |-> price,
                  volume |-> log.quote, count |-> 1]
            ELSE Upserted(candles[k], price, log.quote)
    IN  [k \in DOMAIN candles \cup keys |-> IF k \in keys THEN Upsert(k) ELSE candles[k]]

Circulating_OnlyGrows(d, log) == d.token[log.token].circulating + log.amount
Circulating(d, log) == d.token[log.token].circulating + Signed(log)

\* What trade and dexTrade have in common.
Traded(d, log) ==
    [d.token[log.token] EXCEPT
        !.price = Price(log), !.volume = @ + log.quote, !.trades = @ + 1,
        !.holders = @ + HolderDelta(d.holder[log.token][log.wallet], NextBalance(d, log)),
        !.circulating = Circulating(d, log)]
Record(d, log) ==
    [d EXCEPT
        !.wallets = @ \cup {log.wallet},
        !.holder[log.token][log.wallet] = NextBalance(d, log),
        !.trades = @ \cup
            {[key |-> Key(log), token |-> log.token, wallet |-> log.wallet, buy |-> IsBuy(log),
              amount |-> log.amount, quote |-> log.quote, price |-> Price(log),
              swap |-> IsSwap(log)]},
        !.candles = WithCandles(@, log),
        !.token[log.token] = Traded(d, log),
        !.stats.trades = @ + 1,
        !.stats.volume = @ + log.quote]

\* trade: the token reserve follows by difference, the native one by report.
PriorTrades_OfTheToken(d, log) ==
    {x \in d.trades : x.wallet = log.wallet /\ x.token = log.token /\ x.key # Key(log)}
PriorTrades(d, log) == {x \in d.trades : x.wallet = log.wallet /\ x.key # Key(log)}
WithReserves(row, tokens, quote) == [row EXCEPT !.tokens = tokens, !.quote = quote]
CurveTrade(d, log) ==
    LET r == Record(d, log)
    IN  [r EXCEPT
            !.token[log.token].progress = Progress(r.token[log.token].circulating,
                                                    r.token[log.token].threshold),
            !.pool[log.token] = WithReserves(@, @.tokens - Signed(log), log.nativeReserve),
            !.stats.traders = IF PriorTrades(r, log) = {} THEN @ + 1 ELSE @]

\* dexTrade
DexTrade(d, log) ==
    [Record(d, log) EXCEPT
        !.pool[log.token] = WithReserves(@, log.tokenReserve, log.nativeReserve)]

\* feeCollected
FeeCollected(d, log) ==
    [d EXCEPT
        !.wallets = @ \cup {log.wallet},
        !.fees = @ \cup {[key |-> Key(log), token |-> log.token, amount |-> log.quote]},
        !.stats.fees = @ + log.quote]

\* graduated
Graduation_KeepingReserves(d, log) ==
    [d EXCEPT
        !.token[log.token].status = "GRADUATED",
        !.token[log.token].progress = 100 * WAD,
        !.pool[log.token].address = Pool(log.token),
        !.pool[log.token].status = "ACTIVE",
        !.pool[log.token].tx = log.tx,
        !.stats.bonding = @ - 1,
        !.stats.graduated = @ + 1]
Graduation(d, log) ==
    [d EXCEPT
        !.token[log.token].status = "GRADUATED",
        !.token[log.token].progress = 100 * WAD,
        !.pool[log.token] = [address |-> Pool(log.token), status |-> "ACTIVE", tx |-> log.tx,
                              tokens |-> log.tokenReserve, quote |-> log.nativeReserve],
        !.stats.bonding = @ - 1,
        !.stats.graduated = @ + 1]

\* A log of an unknown token is ignored.
Handle(d, log) ==
    CASE log.name = "TokenCreated"    -> TokenCreated(d, log)
      [] log.name = "FeeCollected"    -> FeeCollected(d, log)
      [] log.name \in {"Buy", "Sell"} -> IF Known(d, log) THEN CurveTrade(d, log) ELSE d
      [] IsSwap(log)                  -> IF Known(d, log) THEN DexTrade(d, log) ELSE d
      [] log.name = "Graduated"       -> IF Known(d, log) THEN Graduation(d, log) ELSE d

\* A unique index refuses an insert: the key of the log, the token, or the
\* transaction that created another token or graduated another pool.
Conflict_PerTransaction(d, log) == \E k \in d.events : k[1] = log.tx
Conflict(d, log) ==
    \/ Key(log) \in d.events
    \/ /\ log.name = "TokenCreated"
       /\ \E t \in Tokens : d.token[t] # NoRow /\ (t = log.token \/ d.token[t].tx = log.tx)
    \/ /\ log.name = "Graduated" /\ Known(d, log)
       /\ \E t \in Tokens \ {log.token} : d.pool[t] # NoRow /\ d.pool[t].tx = log.tx

\* decode() throws, and with it the range is not processed; or the handler
\* does: the log is from another contract than the one on record, the wallet
\* sells more than it is known to hold, or the fee's token has no row.
WrongSource(d, log) ==
    /\ log.name \in {"Buy", "Sell", "SwapIn", "SwapOut", "Graduated"}
    /\ Known(d, log) /\ d.pool[log.token].address # log.address
Refused_UnlessOverdrawn(d, log) ==
    \/ log.name = "Garbled" \/ WrongSource(d, log)
    \/ log.name = "FeeCollected" /\ ~Known(d, log)
Refused(d, log) ==
    \/ log.name = "Garbled" \/ WrongSource(d, log)
    \/ IsTrade(log) /\ Known(d, log) /\ NextBalance(d, log) < 0
    \/ log.name = "FeeCollected" /\ ~Known(d, log)

Outcome(d, log) ==
    IF Key(log) \in d.events THEN "duplicate"
    ELSE IF Refused(d, log) THEN "refused"
    ELSE IF Conflict(d, log) THEN "duplicate" ELSE "processed"

\* process()
Apply_WithoutKey(d, log) == IF Outcome(d, log) = "processed" THEN Handle(d, log) ELSE d
Apply(d, log) ==
    IF Outcome(d, log) = "processed"
    THEN [Handle(d, log) EXCEPT !.events = @ \cup {Key(log)}]
    ELSE d

Process ==
    /\ cursor < Len(logs)
    /\ LET log == logs[cursor + 1]
       IN  \/ ~Kept(log) /\ db' = db
           \/ Kept(log) /\ Outcome(db, log) # "refused" /\ db' = Apply(db, log)
    /\ cursor' = cursor + 1
    /\ UNCHANGED <<chain, restarts>>

\* The runner stopped before its checkpoint and starts from an earlier log.
Restart ==
    /\ restarts < MaxRestarts
    /\ restarts' = restarts + 1
    /\ cursor' \in 0 .. cursor - 1
    /\ UNCHANGED <<chain, db>>

\* Who creates a token, or is named by a stranger's log, makes no difference.
Somebody == CHOOSE w \in Wallets : TRUE

Next ==
    \/ \E t \in Tokens : CreateToken(t, Somebody)
    \/ \E w \in Wallets, t \in Tokens, n \in Amounts :
        \/ \E q \in Prices :
            \/ Buy(t, w, n, q)
            \/ Sell(t, w, n, q)
            \/ \E to \in Wallets : SwapForToken(t, w, to, n, q)
            \/ SwapForNative(t, w, n, q)
        \/ \E to \in Wallets : Transfer(t, w, to, n)
        \/ TransferToPair(t, w, n)
    \/ \E e \in StrangeEvents : ForeignLog(e[1], e[2], Somebody)
    \/ Process
    \/ Restart

\* The runner goes on with the next log as long as it is not refused.
Spec == Init /\ [][Next]_vars /\ WF_vars(Process)
---------------------------------------------------------------------------
\* The audit of scripts/stress-audit.mjs, as queries on the database.

TradesIn(d, interval, t, open) ==
    {x \in d.trades : x.token = t /\ OpenTime(x.key[1], interval) = open}
RowsOf(t, d) == {x \in d.trades : x.token = t}
SumOver(rows, value(_)) == Total([x \in rows |-> value(x)])
QuoteOf(x) == x.quote
AmountOf(x) == x.amount

DuplicateTrades(d) ==
    {x \in d.trades : \E y \in d.trades : x # y /\ x.key = y.key}

CandleMismatches(d) ==
    {k \in DOMAIN d.candles \cup {<<i, x.token, OpenTime(x.key[1], i)>> :
                                  i \in Intervals, x \in d.trades} :
        \/ k \notin DOMAIN d.candles
        \/ d.candles[k].count # Cardinality(TradesIn(d, k[1], k[2], k[3]))}

CounterMismatches(d) ==
    {t \in Tokens : d.token[t] # NoRow
        /\ \/ d.token[t].trades # Cardinality(RowsOf(t, d))
           \/ d.token[t].holders # Cardinality({w \in Wallets : d.holder[t][w] > 0})}

---------------------------------------------------------------------------
\* Properties.

\* The rows have the shape the schema gives them.
TypeOK ==
    /\ curve \in [Tokens -> Market \cup {NoRow}]
    /\ balance \in [Tokens -> [Wallets -> Nat]]
    /\ cursor \in 0 .. Len(logs) /\ restarts \in 0 .. MaxRestarts
    /\ db.token \in [Tokens -> TokenRow \cup {NoRow}]
    /\ db.pool \in [Tokens -> PoolRow \cup {NoRow}]
    /\ \A t \in Tokens : db.token[t] = NoRow <=> db.pool[t] = NoRow
    /\ db.holder \in [Tokens -> [Wallets -> Nat]] /\ db.stats \in Stats
    /\ \A x \in db.trades : x.key \in db.events /\ x.wallet \in db.wallets
    /\ \A x \in db.fees : x.key \in db.events

\* Replays are invisible: whatever the runner hands in again, the database is
\* what one pass over a prefix of the logs makes of it, and the keys in it are
\* those of that prefix (the key inserted by process() in the transaction).
OncePerLog ==
    \E n \in cursor .. Len(logs) :
        db = FoldLeft(LAMBDA d, log : IF Kept(log) THEN Apply(d, log) ELSE d,
                      EmptyDb, SubSeq(logs, 1, n))

\* creationTxHash and graduationTxHash are unique: of the tokens launched, or of
\* those graduated, in one transaction the indexes may refuse all but the first.
\* The others are overlooked, and nothing that comes later makes up for it.
Genuine(log) == log.address # Elsewhere
Overlooked ==
    {logs[i].token : i \in {j \in DOMAIN logs :
        /\ logs[j].name \in {"TokenCreated", "Graduated"} /\ Genuine(logs[j])
        /\ \E k \in 1 .. j - 1 : /\ logs[k].name = logs[j].name /\ Genuine(logs[k])
                               /\ logs[k].tx = logs[j].tx}}

\* A log of one of PumpNow's contracts that the runner has gone past has its row
\* in indexed_events, unless it is the launch or the graduation of an overlooked
\* token: process() answers "duplicate" to any unique index that refuses an
\* insert, but to no other log that is not one.
DuplicateIsIndexed ==
    \A i \in 1 .. cursor :
        Kept(logs[i]) /\ Key(logs[i]) \notin db.events =>
            logs[i].name \in {"TokenCreated", "Graduated"} /\ logs[i].token \in Overlooked

\* The counters kept by increments are the counts of the rows they summarise,
\* for each token and for the platform (scripts/stress-audit.mjs).
CountsMatchRows ==
    /\ DuplicateTrades(db) = {} /\ CounterMismatches(db) = {}
    /\ LET created == {t \in Tokens : db.token[t] # NoRow}
           left    == {t \in created : db.token[t].status = "GRADUATED"}
       IN  /\ db.stats.tokens = Cardinality(created)
           /\ db.stats.graduated = Cardinality(left)
           /\ db.stats.bonding = Cardinality(created \ left)
           /\ \A t \in created : db.token[t].volume = SumOver(RowsOf(t, db), QuoteOf)
    /\ db.stats.trades = Cardinality(db.trades)
    /\ db.stats.volume = SumOver(db.trades, QuoteOf)
    /\ db.stats.fees = SumOver(db.fees, AmountOf)

\* A candle is the summary of the trades of its token and its interval: opened
\* by the first of them, closed by the last, between the extremes, with their
\* number and their volume; and every trade is in one candle of each length
\* (upsertCandles).
CandlesMatchTrades ==
    /\ CandleMismatches(db) = {}
    /\ \A k \in DOMAIN db.candles :
        LET rows   == TradesIn(db, k[1], k[2], k[3])
            prices == {x.price : x \in rows}
            row    == db.candles[k]
        IN  /\ \E x \in rows : row.open = x.price /\ \A y \in rows : x = y \/ Prior(x, y)
            /\ \E x \in rows : row.close = x.price /\ \A y \in rows : x = y \/ Prior(y, x)
            /\ row.high = Max(prices) /\ row.low = Min(prices)
            /\ row.volume = SumOver(rows, QuoteOf)

\* Two ways of counting agree: what trade computes from the row it read and
\* what dexTrade adds by increment leave circulatingSupply the sum of the
\* holders' balances, and the progress follows it until graduation.
CirculationIsHeld ==
    \A t \in Tokens : db.token[t] # NoRow =>
        /\ db.token[t].circulating = Total(db.holder[t])
        /\ db.token[t].progress =
            IF db.token[t].status = "GRADUATED" THEN 100 * WAD
            ELSE Progress(db.token[t].circulating, Target)

\* uniqueTraders counts each wallet once, at its first trade, and only when
\* that trade was on a curve: dexTrade never counts one.
TradersStartOnACurve ==
    db.stats.traders =
        Cardinality({w \in Wallets : \E x \in db.trades :
            x.wallet = w /\ ~x.swap
            /\ \A y \in db.trades : y.wallet = w => x = y \/ Prior(x, y)})

\* Once every log is processed the database tells the truth about the chain:
\* status, reserves and address of each market that was not overlooked, and the
\* balance of each wallet whose tokens only moved by trades.
MirrorsChain ==
    (cursor = Len(logs)) =>
        \A t \in Tokens \ Overlooked :
            /\ curve[t] = NoRow <=> db.token[t] = NoRow
            /\ curve[t] # NoRow =>
                /\ db.pool[t].quote = curve[t].native
                /\ db.pool[t].tokens = IF Graduated(t) THEN curve[t].pool
                                       ELSE Supply - curve[t].sold
                /\ db.pool[t].address = IF Graduated(t) THEN Pool(t) ELSE Pair(t)
                /\ db.token[t].status = "GRADUATED" <=> Graduated(t)
                /\ \A w \in Wallets : <<t, w>> \in moved \/ db.holder[t][w] = balance[t][w]

\* The runner is stopped by a log of PumpNow's only when the token was overlooked
\* or the wallet in it owns tokens that reached it, or left it, without a log:
\* the order in which the contracts emit their events never makes the processor
\* refuse one.  A stranger's log stops it when it names a token of PumpNow's or
\* cannot be decoded.
Refuses(log) == Kept(log) /\ Outcome(db, log) = "refused"
RefusesOnlyMoved ==
    \A i \in {cursor + 1} \cap DOMAIN logs : Refuses(logs[i]) =>
        IF Genuine(logs[i])
        THEN logs[i].token \in Overlooked \/ <<logs[i].token, logs[i].wallet>> \in moved
        ELSE logs[i].name = "Garbled" \/ logs[i].token \in Tokens

\* A history is indexed to its end, restarts or not, in which no tokens moved
\* without a log, none was overlooked, and no stranger wrote a trade or a
\* graduation of one, or what cannot be decoded.  A stranger's launches and
\* fees, which name whatever they like, never stop the runner.
Intruders ==
    {i \in DOMAIN logs :
        /\ ~Genuine(logs[i]) /\ logs[i].name \notin {"TokenCreated", "FeeCollected"}
        /\ logs[i].name = "Garbled" \/ logs[i].token \in Tokens}
CatchesUp ==
    [](moved = {} /\ Overlooked = {} /\ Intruders = {}) => <>[](cursor = Len(logs))
=============================================================================
