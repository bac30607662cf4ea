# Verification of PumpNow

PumpNow is a token launchpad. Contracts sell a new token along a bonding curve
and, when the sale target is reached, move the proceeds and the unsold tokens
to a DEX in one transaction. An indexer copies the contracts' logs to a
database, an API serves it through a Redis cache and a browser client trades
against the contracts and reads the API.

This directory holds TLA+ models of that code, the TLC configurations that
check them and TLAPS proofs. `PROJECT.json` maps every definition to the source
lines it models and lists components, runs, hazards and findings.

    tlc -config MCPumpPair.cfg MCPumpPair.tla        # one run
    tlapm PumpPairProofs.tla                         # one module's proofs

## 1. Inventory

| Component | State | Operations | Talks to | What makes it correct |
|---|---|---|---|---|
| `PumpPair` | tokens sold, native reserve, two virtual reserves, status, position, pause | buy, buyExactNative, sell, setPaused, quotes | token, treasury, adapter | books equal custody, graduation atomic and final, rounding never favours the trader by more than a division |
| `MemeToken` | balances, allowances | transfer, approve, transferFrom, mintInitial | called by the pair, adapters, wallets | fixed supply, minted once |
| `Treasury` | native balance, collectors | collectFee, withdraw, setCollector | pair, factory | only registered collectors pay in |
| `PumpFactory` | tokens, template, pause | createToken, setPairPaused, setters | pair, token, treasury | every pair starts with its whole supply, registered exactly once |
| `PumpDexAdapter`, `ArcUniswapV3Adapter` | pool or position per token | addLiquidity | pool, position manager | only the factory's pairs, once; nothing left behind |
| `PumpDexPool`, `PumpDexFactory` | reserves, shares, pool registry | addLiquidity, two swaps, createPool | token | product never falls, reserves equal custody, one pool per token |
| Indexer runner | lease belief, range bounds, checkpoint row | run, syncOnce, shutdown | chain, Redis, processor, database | logs once, in order; the checkpoint never ahead of them; progress |
| Chain reader | last good RPC endpoint | latestBlock, blockHash, logs | RPC | one ordered list of known events |
| Event processor | tokens, pools, holders, trades, candles, statistics, event ledger | one handler per event | database, Redis | the tables mirror the chain; replay changes nothing |
| Redis clients | lease key, cache versions, channel | set-if-absent, refresh, release, incr, publish | indexer, API | one holder at a time, except for expiry |
| API services | versioned cache entries | list, read, search | database, Redis | a cached answer belongs to its version |
| Realtime (SSE) | connected clients | fan-out, sync.required | Redis, browser | a client that missed an event refreshes |
| Web panels | form, quote, approval, transaction | quote, approve, submit, confirm | contracts, API | never submits a stale or unapproved trade |
| Schema, scripts, Docker | | migrations, deployment | | configuration |

Interactions: the contracts call each other inside one transaction; indexer
processes share a lease, a checkpoint and an event table, and read a chain that
grows and may reorganise between any two of their calls; the indexer reaches the
API through the database, three version counters and a lossy channel; the
browser reads contracts and API separately and combines them.

Hard behaviour: rounding over long sequences of trades; a transaction that
graduates; leases that expire under their holder; replay after a crash between
commit and checkpoint; reorganisations between two reads; failures after a
commit; fire-and-forget messages; a quote that is stale when it is signed. The
full list, at its lines, is under `hazards` in `PROJECT.json`.

## 2. Modules

| Module | What it is |
|---|---|
| `BondingCurve` | the arithmetic of the quote functions of `PumpPair.sol`, as operators |
| `PumpPair` | state machine of one pair with its token, treasury balance and adapter |
| `TokenSale` | what a pair promises, without a curve: an escrowed sale |
| `MCPumpPair` | values for TLC |
| `BondingCurveProofs`, `PumpPairProofs` | proofs about the curve's arithmetic and the pair |
| `IndexerRunner` | state machine of all runner processes of one chain, the chain, the lease and the database rows they write |
| `IndexedLedger` | what a reader of the database may rely on: one writer appending logs |
| `MCIndexerRunner` | values for TLC |
| `IndexerRunnerProofs` | proofs about any number of runners |
| `EventProcessor`, `MCEventProcessor` | what the processor's handlers do to the tables, for histories of the contracts' logs |
| `EventProcessorProofs` | proofs about what the processor leaves in the tables |
| `PumpDex`, `PumpDexProofs` | the arithmetic of `PumpDexPool.sol`, as operators, and proofs about it |
| `Launchpad`, `MCLaunchpad` | all contracts together: factory, pairs, adapters, pools and those who own and trade them (uses `BondingCurve` and `PumpDex`) |
| `LaunchpadProofs` | proofs about all contracts together |
| `ApiFeed`, `MCApiFeed` | from a commit of the indexer to an open page: versions, cache, requests, channel, SSE, refetching |
| `ApiFeedProofs` | proofs about what a browser is shown |
| `WalletPanels`, `MCWalletPanels` | the three places of the web application that send transactions |
| `WalletPanelsProofs` | proofs about what the panels promise |

How they fit: `IndexerRunner` shows that the logs reach `process()` in order and
once; `EventProcessor` takes that over (its cursor moves along the logs, and back
after a restart) and shows what comes of them; its commits are the `Commit` of
`ApiFeed`. `PumpPair` has one pair in detail, `Launchpad` many pairs among the
other contracts, and `EventProcessor` the logs those contracts emit.

### PumpPair

A transaction is atomic, so each external function is one action and a revert
is the action being disabled. `Buy`, `BuyExactNative` and `Sell` evaluate the
quote in the current state, apply every guard in the code's order of effect and
move tokens, fee and refund between accounts; a buy that reaches the target
includes `Graduate`, so the adapter's refusal reverts the buy. Checked
arithmetic is natural-number arithmetic with the guard that a subtraction does
not underflow; 256-bit overflow is out of reach of the amounts involved (the
largest product is of two supplies). `Approve`, `Transfer` (also to the pair)
and `Withdraw` are the calls others make in between. `donated` is a history
variable: it counts plain transfers to the pair, which no code forbids.
`adapterUp` says whether the adapter would accept; it changes at any time.
The token's `approve` of the adapter inside `_graduate` and the adapter's
`transferFrom` cancel out and are one `Move`. Native that arrives without a
call (a forced transfer) is not modelled: the pair has no receive function.

### IndexerRunner

Every `await` of `run()` and `syncOnce()` is a value of `pc`, named for the call
the runner is about to make:

    acquire -> refresh -> head -> state -> verify -> range -> log <-> process
                                                     ^         |
                                                     |         v
                                               refreshEnd <- save

`delay` is the poll interval, `finish` the outer `finally`, `done` a loop that
has ended in a live process, `down` a dead process. `hasLease` is what the
runner believes, `lock` what Redis holds. `mode`, `stopped`, `safeHead`, `from`,
`to` are the fields and locals of the same names, `todo` the logs still to hand
over, `view` the block hashes when they were fetched, `held` the last hash
read. `hash[b]` is the fork block `b` is on. A log's database key is its
transaction and index; a log read from another fork counts as another log.
`logs()` is one read of the chain; its pages and its five event queries are not
told apart, which matters only if a reorganisation reaches below the safe head.
`CallFails` is a call that still fails after `retry`, and `ProcessLog` may fail
after its commit, when the caches are invalidated or the event is published.
The key of a dead process becomes `Orphan`: the next process has a new token.

### EventProcessor

The variables fall in two parts. `curve`, `balance`, `moved`, `logs` are the
chain: launches, trades on the curve and in the pool, graduations inside the buy
that completes a sale, transfers (which leave no log that is asked for) and
events of strangers with the same signatures. A call (`Emit`) has a transaction
of its own or joins that of the call before, since another contract may make
several; calls of one transaction follow one another, so that one call nested
in another, whose logs would be interleaved, is not modelled. A stranger's event
(`ForeignLog`) names a token of its own or one of PumpNow's, or cannot be decoded
(`Garbled`). The code decodes a whole range before it processes any of it; the
model stops at the log itself. `cursor` and `db` are the indexer.
Each handler is an operator from database to database, named after its method;
`Record` is what `trade` and `dexTrade` share. `Outcome` is how `process()` ends:
the order of its cases is that of the code, where the key of the log is inserted
first, the handler may throw next, and a unique index may refuse an insert last.
`Restart` puts the cursor back anywhere, as a runner does that stopped before its
checkpoint. `moved` is a history variable: wallets whose tokens came or went
without a log, by a transfer or a swap to another recipient. `Overlooked` are
the tokens that lose to a unique index because another token was launched, or
graduated, in the same transaction. A transaction's
number is its time and its block; `OpenTime` groups them into candles. Prices of
trades are chosen freely, because the processor does not know the curve.

### Launchpad

One action per external function, as in `PumpPair`. A buy of all that remains
graduates through the adapter the pair was created with: `ToDex` is
`PumpDexAdapter.addLiquidity` with the creation of the pool and its
`addLiquidity`, `ToArc` the other adapter's, with its position manager external:
`Invertible` says whether the initial price has a reciprocal that fits, `Mints`
at which prices the manager mints which amounts in full, and `InitializeV3Pool`
is anybody who creates or trades its pool first. `ArcAccepts` has every way in
which that graduation reverts. Tokens may be sent to any address, the adapters
included (`Recipients`).
`dexAdapter` and `target` are the factory's settings for the next pair. Whoever
deploys may wire the contracts in any order, late or wrongly (`SetPoolCreator`
to another contract, which then creates pools that anybody may seed).
`pool[t].seed` is history. `Wealth` bounds each user's native; it is finite so
that the state space is.

### ApiFeed

The database is the number of commits about each token. `indexer.pc` goes
`invalidate`, `publish` after each commit; `handler[h].pc` goes through a request:
`version`, `lookup`, `query`, `fill`, `respond`. A cached answer may expire at any
moment: a lookup may always miss. `fetch` is the request the page waits for,
`stale` that it has to make one. `Restarts` is `invalidateQueries` as TanStack
Query version 5 has it: it abandons a request under way, but not the first one
of a query. `floor` records what had been announced when the request came in;
`unversioned` and `unheard` record that an announcement about what the page
shows was lost where nobody notices (findings 7 and 8): only the next
invalidation about the same data makes up for it. The three version counters are raised
together and are one.

### WalletPanels

A click starts a run `runs[k]`, a copy of side and amount that goes through its
script; each value of `pc` is an await: reads, the wallet's prompt (`approve`,
`sign`), the receipt of an approval or of a launch. The user signs or rejects a
prompt, edits the form, presses MAX; the price moves; the chain executes the
wallet's transactions in order, and may refuse them. `hash` and `seen` are the
hook that follows the last transaction. `phase` is TradePanel's phase and
LaunchPage's `confirming`. The history variables: `gaveUp` has the transactions
whose receipt the page stopped waiting for, `overlap` says that two functions ran
at once, `bounced` that a click returned early with the phase still set, `maxed`
that MAX set the amount. An approval is among what the page may stop waiting for:
mined late, it lowers the allowance under a sale that was checked before. `runs[k].low` is the lowest rate since the click.

## 3. Runs

| Run | Result | Bounds and why they suffice |
|---|---|---|
| `pair` | all hold, 404 672 states | Two traders (interchangeable), four tokens, three on sale, virtual reserves 7 and 5, fee 5/10, payments 0, 3, 4, 9, allowances 0, 2 and infinite. Chosen so that a buy can be partial, capped, refunded or graduating, so that the cap of `quoteSell` binds, and so that fees are zero for some trades and not for others. The real fee of 1% of 10000 needs amounts TLC cannot enumerate; the proofs cover it. |
| `pair_quote` | `QuoteCapsInput` violated | 20 tokens, fee 1/10: the smallest instance tried where the capped price and fee round to one wei above the payment. |
| `pair_unwind` | `UnwindWithinOneWei` violated | One trader, seven tokens, six of them on sale, fee 1/10, virtual reserves 8 and 3; seven transactions. |
| `indexer` | all hold, 812 919 states | Two runners, one of which may start as a backfill and may find Redis away; three logs in two blocks, three blocks, one confirmation, range of one block, one reorganisation of the last block, two faults (each a crash, shutdown, lost lease or failed call). Two faults are enough to lose a lease and fail or crash the holder that replaced it. |
| `indexer_checkpoint` | `CheckpointMonotone` violated | Two runners, an empty block between two logs, a range of two blocks, one lost lease. |
| `indexer_reorg` | `ReorgShows` violated | One runner, no confirmations as in the shipped `.env` files, one reorganisation, no fault. |
| `indexer_reacquire` | `LostLeaseReacquired` violated | One runner, a lost lease and one failed Redis call. |

| `events` | all hold, 934 112 states | Two wallets, two tokens of four units that graduate with the second sold, amounts and prices 1 and 2, candles of two and three transactions, histories of four calls, one of which may join the transaction before, one stranger's event of any kind, one restart anywhere. Four calls are a launch, two trades and one more: enough for a wallet to come and go, a graduation with a trade after it, a wallet trading in two tokens, and two launches or two graduations in one transaction. |
| `launchpad` | all hold, 2 054 896 states | Two interchangeable tokens of six units, one user with nine native, targets of two and four, swaps of four native, fees of one quarter, a USDC scale of two: dust, fees and roundings all show; both adapters, wired or not; the V3 pool at its initial price or at another, and amounts the position manager does not mint in full. |
| `cache` | all hold, 2 254 150 states | One page (token list, portfolio or a token's trades), two requests at a time, a visitor, two commits, one failure of any kind. Two commits give the three versions a late fill, a current one and the first. |
| `feed_recovery` | `CurrentAfterRecovery` violated | A token's page, one trade, one broken connection. |
| `panels` | all hold, about 2 million states | Each of the three panels, two clicks, one change of the form, one move of the price, one failure: a second click, on a changed form, with the first function anywhere. |

What the properties say:

* `Solvent`: the pair's real balance is the recorded reserve to the wei and the
  virtual reserves are the initial ones moved by exactly what was sold and held.
* `Inventory`: unsold tokens are in the pair, plus what was sent to it.
* `GraduationAtomic`, `ClosedForever`: no half graduation; nothing afterwards.
* `RoundingBounded`, `RoundTripRestores`: what a division may cost the curve; a
  buy and a sell of the same amount cancel out.
* `SaleSpec`: refinement of `TokenSale`, with the real balance as the escrow.
* `AppliedInOrder`, `CheckpointCovered`: logs once, in chain order, confirmed
  only; a restart from the checkpoint skips nothing.
* `CheckpointSettles`: once chain and faults stop, the checkpoint reaches the
  safe head and stays there.
* `LedgerSpec`: refinement of `IndexedLedger`. It allows the checkpoint to move
  back, because it does.

* `OncePerLog`, `DuplicateIsIndexed`: replays are invisible, and what the runner
  has passed is in `indexed_events`, but for the launch or the graduation of an
  overlooked token (finding 10).
* `CountsMatchRows`, `CandlesMatchTrades`, `CirculationIsHeld`,
  `TradersStartOnACurve`: what is kept by increments is what the rows say.
  `TradersStartOnACurve` says what is counted, and it is less than the column's
  name promises: a wallet whose first trade is on the DEX is never counted.
* `MirrorsChain`, `RefusesOnlyMoved`, `CatchesUp`: the tables tell the truth about
  every market that was not overlooked and every wallet whose tokens moved by
  trades only. What can stop the indexer is named: of PumpNow's own logs those of
  an overlooked token and those of a wallet whose tokens moved without a log
  (finding 17), of strangers' logs those that name a token of PumpNow's and those
  that cannot be decoded (finding 18). The order in which the contracts emit their
  events never stops it, and a history without such logs is indexed to its end.
* `Custody`, `LiquidityLocked`, `ProductNeverFalls`: who holds what. Of native
  each contract has exactly what it records; of tokens at least that, because
  anybody may send some to any address.
* `WiredPairsGraduate`: with `PumpDexAdapter` and its pool factory wired, the sale
  of a pair of that adapter can always be completed. Of `ArcUniswapV3Adapter` it
  says nothing, and cannot: its graduation reverts when the pool was initialised
  at another price first, or when the position manager would not mint everything
  (`docs/security-review.md:32-33` and `:63` call that path blocked and unverified).
* `TermsAreFixed`: no step changes the adapter or the target of an open pair, and
  it closes exactly when that target is sold.
* `FreshUnderVersion`, `AnswersCoverAnnounced`: a late fill never hides a commit.
* `CurrentWhenQuiet`, `ListsCatchUp`: an open page ends up with the database.
* `ClickWaits`, `ComesBack`: the button is away while a transaction is under way,
  and back afterwards, but for two states of TradePanel the property names.
* `ChecksHold`, `MinimumIsFresh`, `QuoteIsOfForm`: what is signed was checked, at a
  price of after the click.

Deadlock is checked in every run where the system goes on for ever. It is not in
`indexer_reacquire`, where the loop of the only runner really ends; in `events`,
where a history ends or a refused log stops the indexer for good; in the two runs
of `ApiFeed` and in `panels`, where all is quiet once the bounded commits, visits,
clicks and failures are used up.

### Fairness

`Spec` has none. `FairSpec` adds weak fairness of each runner's own steps (an
event loop keeps turning and calls return or fail), of the expiry of a lease
nobody renews (Redis drops the key after its TTL), of the exit of a process that
ran its shutdown hooks, and of its restart (`restart: unless-stopped` in
`docker-compose.yml`). Nothing is assumed about the chain, reorganisations,
failures or which runner gets the lease. Faults are bounded by `MaxFaults`, so
"once the failures stop" is part of every behaviour.

`EventProcessor` has weak fairness of `Process`: the runner retries a log until it
succeeds. `ApiFeed` has it for the steps of processes that are running: raising
versions, publishing, serving requests, reconnecting (`EventSource` does by
itself), delivering and refetching; not for commits, visits and failures.
`WalletPanels` has it for the chain and for the answers of the RPC node; nobody
has to sign or to click. `Launchpad` has none: nobody has to trade.

## 4. Proofs

Proved for every value of the constants, from the named assumptions of the
modules, which TLC evaluates on every run. They say what the code or its
deployment guarantees: fees are fractions and reserves positive
(`FeeAssumption`, `CurveAssumption`, `DexFeeAssumption`), accounts, addresses and
panels are different things (`AccountsAssumption`, `AddressAssumption`), inputs
are natural numbers (`InputAssumption`, `LaunchAssumption`, `RunnerAssumption`,
`FeedAssumption`, `PanelAssumption`). `PROJECT.json` lists the theorems with the
properties they state.

* `BondingCurveProofs`: bounds of each quote from two facts about integer
  division, that a quotient is the greatest and a rounded-up one the least of its
  kind. The same two facts give how quotes compare: `BuyThenSellIsNeutral`,
  `LargerOrdersQuoteMore`, `SplitBuysCostMore` (the cost of the whole is the least
  that keeps the product, and the two parts keep it too) and `ExactQuoteBounds`.
  The last needs that the fee included in a payment and the fee on its curve part
  differ by one wei at most, and bounds what the `pair_quote` run shows.
* `PumpPairProofs`: the inductive invariant is `TypeOK /\ Solvent /\ Inventory /\
  GraduationAtomic`. None of the parts is inductive alone: a sell leaves the
  balance non-negative only because the books agree, and a buy is delivered only
  because the inventory covers what is left. Every step is one of three kinds
  (`StepKinds`): tokens bought, tokens sold, curve untouched. From it follow the
  four invariants, `GraduationIsFinal`, `Rounding`, `RoundTrip` and `Refinement`,
  and `QuotedWithinOneWei`, which says of all payments in all reachable states by
  how much `QuoteCapsInput` is missed at most.
* `IndexerRunnerProofs`: under `ShallowReorgs` (no reorganisation deeper than the
  confirmations) `IInv` adds `WorkerInv` to the properties: what a runner knows
  at each step. Its heart is that everything before `from` is applied, that
  every log of the range is applied or still in `todo`, and that the hashes seen
  when the logs were fetched are still canonical up to `to`. All of it survives
  the steps of others (`StillKnown`), because ledgers only grow and confirmed
  blocks are never replaced. The lease is not used: exactly-once and order come
  from the unique key and from handing over a complete prefix in order. From it
  follow `ExactlyOnceInOrder`, `RestartSkipsNothing`, `TypeCorrect` and
  `Refinement`.
* `PumpDexProofs`: bounds of a swap, `LargerSwapsPayMore`, and `SqrtIsRoot`: the iteration of `_sqrt`
  stays above the root until it stops and stops at the root. Both inductions
  (`IterateEnds`, `RootExists`) are by least counterexample (`LeastNat`), since
  the induction theorems of the library take an operator the provers cannot
  instantiate. The value 2 is excepted, as in finding 13.
* `LaunchpadProofs`: `IInv` says of each token what its pair and its pool have on
  record, what they really hold, and how far its life has come (`TokenInv`). The
  stages and the custody need each other: a pool is seeded once, so that it
  cannot hold anything before, and a graduation is accepted because the pair
  really has what its books say. From it follow `TypeCorrect`, `CustodyHolds`,
  `LiquidityIsLocked`, `ProductHolds`, `TermsHold` and `WiredPairsComplete`.
  Nothing is assumed of the position manager: `Mints` is any relation.
* `ApiFeedProofs`: an answer is compared with the database at the last
  announcement, so the invariant follows that database through everything that
  may carry an old one: cache entries, requests at each stage, messages that have
  not arrived. Its heart is the order of the code: the version is read before the
  database and raised after the commit. From it follow `TypeCorrect`,
  `CacheIsFresh`, `NoAnswerFromBefore` and `PageIsCurrent`. The theorems hold for any
  number of tokens, the run has one. With two, the proof attempt showed that
  `CurrentWhenQuiet` needs `unversioned` to be about the data of the page: an
  invalidation about another token does not make up for a lost one.
* `WalletPanelsProofs`: no panel has a lock. What a function has checked stays
  true because no other function runs (`OneRun`), because an outstanding
  transaction that the page knows of has the button disabled behind it (`Watched`),
  and because the funds that were read are then still there (`FundsInv`); each of
  the three needs the others. From it follow `ClicksWait`, `ChecksLast`,
  `MinimumFollowsTheMarket`, `QuotesAreOfTheForm` and `TypeCorrect`. The attempt
  found that `ChecksHold` is false when an approval nobody waits for any more is
  mined late, which takes three clicks and two failures, more than the run has:
  `gaveUp` now counts approvals too.

* `EventProcessorProofs`: a handler is a function from database to database, so
  most of the proof is about operators: what each handler leaves in each table,
  and what one log does to a database that mirrors the chain. There are three
  invariants, each part of the next.
  `History` is about the chain. The logs of a history are processed only when it
  is complete, so it must say of the logs what they will do: `Told` says that, in
  a pass of an empty database over them (`Pass`), each log is accounted for at its
  turn (`Accounted`: processed, refused for one of the reasons `RefusesOnlyMoved`
  names, or the duplicate of an overlooked token), and that a pass to the end
  leaves a mirror of the chain but for the overlooked tokens. Each call of a
  contract keeps it, because its logs fit what it does to the market (`Fits`), and
  because every row of a database has its log in the history (`Sound`): only a
  launch or a graduation that is not the first of its transaction can meet a
  rival in a unique index (`NoRival`).
  `BookInv` adds what the database says of itself. The keys of the logs ascend
  (`Lined`), and the keys recorded are those of a prefix, at a place no earlier
  than the cursor (`Reached`). A trade whose key is new is therefore later than
  every row, which is what the code relies on when it only increments a counter
  (`Books`), adjusts the last candle or looks for an earlier trade of the same
  wallet (`Annals`). Sums over rows need one lemma, about a set with one more
  element, by least counterexample.
  `ReplayInv` adds that the database is what one pass over that prefix left
  (`OnlyOnce`), and that `process()` has nothing more to do for any log of it
  (`Settled`): its key is there, or it has lost for good to the unique index of
  another log's row.
  From `BookInv` follow `TypeCorrect`, `CountersAreCounts`,
  `HoldersHoldCirculation`, `TradersAreCountedOnCurves` and `CandlesSummarise`,
  from `ReplayInv` `ReplaysAreInvisible`, `NothingIsSkipped`,
  `OnlyMovesAreRefused` and `DatabaseMirrorsChain`: all without a hypothesis, for
  any number of calls in a transaction and any events of strangers.
  `EventAssumption` (amounts and prices of a trade are positive, a curve sells
  less than the supply) and `RowAssumption` (a missing row is no row) are the
  assumptions.

The invariants of `Launchpad`, `ApiFeed` and `WalletPanels` were checked by TLC on
small instances before they were proved. `History` and `ReplayInv` of
`EventProcessorProofs` quantify over sequences of databases, which TLC cannot
enumerate; it checked `OncePerLog`, which names the only such sequence, and the
properties.

Every invariant, every action property and both refinements of the passing runs
are stated by a theorem. Only the theorems of `IndexerRunnerProofs` have a
hypothesis beyond the modules' assumptions, which the run's instance satisfies and
the code alone does not guarantee: `ShallowReorgs` (finding 4).

Only model-checked, and for good: `CheckpointSettles`, `CatchesUp`, `ListsCatchUp`,
`ComesBack` and everything else that needs fairness or ENABLED, which the provers
do not support. So are the runs that expect a violation: a counterexample is its
own proof.

## 5. Findings

1. `buyExactNative` can revert with a panic on a payment its quote accepts: the
   capped branch's price plus fee may be one wei more than the payment, and never
   more than one wei (`QuotedWithinOneWei`).
2. The comment in `quoteSell` bounds the rounding excess of a full unwind by one
   wei; several trades accumulate more. The cap makes it harmless.
3. The checkpoint can move backwards: a runner whose lease expired writes an
   older one. Nothing is lost or applied twice (`indexer`), but logs are read
   again and a monitor sees it regress.
4. With no confirmations a reorganisation during a range goes undetected.
5. A failed Redis call while asking for the lease ends the loop of a live
   process.
6. `sync.required` names no token, so that after a broken connection the queries
   of an open token page are not repeated.

Seen while modelling, without a run of their own:

7. A failure between commit and publication is never made up for: the replay is
   answered "duplicate" (`unversioned` and `unheard` of `ApiFeed` exclude it).
   The API's subscriber also resubscribes after an outage without telling anyone.
8. A message that arrives during the first load of a query is ignored by
   `invalidateQueries`; the page shows the old answer until the next message.
9. An absent version key reads as 1 and its first increment makes it 1: the first
   invalidation of a fresh Redis has no effect. `FreshUnderVersion` and
   `AnswersCoverAnnounced` therefore leave out version 1.
10. The unique indexes on `creationTxHash` and `graduationTxHash` let only one
   token per transaction be launched, and one be graduated. The launch or the
   graduation of any other is answered "duplicate" and never indexed; its next
   fee, or its first swap, then stops the indexer, because the token or its pool
   is not what the handler expects (`Overlooked`). No other log of PumpNow's is
   dropped (`NothingIsSkipped`).
11. `volume24h` is only ever incremented.
12. A swap's tokens are booked to its sender, not to its recipient; the position
   id of `ArcUniswapV3Adapter` is stored as if it were a pool's address.
13. `_sqrt(2)` is 2 (`LiquidityLocked` leaves the value out).
14. TradePanel: `phase` is not reset after a success or a reverted transaction.
   After a success a click with an invalid amount, and after a reverted or lost
   transaction nothing but a reload, leaves the button disabled (`Stuck`).
15. The sell and swap buttons are enabled for the moment between a click and the
   first visible step, so that two functions may run at once (`overlap`).
16. Search results are never refetched on a message.
17. Transfers are not indexed: a wallet that sells tokens it was sent has a
   negative balance in the tables, and the error stops the indexer for good
   (`moved`).
18. `logs()` asks for `Buy`, `Sell`, `Swap` and `Graduated` of every contract. A
   stranger's event that names a token of PumpNow's is refused as coming from
   the wrong contract, and one with the same signature and another layout cannot
   be decoded; either stops the indexer for good (`Intruders`).

## 6. Not modelled, and the plan

Next: calls nested in one another, which a contract may make while it is being
paid. The reentrancy guards allow that between different pairs and pools only,
but it interleaves their logs. Of splitting an order only
`SplitBuysCostMore` is stated, before fees: a fee is rounded down, so that two
small trades may pay less of it than one, and for sells and swaps there is no such
inequality with fees.

Left out for good:

* rendering, formatting, paging, logging; market capitalisation and ownership
  percentages, which are factors of modelled values;
* TradePanel's refetching after a success (it repeats queries a few times while
  the indexer catches up) and the label that says whether an approval is needed:
  they change what is displayed, not what can be signed;
* ticks, liquidity and arithmetic of the position manager's pools behind
  `ArcUniswapV3Adapter`, which are another project's: `Mints` and `v3Price` stand
  for them;
* ownership transfers, configuration, migrations and deployment scripts, health
  checks and the ABI files. `env.validation.ts:16` accepts a block range of zero, with
  which the runner would loop for ever; the model assumes a positive one.
