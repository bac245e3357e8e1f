# Verification of sol-trade-sdk-nodejs

TLA+ models of the SDK's trade paths, checked with TLC and, where it says so, proved with
TLAPS. Paths below are relative to the repository's `src/`; `index.ts` means `src/index.ts`.

The SDK signs Solana transactions and hands them to SWQoS providers ("relays") and RPC nodes. It
is a single-threaded TypeScript library: an *action* of a model is the code that runs between two
`await`s, and concurrency is the interleaving of promises, timers, callbacks and the outside world
(transports, RPC nodes, the gRPC feed, the chain, the caller), none of which the SDK controls. Two
questions run through everything: **what may a caller conclude from the answer it gets?** A caller
who is told "failed" trades again, and money moves twice if it was wrong. And **what does the wallet
lose when what was quoted is not what happens?**

## 1. Inventory

| Part | State | Operations | Hard behaviour | What makes it correct | Status |
|---|---|---|---|---|---|
| `trading/core/async-executor.ts`, `common/deadline.ts` | per execution: status, first receipt, abort controllers, lanes, attempts | execute (Single, Parallel, Fallback, Redundant), cancel, cancelAll | lanes end in any order, late, or never; deadline vs. abort vs. acknowledgement; retry after acknowledgement | receipts kept and paired with their provider, no resubmission, silent once answered, always answered, lanes released | modelled |
| `index.ts` | per trade: fee lanes, signatures | executeTransaction: filter routes by tip, expand, submit, collect, confirm; buy, sell | several transactions per trade; first-success vs. wait-for-all; confirmation error after acknowledgement | a trade lands once through relays, answers agree with acknowledgements, no wait outlives the submission | partly |
| `common/confirm-any-signature.ts` | poll count | poll, fetch a landed transaction, time out | one of several fails, another lands later | success only with a confirmed signature | modelled |
| `common/gas-fee-strategy.ts` | strategy table | set, setGlobal, setHighLow, delete, update, clear | rows that exclude each other | a route has one row or the pair, so one or two lanes | modelled |
| `trading/core/transaction-pool.ts` | queue, processing, completed; status, attempts, age | submit, cancel, start, stop, clearCompleted, timer tick, provider passes | retry vs. cancel vs. expiry; bounds with retries; order by changing priorities | in one place at a time, one pass at a time, bounds, ends once and for good, Critical first | partly |
| `trading/subscription_cache.ts`, `subscription_readiness.ts` | account versions, conflict flag; generation, fork, required and validated sets | update batches, snapshots; interrupt, beginRecovery, requireAccounts, markValidated, guard | updates repeated, reordered, of another fork; validations that come late; a gate that closes and opens again | versions only grow, conflicts stop all trades, an open gate is a validated one, guarded snapshots do not outlive a gap | partly |
| `trading/cached_trade.ts` | none of its own | prepare, execute | a snapshot that stops being usable before the submission | no submission from an unusable snapshot | partly |
| `trading/core/confirmation-monitor.ts` | monitored signatures, waiters, timers, result cache | monitor, cancel, stop, poll | overlapping polls, late answers, stale timers of the same signature, waiters after a stop | every waiter is settled, statuses do not go back | modelled |
| `trading/core/retry-handler.ts` | attempt counters, breaker state, failure window | execute, executeWithTimeout, breaker calls | an attempt that goes on after its timeout; results of calls begun in an earlier breaker state | nothing runs while the circuit must rest; a call is told what its last attempt came to; timed calls are answered | modelled |
| `trading/executor.ts` | clients; tail of the rate limiter | execute, addClient, removeClient, wait | chained waits; a round after an unconfirmed signature | nobody is asked after a signature, answers are what happened | modelled |
| `hotpath/state.ts`, `hotpath/executor.ts` | prefetched blockhash and states, generation, contexts | start, stop, prefetch, update, execute | answers that arrive after a stop or a restart | only recent data served, blockhashes never go back, always answered | modelled |
| `swqos/clients.ts`, `providers.ts` | kept QUIC connection; provider array | sendTransaction(s), submitBundle, submitWithFallback, submitToAll, add, remove, reorder | lost answers, clients that stand in, a connection shared by concurrent sends, a list that changes while it is walked | success only for what was taken or refused unread, every provider asked, connections neither used nor destroyed by another | partly |
| `calc/*`, `common/bonding_curve.ts` | none | quotes in both directions | integer rounding, overflow checks, virtual reserves | no gain from rounding, no overdraft, both directions agree | partly |
| `trading/route_candidates.ts`, `cached_*`, `pump_route.ts`, `pumpswap_*`, `native_sol.ts`, `pumpfun_settlement.ts` | prepared trades | enumerate, quote, prepare, settle, sign | fixed inputs of later legs; temporary wrapped accounts; prepared trades signed later | goes through, pays the minimum, best route, no stale signature | partly |
| `instruction/*`, `common/wsol-manager.ts`, `trading-utils.ts` | none | build buys and sells | sizing, limits, account creations and closes around the swap | spends within the allowance, misses no account | partly |
| `common/subscription-handle.ts` | handles per key | subscribe, unsubscribe, close | concurrent subscriptions of a key | nothing is delivered after it was closed | not modelled |
| `pool`, `cache`, `rpc`, `address-lookup` | connections, workers, TTL and LRU entries | acquire, release, get, set, call | limits, expiry, concurrent misses | bounds kept, nothing stale returned | not modelled |
| `perf/*` | ring buffers, batches, pools; tuning tables | push, pop, flush | wrap around, full and empty | FIFO, nothing lost | not modelled |
| `middleware`, `execution`, `compute` | chain of middlewares; instruction bytes | process | order, one step failing | instructions pass each middleware once | not modelled |
| `security`, `common/nonce.ts` | key material | use, clear | use after clear | no use after clear | not modelled |
| `params`, `serialization`, `seed`, `utils` | none | encode, derive | none (data) | fixtures of the repository | not modelled |

Interaction: `TradingClient.buy` and `sell` build instructions (`InstructionBuilders`, at prices of
`ConstantProduct`), then `executeTransaction` expands them into fee lanes by the rows of
`GasFeeStrategy` (`TradeSubmission`), hands them to clients made by `ClientFactory`
(`SwqosClients`) and waits through `confirm-any-signature`. The cached path quotes and prepares over
an `AccountCacheSnapshot` (`RouteQuotes`, `CachedRoutes`) of the `SubscriptionAccountCache`,
guarded by `SubscriptionReadiness`, which the application drives from its gRPC stream
(`AccountCache`), and submits through one kept client (`Swqos`). `AsyncTradeExecutor`,
`TransactionPool`, `TradeExecutor`, `HotPathExecutor` and `SwqosManager` are further ways to the same
providers, each with its own retries and answers. `RetryHandler`, the circuit breaker and the rate
limiter are exported for the application to put around any of them.

`PROJECT.json` lists each component's status, the code each definition stands for, and every hazard
at its line.

## 2. Modules

### `ReceiptContract`: the promise to the caller

The abstract specification. `acked` is the set of acknowledgements received, `answer` what the
caller was told. `Succeed` names an acknowledged transaction; `Fail` names one too if there is
any, and comes without a signature only if nothing was acknowledged. So a caller told "failed"
without a signature may trade again, and one that holds a signature must look at the chain.

### `AsyncExecutor`: `AsyncTradeExecutor.execute`

One execution of one signed transaction. `cfg` is the `ExecutionConfig`, chosen once; `lane[p]` is
the `executeWithProvider` call of provider `p` (idle, sending, polling, done) and `laneRes[p]` what
it resolved to; `signature`, `receipt`, `status`, `completed` and `aborted` are the fields of
`ExecutionState`. `pc` is the place of `executeInternal`.

| Code | Action |
|---|---|
| `execute` up to its first await, no client included | `Start` |
| `cancel`, `cancelAll` | `Cancel` |
| `executeWithProvider`: resolve, reject, deadline, abort | `SendAcked`, `SendRejected`, `SendDeadline`, `LaneAbort` |
| `waitForConfirmation` | `PollConfirmed`, `PollError`, `PollExpired` |
| `executeSingle`/`executeWithRetry`, `executeFallback` | `SeqCollect`, `SleepDone`, `SleepAborted` |
| `executeParallel`, `executeRedundant` | `ParallelCollect`, `RedundantCollect` |
| `executeWithTimeout`: the three ways the race ends | `Return`, `Timeout`, `AbortReturn` |
| the chain | `ChainAdvance` (external) |

All providers send the same bytes; `SigOf` lets some return equal and some different signatures,
because the code compares them. `acks` and `sends` are history. `Timeout` is disabled
while a settled promise is still to be resumed (`Settling`): microtasks run before timers.

`KeepsReceipts` is the refinement: `Contract!Spec` with `acked` the signatures of `acks` and
`answer` the result. `AnswerIsHonest` has three parts: a confirmed success is on the chain
(`SuccessIsConfirmed`), a failure left no lane that did the job (`FailureIsHonest`), and the listener
heard what the caller heard (`LastReportAgrees`). `NothingAfterAnswer` is `SilentOnceAnswered` with
`NoResubmission`.

### `GasFeeStrategy` and `TradeSubmission`: what a trade pays, and `executeTransaction`

`strategies` is the table: a tip by route type, direction and kind of row. `WithRows` is `set`: a
Normal row drives out the low/high pair and either of the pair drives out the Normal one. Each
operation of the class is an action; the program edits the table until it trades (`EditGas`), and
`executeTransaction` reads it.

A *task* `<<i, kind>>` is one fee lane of route `i`, a transaction and signature of its own, paid by
that kind of row or by the request's flat tip. `Tipped`, `Effective`, `Expand`, `WithinLimit` and
`Tasks` are the filters in the code's order (`filterSwqosConfigsForWithTip`,
`filterSwqosConfigsByMinTip`, `expandSwqosGasTasks`, the `minTipSol` filter); `Refuse` has the code's
refusals in the order they are decided, `NeedsNonce` is rule 104, `Simulate` the trade that is only
simulated. `Submit`, `LaneAcked`, `LaneRejected`, `LaneDeadline` are `submitTask`,
`Collect` is `Promise.all` or `collectUntilFirstSuccess` with the abort of the remaining waits, and
the `Poll...` and `Fetch...` actions are `confirmAnyTransactionSignature`. The chain lands
what was handed to a transport whatever the SDK thinks of it; with a durable nonce only the first.

### `TransactionPool`: `TransactionPool`

`queue`, `processing` and `completed` are the class's collections; `at[t]` is the provider a pass
of `submitTransaction` waits for, `age[t]` is time since `queuedAt` (0, past the boost delay, past
`maxQueueTimeMs`). `ProcessQueue` is one tick of the timer: `removeExpired`, then the loop of
`processQueue` up to the first await of each pass it starts. `Score` and `Sorted` are
`PriorityCalculator` and `sortQueue`, sorting only where the code does. The status `Processing` is
left out: it becomes `Submitted` before the first await. `NothingLost` contains the bounds
(`PoolBounded`), one pass at a time (`OnePassAtATime`) and that each transaction is where its status
says.

### `AccountCache`: cache, gate and cached trade

`accounts` and `conflicted` are `SubscriptionAccountCache`; an account's slot and write version are
one ordered number (`SlotOf` gives the slot), its bytes the fork they come from. `UpdateMany` takes a
whole batch, with the comparison against what the batch has staged (`Staged`), as the code does.
`state`, `generation`, `forkId`, `required`, `validated` are `SubscriptionReadiness`. The
application's validation is split in two (`StartValidation` reads `status()`, `MarkValidated` ends
it) so that it can come late. `TakeSnapshot` is the three snapshot methods, with keys or without: a plain
snapshot of everything looks at nothing (`MayFreeze`) and freezes even after a conflict, or with an
account missing; it only fails when it is used (`Usable`). `Execute` is the code of
`CachedTradeExecutor.execute` from its first check to the call of the transport, which has no await.
`gap` and `validFor` are history. `BatchesAreSafe` is `VersionsNeverGoBack` with `ConflictStops`: after
a conflict no account changes, no guarded snapshot is taken and no trade is submitted.

### `ConfirmationMonitor`: `ConfirmationMonitor`

An entry is one `MonitoredSignature` object with the callers who wait for it; a signature can have one
after the other. `monitored` is the `monitored` map, `cache` the result cache, `timer` the entries
whose `setupTimeout` has not fired, `polls` the `pollSignature` calls under way, which the next poll
does not wait for. `outcome` is what the waiting callers were given.

| Code | Action |
|---|---|
| `monitor` that makes an entry, `cancel`, `start`, `stop` | `Monitor`, `Cancel`, `Start`, `Stop` |
| `getCachedResult`, `clearExpiredCache` | `CacheExpires` |
| `pollAll` asks about a signature | `Poll` |
| the answer: ends the monitoring, reports, rejects | `PollCompletes`, `PollReports`, `PollErrs` |
| `setupTimeout`'s callback | `Timeout` |
| `updateStatus`, `completeMonitoring` | `Report`, `Complete` |

A node answers with any view of the chain up to now (`Views`), so answers are late, doubled or of a
lagging node. A call that is answered from the cache, or joins the callers of an entry that is there,
changes no state of the model; it is given what the entry's or cache's owner asked for, whatever its
own target was.

### `RetryHandler`: retries, circuit breaker, rate limiter

Calls take their turn with `wait()` of the limiter (`queue`, `sinceSubmit`, `limiterLeft`), then run a
function of the program through `execute` or, those in `Timed`, `executeWithTimeout`. `fns[c][k]` is
the run of attempt `k`: it goes on when `Timeout` gave the attempt up, and `Answer` drops what it then
says. `circuit` is the breaker all calls share, with the ages of the failures in its window;
`Operate` is the program forcing it open, closed or reading its state. `Begin` is
`CircuitBreaker.execute`, `calculateDelay` every strategy. `Tick` is time: it makes every age older
and every timer shorter, a timer may fire late, and the limiter's a tick early, which is why the code
looks again. `sinceOpen` is history. `HonestResult` compares what a call is told with the runs of its function
(`Told`): a run that answers after its timeout (`Heard` drops it) must not become the call's result. That
calls are spaced is the loop's own condition in `wait()`, so no property repeats it.

### `HotPath` and `Executors`: the prefetching cache, and two executors

A question to the RPC node has two moments, in between which it may be stopped and started again:
`Read` is the node reading the chain, `BlockhashArrives` and `AccountArrives` the answer. `generation`
is the code's counter; `Shared` the promise that concurrent blockhash refreshes share; `Start`,
`Refresh`, `Stop`, `PrefetchAccount`, `UpdateState`, `CreateContext`, `AddToContext` the operations.
Every datum carries the age of the chain it was `read` from and the age the code knows (`fetched`). The
program gives `UpdateState` any time, up to `clockAhead` before the clock: such a state has a negative
age and `isFreshSince` does not serve it.

`Executors` composes it with `HotPathExecutor.execute`, which checks that cache, and with
`TradeExecutor.execute`. A `job` is one execution, `lane[j][c]` the current request to a client.
`Raced` is the answer of parallel lanes, `GoesOn` and `Following` the sequential loop over clients
and rounds. Clients are added and removed while jobs run; a job keeps the clients it began with.

### `SwqosClients` and `Swqos`: the providers

`SwqosClients` has one definition per client class: a record of how it sends (`via`), whether 1232
bytes are the most it takes (`limit`), how it reads an answer (`reply`), what it makes of a batch
and whether a key of the wrong form is only found when it sends. `createClient` is the factory
with the client that stands in when a transport fails, `senderOf` the manager's, `Exchange` all that
one request can come to: taken and answered, taken and the answer lost, refused, or `unread`: refused in
words that the client does not look for (`LooksFor`). The nine classes of `providers.ts` that do not look
for an error, Bloxroute that looks for a reason, and the clients that take an answer without `error` for
a success are each what they are.

`Swqos` runs calls: `direct` and `cached` on a client that is kept, `failover`, `all` and `bundle` on the
manager, whose loops skip what is not enabled. A bundle is its first transaction, except for Jito's
class, which posts all of it (`PostsBundles`). `quic` is the kept connection with its shared promise (`Connect`, `Connected`,
`NotConnected`, `Write`, `Destroyed`, with the retry on a new one); `arrays` the fallback orders a walk
may hold, which `addClient` and `removeClient` change in place and `setFallbackOrder` replaces.

### `ConstantProduct`: amounts

The quotes of every constant-product venue with the code's own integers, order of operations and
roundings: a quote is a set, empty where the code throws. A trader trades against one pool at the
amounts it was quoted; the program on the chain moves exactly those. Virtual quote reserves, three
fees, the completion of a Pump v3 curve and the guards against overflow (`MaxAmount`, `MaxWide`)
are there. `MarketsAssumption` says what a market is at first: funded, with fees that leave something,
a curve that owns what it is backed by.

### `SwapWalks`, `RouteQuotes`, `CachedRoutes`: routes over cached pools

`SwapWalks` is a swap through concentrated liquidity as a walk through *intervals*, each with the room
it has, what it pays and its fee: the control of the CLMM, Whirlpool and DLMM loops without the square
roots. The loops over ticks, bins, tiers and instructions are recursive functions of the number of
rounds, as the proofs need. A pool is what its decoder lets through (`Decoded`): funded, with a fee
that leaves something, as most venues throw otherwise; what Pump's and LaunchLab's quote at a fee of
everything is left out. `RouteQuotes` enumerates candidate paths in the code's order and budget, quotes and prepares
each leg, hands amounts from leg to leg (`NextSpend`: the minimum, not the estimate), applies the
impact limits, and searches PumpSwap routes with conversions. `CachedRoutes` holds a prepared trade
while slots pass, the epoch changes or the cache loses continuity, settles SOL endpoints with a
temporary account, signs, and lands the transaction on a chain (external) whose swaps pay anything
between minimum and estimate, against a wallet that holds exactly what the trade said it needs.

### `InstructionBuilders`: what a transaction does to a wallet

A caller asks `buy` or `sell` for any pool, version, sizing, slippage and account policy; the checks
of `index.ts` and the builder answer with a plan or throw. A plan is a sequence of creations, wraps,
swaps with limits, claims and closes. `validateSlippage` refuses 100% and more, and each venue rounds its
minimum its own way: AMM v4 and PumpSwap down (`minAmountOut`, `minimumPumpSwapOutput`), the others up
(`Less`). The chain (external, `Run`) runs all of it or nothing on a
wallet with or without the accounts. The number a pool quotes is any of `Estimates`; `Manage` are the
exported wrap, unwrap and cashback helpers.

## 3. Runs

| Run | States | Shows |
|---|---|---|
| `async_executor` | 208,096 | all four modes, no client / one / two, two attempts, retry delay or none, abort on success or not, three levels of confirmation |
| `trade_submission` | 269,008 | no route, Default, one relay with and without Default, two relays; flat tip or every table two edits make; with and without tip, check, nonce, simulation; three ways to wait |
| `transaction_pool` | 204,382 | three transactions, two slots, a queue of one, two attempts, two providers |
| `account_cache` | 752,930 | two accounts, three versions in two slots, two forks, ten batches, two changes of generation, snapshots with and without keys |
| `confirmation_monitor` | 600,902 | one signature monitored twice, two polls under way, two failed polls allowed |
| `confirmation_monitor_wait` | (stops at the violation) | the finding below |
| `constant_product` | 34,290 | eight venues, pools tens of units deep, four trades of eight sizes |
| `cached_routes` | 165,630 | nine pools over five assets, searches with up to two conversions, explicit routes, native ends, later signatures with tighter and wider ages |
| `instruction_builders` | 125,706 | six builders over every kind of pool they tell apart, every sizing and policy, four wallets |
| `swqos` | 2,993,480 | ten pairs of clients that cover every way to send and to read, two calls, bundles, a client that is not enabled, a provider list that changes |
| `retry_handler` | 461,351 | a timed and an untimed call, three attempts, exponential delays, one circuit and one limiter |
| `executors` | 1,712,899 | the cache through two starts and stops, with a state, with contexts that hold both; both executors in front of it |

Bounds, and why they are enough:

- *Asynchronous executor*: two lanes per execution (of three providers), because the code treats a
  lane only as "this one" and "another one". Two that return the same signature and two that return
  different ones are both there, which is what the comparison in `executeWithProvider` tells apart.
  `MaxRetries = 2` has a last attempt and one before it. The proofs below need no such bound.
- *Trade*: two edits reach a table with the pair, with a Normal row over a pair and with a row
  deleted again; tips 1 and 2 lie below and at the relays' minima; the nonce rule counts to 2.
  `PollsBeforeTx = 2, MaxPolls = 3` has polls before and after the threshold (the code: 10 polls,
  30 s), and the single signature check is poll 0. `MaxRoutes` is the longest list of routes of
  any request; the run has two, the proofs any number. The table knows one relay (`RelayTypes`), as a
  trade reads the rows of each route apart.
- *Pool*: with two slots and a queue of one, a retry meets both a full queue and a slot it still
  holds itself; `age` has one value on each side of the two thresholds the code compares with.
  The age bonus is taken at its maximum.
- *Account cache*: version 2 and 3 share a slot, so write versions decide; the batches have one
  account twice in both orders and a conflict after a good update. `MaxGeneration = 2` lets the
  gate open, close and open again, which is the case a guard must survive.
- *Confirmation monitor*: two entries of one signature are an earlier one whose polls and timer
  outlive it and the later one they meet; two polls of an entry (`MaxPolls`) can answer out of order. The target
  "Confirmed" has a view below and one above it.
- *Retry handler*: a threshold of two failures that two calls reach together or one alone; delays of
  one and two ticks against a reset timeout and a window of two, so that a retry wakes up in each
  state of the circuit. Other strategies are other delays.
- *Executors*: five configurations (`Bounds`), as the state space of everything together is too
  large: two starts and two stops with two questions under way; one start and one stop with contexts, and
  with an account; one start with an account and contexts, so that a context holds a blockhash and a
  state of different ages; and the executors in front of a cache started once. The program's states are
  of every age from one tick ahead of the clock (`clockAhead`) to one past the time to live. Two clients
  and two rounds have a next client, a next round and an end.
- *Providers*: the ten setups have every value of `via`, `reply` and `batch`, a type that the
  manager's factory refuses, Jito's class and a client that is not enabled;
  two concurrent calls where a connection is kept, which may be opened
  twice (`MaxDials`); up to two changes of a list of two providers, with orders that leave one out.
- *Constant product*: pools tens of units deep make every division round visibly and run out within
  four trades. `MaxAmount` is above what such pools reach, so the overflow guards are translated and
  not exercised. Fees are at the venues' own rates and at rates that leave a unit.
- *Routes*: two ways from SOL to USDC, one of them too shallow; a curve quoted in SOL, one in
  USDC, one at its cap; arrays that end within a trade; a budget of four paths that some requests
  exhaust.
- *Builders*: slippage 0, 50% and 100% (which `buy` and `sell` refuse); 50% of one unit is what the
  venues round differently; wallets with no account, all, some, and no
  lamports; two trades, as the second meets the accounts the first created or closed.

Fairness. Timers fire and resolved promises are resumed, because the event loop does
both: weak fairness on the actions that stand for them. Transports, the chain, the feed and the
caller owe nothing.

- `AsyncExecutor!EventuallyAnswered` needs the lane's own timer (`SendDeadline`) in the one case where
  no abort reaches it: a Parallel or Redundant answer that leaves lanes running.
- `TradeSubmission!EventuallyAnswered` uses `Collect` and the lanes' deadlines and is only stated for
  callers that do not wait for confirmation: the others have no submission deadline.
- `TransactionPool!Settles` assumes that each provider answers one way or the other, as
  `submitTransaction` has no deadline, that time passes, and that the pool keeps running. Time is
  needed: retries that hold every slot start nothing, and only their expiry ends that.
- `ConfirmationMonitor!FirstSettles` uses the timeouts alone: a node that never answers is allowed.
- `RetryHandler!EventuallyAnswered` uses time, the limiter's turns and the handler's own timers. The
  functions may never answer, so it is stated for the calls made with `executeWithTimeout` only.
- `Executors!HotPathAnswers` uses the deadline of each request of the hot path. A trade of
  `TradeExecutor` waits for its clients for ever if they do not answer, and is promised nothing.

Every property of a passing run has a mutant in `PROJECT.json`: a plausible slip in the code,
written beside the definition it replaces, that violates it. Types are part of a run's
properties: on their own in the two runs whose types carry a bound, elsewhere as a conjunct of another
(`HonestSuccess`, `HonestAnswer`, `QuietWhileOpen`, `SubmissionIsHonest`, `NoAccountIsMissing`,
`VaultSolvent`, `NothingLost`).

What the properties leave out on purpose: `FailoverAsksAll` excepts whoever is next in the array when an
entry that the loop has done with is removed from it (`passed`), and nobody else: the divergence below;
`HonestSuccess` exempts streams, which are not acknowledged, and refusals in words that the client does
not look for; `NoAccountIsMissing` leaves out Bonk, which creates
accounts as if there were none, and holds for a caller who can pay and asks for every account;
`QuotesCover` allows two units where three fees are rounded one by one.

### Finding

`confirmation_monitor_wait`: `timeoutMs` is the "Maximum time to wait for confirmation", but the
timeout of a signature's second entry does nothing if the first entry's end has taken the
signature out of the map: its callers wait for ever (`WaitIsBounded`). The first entry's callers
do not (`FirstSettles`).

### Divergences seen while modelling

The models follow the code in each of these; no run is about them.

Executors and submission:
- A redundant execution answers with the first success in provider order; the comment says the
  fastest (`async-executor.ts:458`).
- `confirmAnyTransactionSignature` gives up when the first landed signature has failed, though another
  may still be confirmed; its doc says any (`confirm-any-signature.ts:205`).
- A caller that waits for confirmation has no submission deadline (`index.ts:2867`), and when the
  confirmation throws, its answer has no signature (`index.ts:2956`).
- The fallback row of `expandSwqosGasTasks` is not checked against the relay's minimum tip
  (`index.ts:1611`). Default with a low/high pair is sent as two plain RPC transactions, which the
  nonce rule does not count. `updateBuyTip` also gives Default's rows a tip.
- A transaction waiting for its retry holds a slot of the pool (`transaction-pool.ts:530`).
- `RetryResult.attempts` is `maxAttempts` for every failure (`retry-handler.ts:527`).
- A hot-path client that missed its deadline may still have taken the transaction.
- `prefetchAccounts` does not look at the generation: an answer may come after `stop()`.

Providers:
- `removeClient` splices the array that `submitWithFallback` walks, which then passes over the next
  provider (`providers.ts:1592`, `1651`); a factory that throws ends the failover.
- Nine classes of `providers.ts`, and Jito's `submitBundle` (`providers.ts:403`), report success for an error
  body; the clients that read an answer without an `error` field as a success report one for any other
  refusal (`clients.ts:76`). A client that stands in is handed
  a transaction again whose answer lacked a signature. `fetch` is called without a timeout.
- A transport that returns another signature is an error of the cached trade
  (`cached_trade.ts:232`), though the trade was submitted.

Amounts, routes and builders:
- `raydiumAmmV4GetAmountIn` checks the range of a product of three factors where its operands are
  meant (`calc/index.ts:636`); the swap fee is taken from the output, which may be negative for dust
  (`calc/index.ts:1074`).
- The limits that builders make of a slippage are rounded differently: AMM v4 and PumpSwap round the
  minimum down (`raydium_amm_v4_builder.ts:117`, `calc/index.ts:400`), the others up. Their clamps at 99.99%
  are not reached through `buy` and `sell`, which refuse 100% and more.
- A snapshot without keys is taken after a conflict and only fails when used
  (`subscription_cache.ts:508`).
- Candidate iteration throws once 64 paths were yielded; `prepareCachedTrade` takes the first path
  that prepares, not the best; under `Auto` errors of the official route escape
  (`trading/pump_route.ts:36`). Freshness is checked when a prepared trade is signed, not when it is
  sent.
- Bonk creates accounts non-idempotently; a PumpSwap buy that closes its input closes the wrapped SOL
  account whatever was paid (`pumpswap.ts:672`); `AccountPolicy.Auto` does not create the input
  account (`index.ts:1207`). A V3 purchase with a maximum input ignores an explicit minimum output:
  the estimate takes its place (`pumpfun_builder.ts:1192`, `1200`).
- `closeAll` of the connection pool resets the count while connections are out (`pool/pool.ts:244`).

## 4. Proofs

Every safety property of the passing runs is a theorem for every value of the constants. One argument
serves all: an inductive invariant that holds initially, that each action keeps (a lemma for
each action or group of them) and that implies the property. Each was first checked on the
reachable states of its run. A `..._proofs` module holds the invariant `IInv` and the proofs of one
component; `CachedTrade_proofs` those of the three that a cached trade is built from, and
`TradeSubmission_proofs` those of what `TradingClient` builds and how it submits it.

**`AsyncExecutor_proofs`.** `IInv` is `TypeOK` with eight parts: `ReceiptInv` (the kept receipt is
paired and exists as soon as anything was acknowledged), `LaneInv` (a lane's place and result agree
with whether its provider acknowledged; without it a failure's signature could be anything),
`IdleInv` (before the start nothing happened), `SeqInv` (in the sequential modes every lane but the
current one is done and was not acknowledged, and the loop stops with the answer: this is why no
resubmission happens), `SendsInv` (the retry bound), `ParallelInv` (the kept failure has a signature
if a collected lane has one: this is why the parallel answer does not lose a receipt), and what
`inner` and `result` say (`InnerInv`, `ResultInv`). Theorems: `TypeCorrect`, `ReceiptsPaired`,
`AnsweredIsOver` (with its parts `NeverResubmits` and `AnswerStands`), `AnswersHonestly`, which adds
what a lane's success says of the chain and what the listener last heard, and `ImplementsContract`,
the refinement of `ReceiptContract` (initial states to initial states, each step to a contract step
or a stutter).

**`TradeSubmission_proofs`, the submission.** `TableOK` (a table has no Normal row beside one of the pair) is kept by
every edit of `GasFeeStrategy`, so a route has at most two lanes: this is why `LandsOnce` holds of
any table. `Lanes` says that only expanded lanes are started and that the chain has seen nothing
else, `Progress` what may be known at each place of `executeTransaction`, `Honest` the answer.
Theorems: `TableHasNoConflict`, `TradeLandsOnce`, `TradeIsAnsweredHonestly`, and `NoWaitOutlives`:
when the submission is over no lane waits any more, the safety half of `EventuallyAnswered`.

**`TradeSubmission_proofs`, the builders.** `WalletInv` says that the wallet is one and that what is
under way was built for a request or is one of the wallet's own transactions. What a builder answers
with is then described once for all of them (`PlanForm`): an opening that only creates and wraps, one
swap, and what is closed after it. That swap `Serves` the trade: it is between the tokens
that were named, takes no more than the caller allowed and brings no less than its minimum, the
estimate less the slippage, rounded down: no venue's own rounding is below that (`AmountsOf`). Each builder has a
lemma for it (`CpmmForms`, `BonkForms`, `PumpSwapForms`, `V1Forms` to `V3Forms`, ...), over `Sane` requests: those
that pass `validateSlippage`,
and `Builds` puts them together. Outcomes of the chain are a recursive function, reached without
induction as in the routes: `Turns` and `Leads` take a set of wallets to a set of wallets, one instruction and
one plan at a time. From these follow two theorems. `SpendsAsAllowed`: creating, wrapping and closing
leave the `Worth` of every token as it was (`QuietWorth`), so a plan costs and brings what its swap does
(`PlanIsBargain`). `NothingIsMissing`: what the opening of a purchase creates and wraps leads from a wallet
that can pay to one the swap can be filled from (`PushLeads`, `CreateLeads`, `BuyLeads`), and a sale for exactly
the balance leaves an empty account, which can be closed (`SwapLeads`, `CloseLeads`, `SellLeads`).

**`TransactionPool_proofs`.** `Placed` says where each transaction is by its status and how many
passes it had, `Bounds` that slots and queue are finite and how large. What the sort does had to be
proved without induction over the queue: positions are counted (`Place`), in a total order the counts
are the numbers from 1 to the length (`Places`), so the sorted queue is a permutation with falling
scores. Theorems: `PoolLosesNothing`, `PoolEndsForGood`, and `CriticalGoesFirst` for at most 50 tries:
the next priority scores at most 750 and 5 for each failed attempt, so with more it would
overtake a Critical one, which scores at least 1000.

**`CachedTrade_proofs`, the cache.** `CacheInv` is `TypeOK`, `GateInv` (what is in `validated` was
validated for the present generation and fork, an open gate has it all) and `SnapshotInv` (a guarded
snapshot that lost continuity has an older generation, or the cache has a conflict). `Newest` is a
`CHOOSE`, so `VersionsGrow` needs that a set of bounded versions has a greatest one, which comes from
the well-foundedness of the natural numbers. Theorems: `TypeCorrect`, `GateIsValidated`, `GuardHolds`,
`BatchesSafe` (with its parts `VersionsGrow` and `ConflictIsFinal`).

**`CachedTrade_proofs`, the amounts.** The solver does not decide products and quotients of variables,
so all arithmetic rests on lemmas about two or three numbers (`Floor`, `Ceil`, `OutKeeps`, `InKeeps`,
`KeepMore`, `Shares`): a payout rounded down and a price rounded up never lower the product of a
pool's sides. From them each venue's trades are `Fair` (`BuyBaseFair`, `PumpFunSellFair`,
`BonkBuyFair`, ...): the reserves move by what the trader gives and takes, the vault holds what it
owes, and the product does not fall. `MarketInv` puts that together: the base that pool and trader
have is what it was, their quote is never more than it was, the pool is `Backed`, and the product of
its sides is at least the first one; a curve that completes has its own part (`CurveInv`,
`NoSlippage`). A trader with as much of both as at first then left the pool with no more of either,
and with the product no smaller it has exactly what it had. Theorems: `NothingOverdrawn`, `NoFreeLunch`.
`QuotesAgree` is about any pool in a state it may reach: what an output is quoted to cost buys that
output, venue by venue (`BudgetBuys`, `CostBrings`, `SaleBrings`, `CurveBudgetBuys`, ...).

**`CachedTrade_proofs`, the routes.** Recursive functions of the model are a `CHOOSE`: `Recursive`
says once that there is one for any first value and step, and `UpTo` is the least counterexample that
replaces an induction. With these every quote has its type (`LegType`, from the walks of `SwapWalks`
up), and a prepared route has the legs of its hints, spends the minimum of the leg before, and
ends with the minimum it announces (`RouteIsPriced`).

- `WireIsFresh` needs only `HeldInv`: the context of a held trade is not of the future and its age is a
  number. The age since then is held against both limits, that of the preparation and that of the
  signature, whichever is tighter.
- `WsolUntouched`. A list of instructions is `Clean` if, where an endpoint is native, none of them
  names the wallet's own wrapped SOL account (`Sparing`), and every temporary account that is created
  is closed later (`Closing`). Clean lists join (`CleanJoin`, `CloseLast`), and every settlement builds
  one (`NativeSettled`, `PumpFunSettled`, `PlainSettled`), so `WireInv` has it of what was signed.
  `Outcome` follows the wallet through a clean list: what one step may do to it is `Executed`.
- `SearchHoldsBest`. `WalksReach` says that a path which meets no pool or asset twice and stays off
  what it must avoid is among those the search walks; `BuyIsMet` and `SaleIsMet` that a sequence of
  known pools that prepares is such a path. `SearchIsBest` then needs that a finite set of numbers
  has a greatest, and numbers they are by `RouteIsPriced`. `FoundInv` keeps that of a held route.
- `TradesLand`. The balances of a wallet are bounded from below by `Floors`. `Turns` says what one
  instruction does to such bounds, whatever the swap pays above its minimum (`TransferTurns`,
  `SwapTurns`, ...), and `Leads` strings them along a list of instructions: `LeadsOn` joins two lists, and
  `LeadsEnd` brings the bounds to the chain's `Outcomes`. `Runs` is what pricing gives the settlement:
  each leg starts where the one before it ended, spends no more than is sure to be there, and no asset
  is met twice, so what a leg brings is still there for the next (`StretchRuns`, `TempRuns`). Each way
  to settle then `Fulfils` what its caller is told (`PlainLands`, `NativeLands`, `CurveLands` with
  `LegLands` for the one leg of a curve, `OfficialLands`): from the input and the lamports it requires,
  and any balance or none of the wallet's own wrapped SOL, it ends with the minimum and no lamport short.
  The tip is paid before (`PaidPledges`), and nonce, budget and middleware cost nothing
  (`IdlePledges`). `PromiseInv` keeps that of the signed transaction: of a prepared one by
  `PreparedIsPromised`, of one signed from a held trade, with `FoundInv`, by `BuiltIsPromised`.

**`ConfirmationMonitor_proofs`.** `IInv` is the types, `Order` (an entry not made yet has no history,
and the monitored entry of a signature is its newest) and the two properties. `Order` is why an entry
that leaves the map uncancelled and open has an older one to blame. Steps are of four kinds, a lemma
for each: `CompleteInv` (an end that is true), `QuietInv` (nothing but reports), `ReleaseInv`
(cancel, stop), `ChainInv` (what was true of a signature stays so). Theorems: `AnswersTrue`,
`MapConsistent`, and `FailedPollsBounded`, whose invariant `Polling` counts the polls still under way
when the monitoring of a signature ends: they are all that can still fail.

**`RetryHandler_proofs`.** `Waited` relates the circuit's own clock to the history: it is never ahead
of the time since the circuit opened, and a circuit that is not open has waited. `Attempts` says that
a call that sleeps has an attempt left. `Moves` is what one step of a call may do to the circuit;
every helper of the breaker (`recordSuccess`, `recordFailure`, `updateState`) has its lemma, and
`DelayTypes` covers every strategy. For the results, `Fine` says which runs
there may be at each phase of a call; a step tells a call only
what its current attempt came to (`FailedTells`, `BeginTells`, `StepTells`) and touches no other
(`Alone`). `Orderly` is why the limiter's turn releases only a call that waits.
Theorems: `OpenIsQuiet` and `ResultsAreHonest`.

**`Executors_proofs`.** For the cache, `OneLive` says that at most one question for the blockhash
belongs to the `start()` in force and that the chain was read for it after the cached blockhash was:
this is why a late answer cannot take the blockhash back. `Recent` says that what is served arrived at
most a prefetch timeout after it was read (`Prompt`, also of a state whose time is ahead of the clock,
which is not served). For the executors, `Racing` and `Around` describe the
lanes of a parallel and of a sequential trade: in a sequence only the current lane is under way, and
all before it failed. Theorems: `CacheServesRecent`, `CachedBlockhashOnlyForward`,
`ExecutorsAnswerHonestly`, `NobodyAskedAfterSignature`.

**`Swqos_proofs`.** `Parts` says what a submission counts as sent: it was taken by its provider or
refused unread, unless it went down a stream, and carries its own signatures. Three lemmas lead there: what a client
class reads is `Plausible` for what the provider did (`ReadingIsPlausible`), so is what an exchange
comes to (`ExchangeIsPlausible`), and an answer that is plausible keeps `Parts` (`AnswerKeeps`).
`Asks` says that whoever stayed in a failover's order was asked, is still ahead in the array the
loop walks, or was `passed`: adding, removing (`Spliced`) and replacing keep it, and only the removal of an
entry that the loop has done with adds to `passed`, one at a time.
`Connecting` says that there is no connection while one is made, which is why `ConnectionsOwned`
survives two calls on one client. Steps of a submission, of a call and of the manager
have a frame lemma each (`ProgressKeeps`, `OneCallSteps`, `ManagerSteps`). Theorems:
`ConnectionsAreOwned`, `FailoverAskedAll`, `SuccessIsHonest`.

Assumptions on constants are those the modules name, and each run's values satisfy them. Some are
only there for the proofs: a bound on the routes of a request (`MaxRoutes`), finitely many clients
and providers, that no key of the cache has a reserved name, that a builder's pool trades two different
tokens and only a V3 curve is given a minimum (`PoolsAssumption`), and that the powers of the backoff
multiplier are numbers (`PowersAssumption`: the prover knows nothing of exponents).

Only model-checked:

- Liveness, everywhere (`EventuallyAnswered` of three modules, `Settles`, `FirstSettles`,
  `HotPathAnswers`): fairness and ENABLED are out of the prover's reach.

## 5. Not modelled

Wording, logging, metrics, statistics, progress callbacks, metadata and timings; account lists and
byte layouts of instructions and pools (data, covered by the repository's fixtures); address
derivation and encodings; generated catalogs. By component:

- *Subscription handles*: subscribing is serialised per key, one unsubscribe promise is shared, and a
  closed handle drops events. The cached path is fed by the application's own stream, not by these.
- *Pools and caches*, *performance queues*: exported containers, each a map or counter with a limit,
  outside the modelled trade paths. Without threads their operations do not interleave.
- *Hardware and compiler shims*: they keep no state a property could be about.
- *Middleware*: the caller's functions over the instructions; one that prepends an instruction is a way
  to build in `CachedRoutes`.
- *Nonce and keys*: a key is decrypted for one callback and zeroed after it; a nonce is a property of a
  request (`TradeSubmission`) and an instruction (`CachedRoutes`).
- *Compute budget*: an instruction without effect, and a cache of its bytes.

Within the modelled parts: client construction, the `create` methods and lookup tables of
`TradingClient`; adding or removing clients while a pool's pass or an asynchronous execution runs;
the layouts that decoders read from a snapshot; square roots, ticks and dynamic fees of concentrated
liquidity; DAMM v2 legs of cached routes; endpoint tables, headers and bodies of providers.

## 6. Plan

The model is complete for the parts of the inventory that carry the trade paths, and the proofs for
what it says of safety. What is left is, most important first:

1. Amounts as large as the venues': the swap fee of AMM v4 on dust and the overflow guards of the
   quotes are translated, but pools tens of units deep do not reach them.
2. DAMM v2 legs in `CachedRoutes`.
3. Adding and removing clients while an asynchronous execution runs.
