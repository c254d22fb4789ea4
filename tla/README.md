# Verification of "Syn Antona"

TLA+ models, TLC configurations and TLAPS proofs of a trading bot. The code is Python
(`app/`, about 23,500 lines). Several processes share one SQL database and one Bybit
account; the part that can move real money is modelled most closely, and the processes
beside it (signal scanner, market discovery, shadow collector), the multi-exchange path,
paper trading and the backtest engine are modelled as well.

## The system: inventory

| Component | State it keeps | Operations | Interacts with |
|---|---|---|---|
| Controlled-live repository (`trading/controlled_live.py`, `db.py`) | proposal rows, execution ledger (unique client order id), safety flags (kill switch, first order in progress / executed, automatic), loss baselines | approve, cancel, claim, mark_*, activate_kill_switch, enable_automatic, refresh_loss_baselines, claim_ai_submission, mark_ai_* | every process |
| First-order execution service (`controlled_live.py`) | none (a coroutine between commits) | execute_first_order, reconcile | repository, gateway |
| Phase record (`trading/first_live_proposal.py`) | one row: status, proposal id, notified_at, updated_at | save_ready, release slot, mark_approved_*, mark_execution_status, cancel | coordinator, bot, worker |
| Signal engine (`controlled_signal_engine.py`) | signal rows | one row per symbol and closed candle | scanner |
| Scanner and proposal coordinator (`trading/multi_symbol_scanner.py`) | scan cursor | read account and market, candidate batch, build, rank, save | reader, phase record, sizing |
| Execution cycle and worker loop (`shadow/runner.py`, `trading/controlled_live_runner.py`) | process start time | pick-up, execution, reconciliation, restart validation, halt | all of the above |
| Guarded gateway (`exchanges/bybit_v5_gateway.py`) | order id to client id cache, fee-rate rows | authorize, submit_market, protection, emergency close | Bybit |
| Telegram bot (`telegram/runner.py`) | none | approve, cancel, emergency stop | repository, phase record |
| AI live trader (`ai/live_trader.py`) | scan and decision rows, AI proposals, fee-rate rows | begin / complete / fail scan, execute candidates, set_disposition | repository, gateway, AI provider |
| Profit protector (`trading/profit_protector.py`) | position states, event ledger | sync, on_ticker, evaluate, begin/finish event | gateway, websocket |
| Market discovery (`ai/market_discovery.py`, `ai/service.py`) | one runtime row: slot, candidates, provider gate, daily counter, decisions | cycle: claim slot, scan, claim provider call, save decisions | AI provider |
| Shadow collector (`shadow/*`) | lease, candles, decisions, trades, health, daily reports, alert outbox | collect, recover, repair, report; supervisor and watchdog | market data, database, Telegram |
| Sizing and costs (`controlled_live.py`, `live_costs.py`, `risk/manager.py`) | none | previews, budgets, levels, edge | coordinator, guard, AI trader, paper, backtest |
| Adapter path (`execution_store.py`, `multi_exchange.py`, `exchanges/*`) | order ledger, portfolio, request queue | execute, claim, outcome, preflight | exchanges |
| Paper broker and demo loop (`paper_broker.py`, `positions.py`, `demo.py`) | balance, positions, last prices | open, mark, close, pause, emergency stop | signal engine of the demo |
| Backtest engine (`backtest/core.py`) | none | run, metrics, verdict | strategies |
| Strategy lab, statistics, API, configuration, migration tools | files, tables | offline or presentation | - |

What is hard here: the bot and the worker commit to the same rows without row locks;
a worker can be killed at every `await` and nothing but the database survives; the
create request can be lost, refused, filled late or filled in part; checks (kill switch,
positions, pending orders, quotes, fee rates, approval age) are separate requests made
before the POST, and the account they read moves on between them; a deployment can overlap
two workers, because the controlled-live worker takes no lease, and the lease the collector
takes is looked at once per cycle. `PROJECT.json` lists the hazards with their lines.

What makes each part correct: an entry is posted at most once; the ledger never shows
more safety than there is; exposure without a stop keeps the entry lock; the account
limits and the day's loss budget hold; the kill switch stops everything but an entry already
authorised; automatic mode follows a restart validation; unresolved entries fail closed;
signals are judged once; the protector's stop only tightens, its records never claim more
than the exchange has, its exit is sent once; a scan's decision rows are honest,
an AI entry is settled or stops trading, and is worth its costs; provider
calls are gated and counted across restarts; the collector makes no gap in the shadow data
and trades without hindsight, and collection resumes; demo and backtest figures agree with the money.

## Modules

| Module | Models |
|---|---|
| `ProposalIds` | identity shared by database and exchange: proposal, client order id, symbol |
| `ControlledLive` | rows and transactions of `ControlledLiveRepository`, `_persistent_checks` |
| `BybitExchange` | Bybit as the gateway uses it (external) |
| `EntryGuard` | what `submit_market` and `ProductionMutationGuard.authorize` insist on before an entry, read by read; the promises both execution paths share |
| `FrozenExecution` | composition: workers, phase record, Telegram bot, exchange; the properties |
| `ExecutionLedger` | abstract specification: claim, send once, one unresolved entry, rows move forward |
| `FrozenExecutionProofs` | theorems and proofs about `FrozenExecution`, for any number of workers and for one |
| `AIExecution` | composition of the AI path: scans, decision rows, batch, `AIAutonomousExecutionService`, exchange |
| `LiveCosts` | levels, round-trip costs and the cost-aware edge, as operators |
| `AIEntryGates` | what an AI entry is judged by between scan and fill: quotes, fee-rate cache, cooldown, snapshot, the guard's second look |
| `AIProofs` | theorems and proofs about `AIExecution` and `AIEntryGates` |
| `ProfitDecision` | `evaluate_protection` and its helpers, as operators on integers |
| `ProfitProtector` | `LocalPositionProfitProtector`, `PositionProfitRepository`, the gateway's two management calls, restarts |
| `ProfitProtectorProofs` | theorems and proofs about it |
| `RiskSizing` | planned risk, day result, loss streaks, native levels, preview, as operators |
| `SignalScanner` | signal engine, account reader, scanner and coordinator, the budget part of the guard, exits, midnight |
| `MarketDiscovery` | discovery cycle, ranking, runtime row, provider call, restarts |
| `ShadowCollector` | supervised collectors: lease, candles, decisions, trades, repair, recovery, health, reports, watchdog |
| `MultiExchange` | `execute` of several callers, order ledger, request queue, portfolio limits, preflight |
| `MultiExchangeProofs` | theorems and proofs about `MultiExchange` |
| `ScannerProofs` | theorems and proofs about `SignalScanner` and `MarketDiscovery` |
| `RiskManager` | `RiskManager.approve` and the exit rules of a candle, shared by the next two |
| `PaperTrading` | demo loop, paper broker and position manager |
| `Backtest` | `BacktestEngine.run`, `calculate_metrics`, `validation_status` |
| `PaperProofs` | theorems and proofs about `PaperTrading` |
| `SimulationProofs` | theorems and proofs about `ShadowCollector` and `Backtest` |
| `SumTheorems` | what sums over finite sets and logs come to |
| `MC...` | small constant sets for TLC, one module per composition |

`ControlledLive` has one definition per transaction. SQLAlchemy reads rows, and commits
only the changed columns later; there is no `SELECT ... FOR UPDATE`. A transaction whose
write depends on what it read is therefore split into `...Readable` and `...Commit`, and
other processes step in between (`claim_submission`, `approve`, `cancel`, `save_ready`).
Transactions that write constants are one step. The age of an approval is the three
values the guard tells apart (absent, at most ten minutes, older).

`FrozenExecution` gives each worker a program counter (`pc`), the proposal it works on
(`job`) and its local `automatic`. The labels follow the awaits and commits of the code:
SCAN, SAVE (coordinator), CLAIM, CLAIM_COMMIT (`claim_submission`), PREPARE
(duplicate query and leverage), AUTHORIZE, POSITIONS, ORDERS (the guard in the order of
its reads), BLOCKED (the guard tripped the kill switch), CREATE, RESPONSE, POLL
(`submit_market`), PROTECT, SECURED, CLOSE, RECONCILE, KILL, HALT (the exception handler
of `_controlled_execution_cycle`), ENABLE, VALIDATED, KILL_MISMATCH, HALT_MISMATCH
(restart validation). `startedAfter` holds the workers whose `process_started_at` is
later than the phase record's `updated_at`. A restart loses `pc`, `job` and the local
flag and nothing else. The bot's approve and cancel are two transactions each.

Taken as armed: the environment gates, the profile and selection hashes, and the
administrator's identity; they are constants of a deployment. Market-dependent refusals
(spread, turnover, minimum notional, daily budget, consecutive losses), network errors and
API errors are the constant `Faulty`: when TRUE every such check may fail. A POST answered
with `retCode # 0` is taken to be a definitive refusal, as the code takes it. Quantities
are abstracted to full or partial fills: `reconcile` compares the quantity.

`AIExecution` composes the same repository, guard and exchange with the autonomous trader. A
proposal stands for one decision of one scan (the code derives its id from scan, symbol and
action), and a scan for a five-minute slot of the clock, whose row `begin_scan` inserts once.
The model's answer is any subset of the scan's decisions; level, trend, cooldown, cost and
balance rules refuse a candidate or do not (`CandidateRefused`). The labels of `pc`: READ,
DECIDE (`cycle`), BATCH, SAVED (`_execute_candidates`), CLAIM to POLL as above, PROTECT, CLOSE,
RECONCILE, KILL (`execute`), and OPENED, REFUSED, FAIL, the three ways `execute` returns to the
loop. What differs from the approved path, and why it has its own module: the claim takes no
entry lock, no phase record halts, the guard's loss limits do not apply, and no step of a new
process looks at what the old one left. `abandoned`, the entries a process died with, is a
history variable that only a property reads.

`ProfitDecision` counts prices in ticks of the instrument and money in units of
tick x quantity x `1/CostDen`, so that every comparison of the code's Decimals is an integer
comparison multiplied out; the tick is where the code rounds, and the rounding is kept
(`StopForNetProfit`, `NextTick`). The entry fee is the exchange's own figure, part of the
snapshot; exit fee and slippage are the rate `CostNum / CostDen`. The ATR and the verdict of
`adverse_momentum_reversal` depend on candles only and are inputs of a ticker, each of any
value of a small set.

`ProfitProtector` models one slot (`symbol:positionIdx`), which successive entries use; slots
share no row. `rows` is `PositionProfitStateRecord` (stage, confirmed stop, largest net
profit, and `max_favorable_r` as the pair peak / risk), `events` the unique event ledger,
`snapshot` the in-memory `self.positions`, `current` the event being carried out. `pc`
follows the awaits: SYNC (positions were read, the rows not yet written), WATCH, UPDATE,
AUTHORIZE, SENT, VERIFY (`manage_native_protection`), EXIT, EXIT_AUTHORIZE, EXIT_SENT
(`protective_reduce_only_close`). Between any two the entry path may fill, protect and
record another entry, the exchange may close the position, and the process may die: only
`rows` and `events` survive. `exitSent`, `best` and `stray` are history variables, read by
the properties alone, and so is the field `of` of the snapshot, the entry whose position was
really read (the ownership test may take it for another one's, and `best` follows `of`); `stray` marks a position that received a stop meant for the one
before it in the slot, which the exchange's interface cannot prevent. A stop request takes
effect when it is sent or never: Bybit refuses one older than the receive window (5 s), and
the client waits longer than that (12 s).

`RiskSizing` and `SignalScanner` follow a signal from its candle to a protected position when
execution is automatic. `ControlledSignalEngine` answers for one symbol at a time and inserts
a row; the reader's requests (positions, fills, wallet) are steps of their own, gathered in
any order, so that a reading may be torn; the guard reads fills and positions again, in its
own order. Between any two steps a stop or target fills, the protector moves a stop to
break-even, or the UTC day ends. An order that passes the guard fills and is protected (its
failures are the subject of `FrozenExecution`), with slippage up to the allowance or beyond
it: `excess` is what fills cost beyond the plan, and the budget property grants exactly that.
`late`, `judged` and `proposed` are history variables.

`AIEntryGates` covers one symbol and one process, whose cycle is a chain of requests (MARKET,
ACCOUNT, FEES, DECIDE, CLOSES, QUOTE, GUARD_FEES, EDGE, POST). Time, quote, the venue's fee
rate and the position move between any two. The rate cache is the row that trader and guard
both write and both fall back to. `LiveCosts` counts prices in ticks and raw levels in half
ticks, so that rounding away from the entry is kept.

`MarketDiscovery` has one definition per transaction of the runtime row and per request
between them. Scores are in tenths and the ranking is the code's two sorts with their
keys. The provider may answer nothing, anything invalid, or any complete set of decisions;
the one retry of an invalid answer is a second request, counted before it is sent. Claim,
count and receipt are three steps with the clock between them; `posts` keeps the day of the
last two.

`ShadowCollector` models supervisors of two deployments, each with one child, on one
exchange (exchanges of a cycle share no row but the outbox). A child is killed, hangs, fails a
call or loses its lease at any step; what it holds in memory is in `proc`. Candles are live
or recovered; `trade.opened` is the time of the quote, and one clock stands for the exchange's
time of a quote and the time it was received. A recovery asks once for what is missing after
the newest row; the answer may leave out any candles, and what it has is stored in order, one
transaction each. `omitted`, a history variable, are the candles that an answer left out before
a later one. Fills and verdicts of the shadow order are any the code allows.

`MultiExchange` takes one account, a price of one unit, several concurrent `execute` calls, and
the venue's list of accepted orders; the queue is a lock whose holder may send again. The
preflight reads open orders, recent orders and ledger in three steps. `sight`, a history
variable, are the orders that were open or among the newest at any moment from its first
read to its last.

`RiskManager` is shared by `PaperTrading` (prices and fees in cents, rounded half-even as the
broker does, and whole coins, so that gross results, which the broker does not round, are whole
cents as well; the code's lot is 0.000001) and `Backtest` (exact hundredths of hundredths, since the engine keeps all decimals).
The demo loop waits for one symbol at a time, and its operator steps in between; `reached`
and `peaks` are history variables, the best price of each open and closed position as the marks
showed it. An override of the backtest gives the stop distance and the maker's entry fee together,
as `core.py:201` ties them. In the
backtest the strategy is any function of the past: its answer is chosen when the candle is
processed.

## Runs

| Run | Constants | Checks |
|---|---|---|
| `frozen_overlap` | 1 proposal, 2 workers, 3 restarts, faults | `TypeOK`, `AtMostOneEntry`, `LedgerNeverFlatters` |
| `frozen_liveness` | 2 proposals on 2 symbols, 1 worker, cap 1, 2 restarts, faults, fairness | `NakedPositionHoldsLock`, `AtMostOneLateEntry`, `PositionLimits`, `ImplementsLedger`, `AutomaticOnlyAfterRestart`, `UnresolvedFailsClosed`, `ApprovalIsConsumed` |
| `frozen_expiry` | 1 proposal, no faults | `ConfirmedFillIsSecured`, violated |
| `protector_slot` | 2 entries, long or short, in one slot, 4 prices, 2 ATRs, 2 events, fairness | `RequestedStopIsSound`, `ConfirmedStopIsNative`, `PeakIsKept`, `ExitSentOnce`, `StopOnlyTightens`, `LostAnswerIsRecovered` |
| `ai_execution` | 3 decisions in 2 slots on 2 symbols, 1 worker, cap 2, 2 deaths, faults | `EntriesAreHonest`, `DispositionIsHonest`, `SettledOrStopped` |
| `ai_gates` | 3 quotes, 2 fee rates, 3 decisions, 3 points of time | `FeeRateIsRecent`, `EdgeIsReal`, `CooldownHasOneGap` |
| `signal_scanner` | 2 symbols, 2 candles, 4 hours with a midnight, 2 entries, 1 crash | `DayLossIsBudgeted`, `SignalsAreJudged`, `OneProposalPerBatch` |
| `market_discovery` | 5 symbols in 2 listings, 6 points of time in 2 days, 1 restart | `GateIsDurable`, `CounterCoversPosts`, `DecisionsAnswerTheClaim` |
| `shadow_collector` | 2 deployments, 1 market, 2 candles, 1 fault, fairness | `NoGaps`, `TradeIsProspective`, `CollectorResumes`, `OrphanIsRepaired` |
| `multi_exchange` | 2 callers, 2 ids, 4 requests, 1 retry, 1 crash, history of 1 order | `LedgerCoversVenue`, `OneCallPerId`, `PreflightIsSound` |
| `paper_trading` | 2 symbols, 3 setups, 4 prices | `BooksBalance`, `GainIsLocked` |
| `backtest` | 7 candles from 6, 4 orders | `LossIsBudgeted`, `LogObeysRiskRules`, `ReportMatchesMoney` |

Every state machine has a type invariant (`TypeOK`; `GatesTypeOK`, `DiscoveryTypeOK`, `DemoTypeOK`
and `EngineTypeOK` where one proof module is about two machines). A run checks it for
`FrozenExecution`; the proofs below establish it for all of them. `EntriesAreHonest` is the pair
`AtMostOneEntry`, `LedgerNeverFlatters` of `EntryGuard` for the AI path. `CollectorResumes` asks
three things of one moment that keeps coming back: the lease is held, no alert waits in the
outbox, and every finished day that has a snapshot is dealt with. It does not say that the
day's report arrived (see `ReportIsDelivered` below). `LostAnswerIsRecovered` has two halves: an
applied update that no request has in hand does not wait for ever, and until it is
confirmed its row does not change.

Bounds. Two proposals are the first trade and one automatic trade, which is where the
rollover, the restart validation and the account limits meet; a third repeats the second.
Two workers race for one proposal in every order. One restart is needed to reach automatic
mode, a second to crash in it; bot restarts count too. `frozen_overlap` uses symmetry of
workers; the other runs use none. The proofs below remove the bounds for every safety property of
the passing runs.

With a cost rate of 1 % and an entry at 100, a long position nets +0.5R at 108 and +1R at 115,
a short one +0.5R at 92; 104 is the price it falls back to. Two events are an update and what
follows it (a tighter update, or the exit after the watch), which is where a lost answer, a
crash and a second request meet. The second entry may be in the other direction, or similar
enough to pass the ownership test for the first.

In `ai_execution` the first scan has two candidates, so that the second is judged by a stale
snapshot and by what became of the first; the next slot has one on a symbol of the first, so
that late fills, leftovers of a dead process and a new scan meet. Overlapping AI workers are
not run: `begin_scan` gives a slot to one process, and the two share no proposal. In
`ai_gates` one decision of each side clears the gates with little to spare and one falls
short by as little, rates are a low and a high one, and a quote may move by less or by more
than the slippage allowance; three points of time hold a scan, a cache that ages out and a
cooldown that is still running.

In `signal_scanner` the budget admits one full position and part of a second, so that a stop
that fills between two reads decides whether the second fits; the second candle makes the
cursor matter, the midnight resets the day's figures in mid-cycle. In `market_discovery` the
second listing changes the ranking and raises the score by more than a fifth, so that both
ways through the gate are taken, on both days. In `shadow_collector` one fault is a kill, a
hang, a failed call or a lease that expires under a live owner, during a redeployment or not:
the second owner starts where the first stopped; an answer of the provider that ends early is
a fault, one with a hole before its end is not. In `multi_exchange` the same id is used with
two payloads and a reducing order avoids the limits; the preflight's history (20 orders in the
code) is 1 here, so that an order can leave it: preflights that pass with two active rows and
that fail with every order in sight are both reached. In `paper_trading` and `backtest` the prices
lie on both sides of every level, with marks past a stop and past a target, and candles that
touch both.

Fairness. `FrozenExecution!FairSpec` assumes weak fairness of each worker's own steps: the
loop of `controlled_live_runner.run` runs again after every exception and `railway.toml`
restarts a dead container. Nothing is assumed of the administrator, of signals, of the clock,
of the exchange, or of the step that begins a new scan.

`AIExecution` assumes that the clock runs (`NextSlot`) and weak fairness of each worker
together with the step that begins a scan: the loop calls `cycle` every minute, and every
request has a timeout.

The protector's `Fairness`: its own steps go on (weak fairness), a sync is made again and again
(`SF(SyncRead)`; `run` syncs at least every thirty seconds and reconnects for ever) and does
not fail or miss its executions every time (`SF(SyncMatches)`).

`ShadowCollector!FairSpec`: the clock runs, each child goes on (its loop has a timeout at every
call; a hung child is `HUNG` and has no steps), and each supervisor acts (it polls the
watchdog and starts a child again). Faults are bounded by `MaxFaults`: nothing could be
promised if they never ended.

One worker. `NakedPositionHoldsLock`, `AtMostOneLateEntry`, `PositionLimits`,
`ImplementsLedger` and `AutomaticOnlyAfterRestart` are checked, and proved, for a single worker
and need it: with two overlapping workers, both can save a proposal from an empty slot and
both can read the claim's rows before either commits, so that two entries are in flight. TLC
refutes each of the five with two workers and two proposals, without a fault. Only
`AtMostOneEntry` and `LedgerNeverFlatters` survive any overlap; they are proved for any number
of workers.

### Two properties that mark a boundary

- `SettledOrStopped`: without a process death, the only unresolved entry an AI cycle lets go
  of with trading enabled is one whose final snapshot failed, and then the stop is in place or
  the position is gone.
- `CooldownHasOneGap`: the sixty-minute cooldown after a stop loss has one gap. A position
  that closes between the start of the scan and its account read is no longer in
  `open_symbols`, and its close is later than the time `require_same_symbol_cooldown` is given
  (`market.fetched_at`, `app/ai/live_trader.py:1193`), so it is not looked at. The property says
  that an order within the cooldown can come from nowhere else.

### What the violation shows

`frozen_expiry`: the approval is ten minutes old between AUTHORIZE and PROTECT. The protection
and the emergency close are refused by the same age check as an entry, and the filled
position ends naked with outcome UNKNOWN, against `README.md:190`.

### Known disagreements between code and text

Nine more properties state what a text of the repository says and the code does not do. They
are not among the runs above; each has a configuration that finds the counterexample, e.g.
`tlc -config MCFrozenCancel.cfg MCFrozenExecution`.

- `CancelledMeansNotSent` (`MCFrozenCancel.cfg`, module `MCFrozenExecution`): the worker reads
  the approved row, the bot reads it, the cancellation commits, the claim commits over it (or
  the other way round) and the entry is posted. The bot says "Ордер не отправлен"
  (`app/telegram/runner.py:190`).
- `ExitConfirmedMeansClosed` (`MCProtectorExit.cfg`, `MCProfitProtector`): the early exit is an
  IOC order. Its acceptance alone marks the event CONFIRMED; the position may still be open,
  and the event is never begun again (`specs/001-position-profit-protector/spec.md:104`).
- `BreakEvenIsReached` (`MCProtectorRetry.cfg`, `MCProfitProtector`): an update that failed before
  it was sent is FAILED for ever, since `begin_event` refuses the same action and stop whatever
  the status of the row (`spec.md:96`). `RetrySpec` grants more than the code can count on,
  tickers that keep coming and steps that do not fail every time; it is violated even so.
- `AcceptedIsNotFailed` (`MCProtectorVerify.cfg`, `MCProfitProtector`): a stop the exchange has
  accepted is read back; when that read fails with anything but an unknown outcome, the event
  is marked FAILED (`app/trading/profit_protector.py:685`), although the stop is in place, and
  `begin_event` refuses it from then on. `spec.md:85` says to "retain durable pending/unknown state
  and do not assume either success or failure". `LostAnswerIsRecovered` is about events that
  are still pending or unknown.
- `MissedIsStored` (`MCShadowGaps.cfg`, `MCShadowCollector`): the provider's answer to a recovery
  is sorted and checked without an interval (`app/backtest/historical.py:137`), so a hole in it is
  stored, and the next recovery asks from the newest row on. `README.md:127` says that candles
  missed during downtime are stored; a test stores such an answer as a success
  (`tests/test_phase4i_resilience.py:81`).
- `ReportIsDelivered` (`MCShadowReport.cfg`, `MCShadowCollector`): the daily report is marked as
  sent whatever became of its one call (`app/shadow/runner.py:299`), while `README.md:132` promises
  one report of every completed day. A day without a cycle has no snapshot and no report either.
- `UnresolvedIsReconciled` (`MCAIReconcile.cfg`, `MCAIExecution`): the process dies between the
  claim and the outcome, the next slot is scanned, and the row stays PENDING with the kill
  switch off; a stop signal does the same, for the `CancelledError` passes `except Exception`.
  The approved path, in contrast, halts on unresolved rows. `README.md:328` counts
  reconciliation among what stays in force for the AI mode.
- `NeverResent` (`MCMultiExchangeRetry.cfg`, `MCMultiExchange`): a timeout is wrapped into an
  `ExchangeError`, and `RateLimitManager.execute` sends the same order again, while the engine's
  error says that "automatic retry is forbidden until reconciliation"
  (`app/trading/multi_exchange.py:120`, `docs/PRE_LAUNCH_AUDIT.md:22`).
- `StreakMeansLosingTrades` (`MCSignalScannerStreak.cfg`, `MCSignalScanner`): the scanner's reader
  counts the fee of an entry as a losing result of its own, so that it stops after fewer losing
  trades than the guard (`README.md:177` says two consecutive losses).

## Proofs

Every theorem has the form `Spec => []Inv` or `Spec => Property` and holds for every value of
the constants that meets the named assumptions. Each rests on an inductive invariant which
TLC checked on the instance of the component's run before it was proved.

| Module | Theorems |
|---|---|
| `FrozenExecutionProofs` | `TypeCorrect`, `NoDuplicateEntry`, `LedgerIsHonest`; with one worker `NakedHoldsLock`, `LimitsKept`, `LateEntryOnce`, `AutomaticIsEarned`, `RefinesLedger` |
| `AIProofs` | `TypeCorrect`, `EntriesHonest`, `DispositionHonest`, `NothingLeftOpen` of the execution; `GatesTypeCorrect`, `FeeRateRecent`, `CooldownGap`, `EdgeReal` of the gates |
| `ProfitProtectorProofs` | `TypeCorrect`, `PeakKept`, `ExitOnce`, `ConfirmedNative`, `RequestSound`, `StopTightens` |
| `ScannerProofs` | `TypeCorrect`, `DayLossBudgeted`, `SignalsJudged`, `OneProposal` of the scanner; `DiscoveryTypeCorrect`, `GateDurable`, `CounterCovers`, `DecisionsAnswer`, `ShortlistIsBest`, `CandidatesAreBest` of the discovery |
| `MultiExchangeProofs` | `TypeCorrect`, `OneCall`, `LedgerCovers`, `PreflightSound` |
| `PaperProofs` | `DemoTypeCorrect`, `BooksBalanced`, `GainLocked` |
| `SimulationProofs` | `CollectorTypeCorrect`, `Gapless`, `TradesProspective` of the shadow collector; `EngineTypeCorrect`, `LossBudgeted`, `LogObeysRules`, `ReportMatches` of the backtest |
| `SumTheorems` | lemmas only |

Two machines share a module only where the assumptions about their constants go together;
`PaperTrading` (money in cents) and `Backtest` (exact decimals) give `Unit` different values and
must stay apart.

### The arguments

Approved path, any number of workers. `TypeOK` is not inductive alone; the handler of the bot
must be known to work on a proposal (`HandlerKnown`). The other two theorems follow from
`ClaimInv`. A worker between claim and outcome owns its ledger row alone (`ClaimUnique`),
because the unique key lets a claim commit only where no row exists, and its row is PENDING or
SUBMITTED (`ClaimOwned`). Nothing was posted without a row (`SentOnlyClaimed`) nor by an owner
that has not reached CREATE (`NotYetSent`), so the one POST is the first. What the exchange can
still do is bounded by what was posted (`OrderNeedsPost`) and by the fill (`PositionNeedsFill`),
and what a worker learnt stays true (`FillKnown`, `StopKnown`), so that a REJECTED or
FILLED_PROTECTED row can never be falsified later. Steps that touch neither the ledger nor the
exchange are covered by one lemma (`QuietStep`), steps that write an outcome by another
(`SettlingStep`).

Approved path, one worker. The theorems have the hypothesis `SoleWorker`, that all members of
`Workers` are equal; restarts and the bot are as free as before. `SoleInv` adds four parts to
`ClaimInv`. `LockInv`: the entry lock covers every open row, there is at most one, and a
claim that read the lock free commits while it is. `RoomInv`: what the guard saw of positions
and orders stays true until the entry has filled, since nobody else can fill one. `HaltInv`:
how many entries the kill switch still lets through, by where the worker stands. `TrailInv`:
what the phase record and the validation prove about the trade they name. `RefinesLedger` maps
initial states and every step to `ExecutionLedger` with the mapping that TLC checks.

AI path. No lock keeps two workers apart; the scan's primary key does (`ScansOwned`): a slot,
hence a decision, is in one worker's hands at most, so the theorems need no hypothesis on the
number of workers although the run has one. `TodoIsFresh` says that nothing has happened to a
candidate still to come, `JobKnown` what a worker knows of its entry at each await, `RowHonest`
and `LeftSettled` what the rows say of every entry, whether somebody has it in hand or not.

AI gates. A symbol that was free when the account was read is free until this cycle fills an
entry, and its last close is no later than that read (`AccountIsCurrent`); together with what
the admitted candidate's closes showed (`NotCoolingDown`) that leaves the one gap of
`CooldownHasOneGap`. A saved rate was still charged at the time it is stamped with
(`CacheIsHonest`). `EdgeReal` is arithmetic: `EstimateCoversSlippage` shows, for all prices, rates and
allowances, that charging slippage as a cost on an estimate is at least as hard as taking it out
of the fill prices and charging the fee on what is left, through every rounding to the tick.
It needs levels that are prices (`LevelsArePrices`, from `_validated_levels` minutes
earlier), and the spread of the estimate is what it has to spare.

Protector. The gap is between what was read and what the slot holds by now. An entry fills
once; so what was read of a position that is still open is true of it (`ReadIsCurrent`), an
owner whose position is not the one that was read has gone for ever (`OtherOwnersAreGone`), and
a row that was fed another position's profit belongs to a position that never comes back
(`RowIsPure`).

Discovery. Gate and counter live in one row, written before the request; a task under way
sends what the row was last claimed for (`ClaimInHand`) and has counted it (`PostIsCounted`).
The gate compares with the last claim only; that it holds against every earlier request
rests on scores that are not negative (`LastClaimCovers`). Of the requests of a day only the
first can have been counted on the day before, because a claim, its count and its receipt follow
each other and the next claim counts anew. That they are, and that a scan
lists each market once, is proved of the sort and the sum themselves: the place of a market
is the number of markets above it, and when the last key tells any two apart, places are a
bijection (`SortedByIsSorted`).

Collector. No step checks the lease before it writes, and the theorems do not rest on it:
the candle an instance is about to save follows saved ones, and the one it decides was stored
live, by itself, within the grace (`InstanceKnown`), which other instances can only add to. An
answer under recovery is stored oldest first, so that below its next candle everything is
either saved or was left out by the provider (`Accounted`, `AtRecovery`); the newest row may have
moved meanwhile, which only adds rows.

Scanner. What the guard checks the budget against is a reading of the account, and positions
close while it is taken. `ReadingCovers` says where what left the account since has gone: a
position that closes moves its planned risk into the day's loss, a fill beyond the plan goes into
`excess`, a break-even stop takes planned risk away and never adds any, and midnight clears
the day's loss only. After the guard `RoomForOrder` keeps the room for the one order that is sent.
That a stop at the entry risks no more than the old one did needs native stops on the losing side
(`StopsLimitLosses`). The two properties about signals rest on `ScanInv`: between the saved
proposal and the moved cursor the whole batch is judged, and a candle past the cursor has been
proposed from only before a crash (`UnmarkedNeedsCrash`).

Demo account. All of `BookInv` is about the broker's book. The books balance because every
close moves one entry fee from the sum over open positions to the sum over the log, one
position at a time or all at once in any order. `GainIsLocked` needs more than the stop: a position
may leave at its stop, its target or, on an emergency, at the last price, so each of the three
is kept within one initial risk of the watermark (`Locked`), and rounding to the cent keeps the
order of two prices (`RoundOrder`). The property does not read the watermark: `Watermarks` shows
that it is the best price the marks have had, by every entry, mark and emergency
(`Outcome`, `Remembered`). The mark that closes a position does not advance it; at a stop that mark
is no better than the stop, and beyond a target the exit is at the target, which is what
`LockedIn` counts such a mark for (`ExitsGive`).

Backtest. `EngineInv` rebuilds the balance, the day's result and the last loss from the log, so
that what the engine checks with its running figures is what the property reads off the log
(`EntryAllowed`, `LogIsSound`). An exit at the stop, the target or the last close keeps within the
unit risk of the fill (`Within`); costs come out exactly, since pnl before costs is the size
times the way from the fill to the exit's asked price, plus the adverse part of the entry.
The size is bounded in `QuantityIsBounded`: a quotient rounded down times its divisor.

Sums. The library's induction theorems take an operator as a parameter, which no prover here can
instantiate. `SumTheorems` unfolds the recursive function behind the community modules' fold once
and proves the rest by the least counterexample, a smallest subset or a shortest log, from
the well-foundedness of the naturals: a sum is an integer, changes by what one element changes,
splits at any subset, and is the same over a set and over any list of it.

Adapter path. A call past its claim holds a PENDING row for exactly its request, alone
(`ClaimOwned`, `ClaimUnique`), and an id without a row was never sent (`NotYetSent`). What the
preflight holds in its hands was in sight when it read it, and `sight` only grows until the next
preflight (`ReadingIsReal`, `NewestGrows`); so a row that is looked up and found was in sight.

### Assumptions

Most assumptions type the constants (`IdentityAssumption`, `FrozenAssumption`, `AIAssumption`,
`CostAssumption`, `LimitAssumption`, `ClockAssumption`, `ScannerAssumption`, `ProfileAssumption`,
`DataAssumption` and the like), or say that a constant that stands for nothing (`NoPosition`,
`NoProposal`, `NoTrade`, `Never`) is none of the values it stands beside. The others say more.

- `TermsAssumption`: entry, stop and quantity are positive, as the protector requires before it
  makes a row, and the initial risk is, as it is with a stop apart from the entry or any cost.
- `GatesAssumption`: a quote's bid is positive and its ask no lower, as the code requires of it.
- `RiskAssumption`: the rates for fee and slippage together are at most the whole price
  (they are 0.055 % and 0.02 % in the code), and the scanner's symbols are finitely many. `MarketAssumption`: so are
  the collector's markets.
- `BrokerAssumption`, `EngineAssumption`: slippage, or slippage and half the spread, leave a
  positive price; the demo has at least one symbol and prices are positive, as `mark_price`
  requires.
- `ListingAssumption`: a listing is a finite table of markets with their numbers.
  `LengthAssumption`: limits and intervals are natural numbers.

TLC evaluates all of them on the runs.

### What the proofs changed in the models

- `PeakIsKept` compared the recorded peak with what the snapshot showed on the terms of the
  entry it was filed under. With three entries of unequal terms in one slot that is another
  position's profit; `best` now follows the position that was read.
- `MultiExchange!TypeOK` did not admit a quantity that rounds down to zero, which the venue
  refuses only when asked; `ProfitProtector!TypeOK` did not say that `rows` covers every entry;
  `AIEntryGates!GatesTypeOK` did not type the closes and the cycle, `SignalScanner!TypeOK` was
  incomplete.
- `GainIsLocked` and `PreflightIsSound` were stated with the code's own watermark and the list
  of all accepted orders; they are now stated with histories of what was really marked and
  visible. `NoGaps` holds of the collector alone, `CounterCoversPosts` up to one request that
  crosses midnight, since a provider's answer may have holes and a request takes time.
- A comment claimed `AtMostOneLateEntry` for any number of workers; it needs one.
- `CoolingDown` picks the last close by a quantifier instead of a filtered sequence.
- A losing run (`losses`) of the scanner is counted over sets of closed candles instead of by a
  recursion, and logs are summed by `SumFunction`.
- `MarketDiscovery!SortedBy` gives each market its place by the number of those above it,
  instead of sorting with a comparison operator; `Scores` are a table.
- `PaperTrading!CloseAll` closes all positions in one step and logs them in any order, as the code's
  dict keeps the order of opening, which no property depends on.
- `Backtest!Enter`: a fill exactly at the stop divides by zero in the code and ends the run
  with an exception, so it has no next state. `MaybeClose` had alternatives that overlapped
  when a candle touches both levels; the stop now comes first by construction, as in
  `resolve_candle_exit`.

### What is only model-checked

Liveness: `UnresolvedFailsClosed`, `ApprovalIsConsumed`, `LostAnswerIsRecovered`,
`CollectorResumes` and `OrphanIsRepaired`. Fairness and ENABLED are out of the prover's reach. With
more than one worker, the five properties of "One worker" do not hold and are neither run nor
proved.

## Not modelled

- Strategy lab, research and statistics: offline numerical work on finished backtests, with
  no protocol and no shared state.
- Indicators and the frozen strategy's rules, prompts, ATR and EMA: inputs of the models, of
  any value of a small set.
- Configuration, start-up checks, HTTP pages, Telegram menus, message texts, request signing:
  static or presentation.
- Migration of the shadow database (`shadow/transfer.py`, warm-up bundle, bootstrap): a
  one-time offline copy, which reads tables one after another and is compared by hashes.
- Trade journal: kept in memory by the application, never read back by a decision.
- `FirstControlledLiveProposalCoordinator`, `emergency_stop`, `cancel_order`: no process of the
  application calls them.
- Interleavings that are named as hazards without a property: two overlapping controlled-live
  workers with two proposals (see "One worker"). Small ones that are left out: a bot that
  dies between the two transactions of an approval, several requests of the gateway that
  overlap a close and a complete new entry in the same slot, two overlapping processes that
  pass the unlocked reads of the discovery row, the in-memory candle history that lacks what an
  overlapping collector saved, limits of the multi-exchange path checked against registered
  positions only.

## Plan

Every component with a protocol of its own is modelled, and every safety and action property of
the passing runs is proved. What is left: an account of what two overlapping workers can still
not do, beyond the two theorems that hold for any number.
