# Verification of the flash-loan swarm

TLA+ models, TLC configurations and TLAPS proofs for this repository: a Python scanner (`zero/`) that looks for
flash-loan arbitrage and liquidations on Arbitrum, block by block, with a swarm of worker threads; an on-chain
executor (`contracts/src/ZeroExecutor.sol`) and its twin for fork replays; and the scripts that trade. Paths below
are relative to the repository.

Each module has a header that says what it abstracts from. `PROJECT.json` maps every definition to the lines it
models and lists the runs, the mutants (for each checked property, a plausible bug of the code that breaks it),
the hazards, the findings and the theorems.

To check a module: `tlc -config WorkAllocator.cfg MCWorkAllocator`. To check its proofs:
`tlapm WorkAllocatorProofs.tla`.

## 1. Inventory

| Component | Source | State it keeps | Operations | Modelled in |
|---|---|---|---|---|
| Route work allocation and leases | `zero/swarm.py` 47-76, 167-203, 352-405, 441-515 | per-worker queues, overflow queue, lease registry; each under a lock of its own | dedupe and deal, `next_route` (own / overflow / steal), `claim`, `release`, `expire_before`, the worker loop | `WorkAllocator` (abstractly `RouteClaims`) |
| Swarm cycle supervisor | `zero/swarm.py` 110-131, 408-440, 518-693, `zero/pnl.py`, `zero/cli.py` 287-367 | one cycle's rows, errors, book, verdicts; the registry that outlives it | `run_block`: pin a block, build a catalog, scan, join, persist, watchlist, verify, evidence, expire; `cmd_swarm`'s loop | `SwarmCycle`, `SwarmService` |
| Catalog builder and its caches | `zero/pnl.py` 91-299, `zero/swarm_batch.py`, `zero/venues/multidex.py` | static market cache, route topology cache, each with a time to live | `_build_catalog`, `_refresh_route_rows`, venue discovery | `CatalogCache` (in `SwarmService`) |
| Runtime status and health | `zero/runtime.py`, `zero/cli.py` 119-160 | the status file and its copy in memory | heartbeat thread, cycle updates, `health` | `RuntimeMonitor` (in `SwarmService`) |
| Adaptive model reserve | `zero/reserve.py`, `zero/pnl.py` 72-89, 301-327 | the frozen reserve in the shared configuration | estimate, freeze, restore | `ForkEvidence` (abstractly `LearnedReserve`) |
| Opportunity scanner | `zero/engine.py`, `zero/route_quote.py`, `zero/strategies/` | none between routes | quote, refine the size, net profit | `RouteScan` |
| Liquidation watchlist | `zero/liquidations.py`, `zero/liquidation_swarm.py` | none between cycles | close factor, collateral, quote, best unwind | `RouteScan`; its order in the cycle in `SwarmCycle` |
| Fork executor and fork replay | `contracts/src/ZeroForkExecutor.sol`, `zero/fork.py`, `zero/fork_cli.py`, `zero/pnl.py` 330-460 | a process and a result file per candidate | encode, replay, classify, read, remove | `ForkEvidence` |
| Ledger | `zero/ledger.py` | SQLite tables | `record`, `record_fork_verification`, schema migration, `fork_economics` | `SwarmCycle`, `ForkEvidence`, `TradeDesk` |
| RPC client and endpoint pool | `zero/rpc.py`, `zero/rpc_pool.py` | a cooldown per endpoint, the endpoint in use | `call`, `eth_call`, failover | `RpcPool` |
| Flash-loan executor contract | `contracts/src/ZeroExecutor.sol` | allowlists, limits, pause flag, the loan in progress, token balances and allowances | owner setters, `run`, `runBalancer`, lender callbacks, steps | `ZeroExecutor` (abstractly `FlashTreasury`) |
| Live executor and trader | `zero/live_executor.py`, `scripts/live_trader.py` | kill switch, gas log, last row seen | `check_gate`, `record_gas_spend`, `build_steps`, `fire` | `HotWallet`, `TradeDesk`; its step plans in `MCZeroExecutor` |
| New-pool sniper, swap watcher | `scripts/newpool_sniper.py`, `scripts/swap_watcher.py` | cursor file; last prices and cooldowns, in memory only | poll logs, evaluate, fire | `TradeDesk`; of the watcher only its use of the wallet |
| Venue adapters | `zero/venues/`, `zero/aave.py` | none | read pools and quotes | discovery in `CatalogCache`; quotes are inputs of `RouteScan` |
| Calldata, keccak, wallet | `zero/calldata.py`, `zero/keccak.py`, `zero/wallet.py` | none | encode, hash, sign | what the encoder demands, in `ForkEvidence` |
| Execution policy | `zero/execution_policy.py` | day, daily loss, failure streak, kill switch | `authorize`, `record_outcome`, `kill` | no caller, see 8 |
| Dashboards, one-shot scripts | `zero/tui.py`, `scripts/` | none | display, deploy, measure | not modelled, see 8 |

### How the parts interact

`cmd_swarm` is one thread, the CEO. It reads the head, pins it, and calls `run_block`. That builds a catalog of
routes, deals it to queues and submits one task per worker to a bounded thread pool. A worker takes a route
(allocator lock), claims it (registry lock), scans it with `eth_call`s through the shared endpoint pool (no
lock), and keeps what it finds in local variables until its future is joined. Everything else runs on the CEO
thread again: writing rows, scanning the watchlist, writing its rows, replaying the book on forks (a second
thread pool, a subprocess each), writing evidence, expiring leases. An exception there leaves `run_block`;
`cmd_swarm` records it, sleeps and begins the next cycle. The lease registry, the endpoint pool and the ledger
outlive a cycle; everything else is local to it. A daemon thread rewrites the status file meanwhile.

The cycle closes a loop over the ledger: what replays missed sets the reserve of the next cycle, the reserve decides
which routes are admitted, and only admitted routes are replayed. The loop passes figures between four number
systems: raw token units, dollars, units of gas, and the floor that is handed to a contract.

Beside the swarm run three processes with one hot wallet. The live trader follows the ledger's rows, the sniper and
the watcher follow the chain's logs. They share files without locks: a kill switch, a gas log.

The executor contract is reached through plans: lists of steps built in Python and executed in Solidity. The
two sides share only conventions about amounts and recipients.

### What is hard, and what makes each part correct

* **Allocation.** Stealing under contention; the gap between taking and claiming; workers that end by an
  exception; fewer threads than workers. Correct: no route is scanned twice under one lease, none is in two
  places or lost, nobody goes home while work he could do is left, and the pool drains.
* **Cycle.** Abandonment half way, the same block again, failed commits, verdicts out of order. Correct: a
  candidate is on record before it is replayed, at most one row per route and block, the report adds up, every
  cycle ends or waits for a replay.
* **Endpoint pool.** Unlocked sharing, a clock read before the request. Correct: an endpoint is passed over only
  for a recent failure of its own, every call ends, an endpoint comes back.
* **Executor.** The lender's callback in the middle of `run`; partial failure; profits that stay in the contract.
  Correct: a run is atomic, costs none of the borrowed asset, touches only allowed tokens, leaves no allowance.
* **Status file.** Two threads rewrite the whole file; cycles hang, writes fail, processes die. Correct: the file says
  what the loop does, counts failures rightly, is renewed while the process lives, and health notices a death.
* **Caches.** Two ages, judged by a clock read once, and faults that are cached with the good. Correct: a fault of
  one build keeps a route out for at most the two times to live together.
* **Evidence loop.** Rounding at each border, a premium the scan leaves out, replays side by side, failures that are
  not evidence, a shared dictionary written for one cycle. Correct: a success has paid for what it was admitted
  with, rows are of their own replay, the reserve moves by execution alone and is put back on every way out.
* **Trading processes.** Unlocked files, a gate looked at once, crashes after sending, cursors written in place.
  Correct: the cap is exceeded by a known amount at most, the kill switch stops all but one transaction each, no
  row is paid for twice, no block is skipped in silence.

## 2. Modules

    RouteClaims  <--implements--  WorkAllocator  <--extends-- SwarmCycle
    FlashTreasury  <--implements--  ZeroExecutor
    RpcPool
    CatalogCache, RuntimeMonitor  <--extends--  SwarmService
    RouteScan  <--extends--  ForkEvidence  --implements-->  LearnedReserve
    HotWallet  <--extends--  TradeDesk

Each composition has an `MC` module with its instances and a `Proofs` module with its theorems. The invariant of the
caches is proved in `CatalogCacheProofs`, which `SwarmServiceProofs` extends.

**RouteClaims** says what the swarm promises about routes: a (block, route) key has at most one owner, only the
owner visits it, once, until the key expires.

**WorkAllocator** is one scan phase after another over one registry. `Dispatch` is the first half of `run_block`'s
scan (`_dedupe_routes`, the `WorkAllocator` constructor, `submit`). `TakeOwn`, `TakeOverflow`, `Steal` and `Return`
are the outcomes of `next_route`, which holds its lock throughout and so is one step. `Claim` and
`SuppressDuplicate` are the outcomes of `claim`. `Scan` is the `try` block of the worker loop, whose effect nobody
sees before the join: no row, an unprofitable row, a profitable row or an error record. `Raise` is an exception of
`next_route` or `claim`, which stand outside that `try` block and lose the worker's results. `Join` is leaving the
executor's `with` block. A deque is filled in catalog order and popped on the left only, so it is modelled as a
set popped at its earliest member. `scans` is a history variable.

**SwarmCycle** adds the CEO's phases, in the code's order, to the allocator: `RunBlock`, the workers, `JoinWorkers`,
`PersistRow`, `PersistError`, `ScanWatchlist`, `RecordLiquidation`, `BeginVerification`, `VerifyOne`,
`CollectVerdicts`, `RecordVerdict`, `FinishCycle`. `LedgerRaises` and `WatchlistRaises` are the exceptions that leave
`run_block`; they undo nothing. A failed commit may leave its row in the open transaction, so a row may land
later. Blocks are visited in any order: the head may stand still, and a failover may show an earlier one.
`rowCount` and `replays` are history variables.

**RpcPool** is `_invoke`: one clock reading, then a walk over the endpoints (`Skip`, `Request`, then `Answered`,
`ApplicationError` or `FailOver`, at the end `GiveUp`). Every read and write of the endpoint table is a step of
its own since there is no lock. Time is relative to the clock, so no bound on the clock is needed and the state
space is finite.

**FlashTreasury** is the contract as its owner sees it: holdings change only by whole runs, a run never costs any
of the asset it borrows, and it touches no token that is not allowed.

**ZeroExecutor** splits a transaction at its external calls: `BeginRun` (guards and `_beginRun`), `Lend` (the lender
pays out and calls back), `ExecuteSwap` and `ExecuteLiquidation` once per step, `FinishBody` (the profit check and
the lender's approval), `Settle` (the lender collects), `EndRun`. `RevertRun` may happen at any point of a
transaction. The owner's setters happen between transactions. Two things in the code are kept as they are:
`runBalancer` clears `viaBalancer` before `_endRun` runs, so `_endRun` always takes back the pool's approval and
never the vault's; and there is no withdrawal, so profits stay. Lenders, routers and tokens are external. They do
what the repository's mocks do, and how much a swap pays or a liquidation moves is open. The mock vault collects
by `transferFrom`.

**MCZeroExecutor** holds the plans: two hops chained inside one router as `zero/calldata.py` builds them, the plans
of `scripts/live_trader.py` `build_steps`, and a liquidation with its unwinding swap.

**CatalogCache** is `_build_catalog`, cut where it reads the chain: `BuildRegistry` (the static cache or a new
registry, and the price refresh), `ReuseTopology` or `DiscoverTopology`, `BuildContext`; `BuildRaises` anywhere. A
cache carries its age; the clock is read once, when the build starts, so an entry is stored with the time the build
has taken already. Strict batches give everything or raise; in tolerant ones a failed member is silently missing. A
venue that raises or misses the deadline is an error, and a topology with errors is not cached. `Window` is the
rotating cap per pair: the block number decides where it starts, so any window may be the one. `hole` and `owed`
are history: how long ago a reply about one watched route was last missing when a build began.

**RuntimeMonitor** is the status file. `Update` is `_update`: the whole status from memory to a temporary file and a
rename, with a new heartbeat, under the monitor's lock, hence one step. The heartbeat thread is three steps, because
its write may raise and is swallowed. `Verdict` is the exit code of `health`.

**SwarmService** is `cmd_swarm`: which statement the loop is at, which exception its `try` catches, which end the
process (a status write in the `except` branch, an interrupt), and systemd's restart. Everything but the file ends
with the process.

**RouteScan** is pure: `Net` (`swarm_expected_net`), `MinProfit`, and the four exact scans. `ScanCycle` has the local
model over the ladder and the exact quote of the best loan; `ScanMultidex` the probe and what follows from it;
`ScanMultihop`; `ScanBorrower` the close factor, the collateral with its rounding and the best unwind. A quote is a
gross profit, a refusal or a transport error. Dollars are counted in a unit of which `Price` make one raw unit, so the
conversions and their rounding are integer arithmetic.

**ForkEvidence** is the loop around it. `RunBlock` estimates the reserve and freezes it, `ScanRoute` admits a
candidate, `BeginVerification` keeps the executable ones, `TakeCandidate` / `Replay` / `Collect` are the pool
thread of one replay with its process, its result file and its classification, `RecordForkVerification` writes rows in
the code's order, and `LeaveBlock` is the `finally` branch that puts the configuration back. `Restart` is a crash at
any point. The ledger holds the rows that `fork_economics` can still return; `Init` has one row of an older schema,
classified as the migration does. A row's `missed` is a history field for the refinement.

**LearnedReserve** says what the reserve is: the least of the newest shortfalls that covers the asked share of them,
within bounds, while a cycle runs; the configured value between cycles. It knows nothing of classes, of reserves
charged before, or of failures.

**HotWallet** is what the trading processes share: `CheckGate`, then `Broadcast`, then the gas log read, emptied and
rewritten in three steps, and an exception or a crash between any two. Two processes may rewrite at once: the later
text covers the earlier one, unless it is shorter, and then the file is no JSON any more (`GarbleGasLog`). What is sent
and what the log may leave out is kept in the history variables `burnt`, `gone`, `slips` and `deceived`, by cause:
`slips` counts a transaction that was never written down, an entry another process writes over because it had read the
file before, and a transaction whose gate had read the emptied file; `gone` is how many had been sent when the log
was lost as a whole, because a process left between emptying and writing it, another read it in between in order to
write it back, or it was garbled. `WalletSpec` lets each process pass the gate whenever it is idle. The look for
`run/KILL` and the reading of the log are one step; a switch between the two has the effect of one after both.

**TradeDesk** has the three loops. The trader begins after the newest row and takes each row once. The sniper takes up
its cursor file or looks back `Warmup` blocks, fetches the ranges up to the head, handles block after block and saves
its cursor in two steps, since it writes the file in place. The watcher keeps nothing that outlives it or that another
process sees, so it is a third user of the wallet: which swaps are worth a trade is left open.

## 3. Runs

| Run | Instance | States | What it shows |
|---|---|---|---|
| `WorkAllocator` | 3 workers, 2 threads, 4 routes, 3 catalogs, 1 block | 313,017 | each property of section 4 for the allocator, and that it implements `RouteClaims` |
| `SwarmCycle` | 2 workers, 2 routes, 1 liquidation, blocks 7 and 8 | about 169,000 | bookkeeping across cycles that succeed, fail and repeat; every cycle ends |
| `SwarmCycleFailedRouteReleased` | 1 block | until the violation | a scan that raised keeps its lease |
| `SwarmCycleLeasesEndWithCycle` | 1 block | until the violation | an abandoned cycle keeps its leases |
| `SwarmCycleReplayedOncePerBlock` | 1 block, replays counted up to 2 | until the violation | two cycles at one block replay a candidate twice |
| `RpcPool` | 2 threads, 2 endpoints, cooldown 2, calls up to 3 | 171,717 | fair treatment of endpoints, end of calls |
| `RpcPoolFailureCools` | the same | until the violation | a slow failure does not cool its endpoint |
| `ZeroExecutor` | 2 tokens, 2 routers, 2 lenders, 2 accounts, 3 plans | 824,604 | the contract's promises, and that it implements `FlashTreasury` |
| `swarm_service` | 2 tokens, 1 pair, 2 venues, times to live 2 and 1, a window of 1 | 719,353 | faults of discovery heal in time; the status file and `health` tell the truth; the heartbeat goes on |
| `fork_evidence` | 4 routes, one of each kind, 3 per cycle; 3 borrowers; 2 replays at a time | 447,210 | the figures agree from the quote to the next reserve, and the loop implements `LearnedReserve` |
| `trade_desk` | 3 processes, a cap of 2; the wallet alone with 5 transactions, and the three loops with 2 blocks, 1 row, 2 transactions | 2,889,625 | how far the cap is exceeded and by what, and what the kill switch stops; no row twice, no block skipped |
| `ZeroExecutorNextHopFunded` | the plan for two Uniswap pools | until the violation | the second hop finds nothing to spend |

### Bounds, and why they are enough

* *Workers and routes.* Three workers are the least at which two share a pair (as two do in the shipped topology)
  and a third lives off stealing; with two threads one of them starts late, so its queue is served by others
  first. Four routes give a shared pair three entries, dealt round-robin to two owners, and one route without
  an owner. The catalogs are out of order, with a duplicate, short, and empty. `MayRaise` names the one worker
  that may die: two would only hide each other.
* *Blocks.* The allocator needs one; the cycle has two, so leases of one block meet the expiry of another in
  both orders.
* *MaxReplays* bounds the counter of the replay history: 2 where replays are counted, 0 where they are not.
* *MaxAge* (the pool) is the longest a call can last, and it exceeds the cooldown as it does in the code (three
  attempts of 10 s against 5 s). A call may therefore begin before a failure and end after the cooldown.
* *Supply* (the contract) is how much of a token it can come to hold: 3 is a loan of 1 while earlier profits are
  present, with room for a premium. It limits TLC only; `Lend` and `Trade` respect it, no property mentions it,
  and the theorems hold for every value.
* *Caches.* The two times to live differ, so each can be the one that still holds the fault when the other has let go;
  a build takes up to one tick, so what it caches is older than it looks. Two venues and a window of one: the
  watched route may be left out by the window as well as by a fault. `Horizon` is the sum of the times to live and
  bounds the history; nothing depends on what is older.
* *MaxAge* of `health` is 1 tick and ages stop at 2. *CycleMod* 2 counts cycles modulo two, enough to see the number
  stand still, advance or fall back; *MaxErrors* 2 tells none, one and more failures apart.
* *Evidence.* A route of each kind, of which a cycle leases any three (*Batch*): so a cycle may replay a Uniswap
  cycle, a mixed-venue route and a liquidation side by side while two may run (*MaxFork*). *Grosses* is no profit
  and a profit above the reserve; the two loans pay premiums of 1 and 2 raw units, so a candidate may or may not
  survive the premium the scan ignores. *GasUsed* lies below and above the modelled gas. A *Lookback* of 3 makes the
  oldest row drop out, *MinSamples* 2 passes from the bootstrap value to the quantile, *Share* 5 (a median) makes
  the quantile differ from both the least and the greatest. The borrowers are covered by half, covered in full with
  too little collateral, and healthy.
* *Trading.* With a *GasCap* of 2 and three processes the bound is 5 before any slip; 5 transactions reach it, and are
  enough for the log to fill up, be overwritten, be lost and fill up again. The loops multiply the states without
  doing anything new to the wallet (`DeskKeepsLimits`), so `MCTradeDesk` gives each behaviour one of two scopes:
  `WalletSpec` with *MaxShots* transactions, or the loops with *DeskShots*, of which two are what paying twice takes.
  One fragile process: exceptions that end a process and ones that do not. Two blocks and a *Warmup* of one: the
  sniper starts at, before and behind the head; one row can be fresh, stale by a block (*Staleness* 0), thin or of the
  wrong shape. *MaxShots*, *MaxHead* and
  *MaxRows* cap counters and nothing else; the theorems hold without them being small.
* *StepLimits* has one legal value below the default of 4 and one illegal; *Premiums* and *Amounts* have zero and
  one.

## 4. Properties

Allocator: `ScannedOnce` (no key scanned twice until its lease expires), `RouteInOnePlace` and `NoRouteDropped`
(every route of the running catalog is in exactly one queue, hand or result), `NothingLeftBehind` (a worker that
returned left nothing it could have taken), `ImplementsRouteClaims`, `WorkRunsOut` (every step of a worker leaves
strictly less ahead of them all, so stealing and suppression never go round in circles), and the liveness properties `PoolDrains` and
`EveryRouteReached` (with stealing on, a worker that dies costs at most the route in its hand).

Cycle: `RecordedBeforeFork`, `RecordedOnce`, `ReportAddsUp`, and the liveness property `CycleEnds`. The allocator's own
invariants carry over, since each step of the cycle is one of the allocator's or leaves it alone.

Pool: `PassedOverOnlyAfterFailure`, and the liveness properties `CallsEnd` and `EndpointComesBack`. `CallsEnd` says
nothing of the reason a call comes back with; that nothing was passed over without one is the first of the three.

Contract: `NoStandingAllowance`, `RunStateClear`, `MinimumProfitKept`, `OnlyAllowedTokensMove`,
`ImplementsTreasury`.

Service: `OutageBounded` (a route that was missed once is back after the two times to live, counted from the start of
the build that missed it), `StatusTellsTruth`, `DeathIsNoticed`, `CycleNumberKept`, and the liveness property
`HeartbeatGoesOn`.

Evidence: `SuccessEarnsReserve` (a recorded success within the modelled gas has earned the reserve it was admitted with
and one raw unit), `RevertIsPremium` (a Uniswap cycle that the quoter confirmed and the fork refuted promised less
than the premium the scan leaves out and one raw unit), `ResultIsOwn`, `OneReservePerCycle`,
`ImplementsLearnedReserve`; the bound on concurrent replays is in `ForkTypeOK`.

Trading: `GasCapOvershoot` (counted since the log was last lost as a whole, transactions sent and about to be sent by
gates that read a true log stay below the cap, one for each process and one for each slip), `KillStopsFiring`,
`RowFiredOnce`, `NothingSkippedSilently` (neither the sniper's cursor nor the one a restart would find passes a block
that was not handled, reported or waived).

### Fairness

* A worker thread that can move does: a task in a thread pool is scheduled when a thread is free, and each RPC
  request has a timeout of 10 s and at most three retries (`zero/rpc.py` 39-61).
* The CEO moves when it can; its database calls are bounded by `busy_timeout` (`zero/ledger.py` 56-57).
* Nothing is assumed of a fork replay: `subprocess.run` has no timeout (`zero/fork_cli.py` 100, 146, 305).
  `CycleEnds` says exactly that: a cycle ends or waits for a replay. The heartbeat thread keeps the status fresh
  meanwhile, so the health command does not notice.
* Of the swarm process only the heartbeat thread is fair: it sleeps for a fixed interval and has no other blocking
  call. A write of the status file may fail, but not for ever (strong fairness of the successful write): a disk that
  stays full is not a fault the code can heal. No cycle need ever end, no process need be restarted.
* Nothing is assumed in `ForkEvidence`, `HotWallet` and `TradeDesk`: their properties are safety.
* The pool's clock advances and a request ends. No fairness is assumed of new calls, of exceptions, or of the
  contract's callers.

One assumption about the environment that is not fairness: the sniper asks one node for the head and another for the
logs (`scripts/newpool_sniper.py` 256, 308), and `FetchPools` takes it that the second knows every block up to the
head of the first. If it lags, it answers with the logs it has, the cursor moves to the head, and the blocks between
are skipped in silence; nothing in the code would notice.

## 5. Where the code and its documents disagree

1. **A failed route keeps its lease.** The design document (2026-09-15, line 174) has it released; the worker loop
   never calls `release`. The route cannot be retried at that block. (`SwarmCycleFailedRouteReleased`)
2. **Leases survive a failed cycle.** "Leases expire at the end of the scan block" (line 111), but `expire_before` is
   reached only if nothing raised. A retry at the same block scans nothing and reports the whole catalog as
   duplicates. (`SwarmCycleLeasesEndWithCycle`)
3. **Replays repeat.** "Duplicate candidates are not fork-verified twice for the same block" (line 183). Nothing makes
   the next cycle wait for a new block, and the last one has just expired its leases.
   (`SwarmCycleReplayedOncePerBlock`)
4. **A slow failure cools nothing.** The cooldown starts at the beginning of the call; a request that times out
   takes longer than the cooldown lasts. The README promises that a failing endpoint cools. The theorem
   `QuickFailuresCool` says when it does: when no call outlasts the cooldown. (`RpcPoolFailureCools`)
5. **A Uniswap plan of the live trader cannot succeed.** Both hops name the router as recipient, but the second one
   spends an amount that must then be in the contract. (`ZeroExecutorNextHopFunded`)

What the models of the evidence loop and of the trading processes met besides. None of these has a violation run:
each is part of a model whose properties hold in spite of it, or a slip in one expression.

6. **The fork pays a premium the scan ignores.** `README.md` 87-98 subtracts an Aave premium from the expected net; the
   code uses zero (`zero/swarm_batch.py` 306-308, `zero/engine.py` 437-438) because the live path borrows from
   Balancer, but `ZeroForkExecutor.sol` 74, 114 borrows from Aave. So a candidate that would succeed live can be
   refuted by its replay, and the refutation raises the reserve. `RevertIsPremium` says by how much the two can
   differ.
7. **Mixed-venue routes are replayed on Uniswap.** The fork payload of every arbitrage is built for SwapRouter02
   (`zero/swarm.py` 571-589), also when a leg was quoted on Sushi. `OnChain` therefore gives such a replay any
   outcome, and `RevertIsPremium` is stated for Uniswap cycles only.
8. **A candidate near the floor leaves no evidence.** `MinProfit` rounds up and adds a raw unit; a candidate whose net is
   positive by less than that is admitted, its payload is refused by the encoder, and no row is written
   (`RejectPayload`).
9. **The reserve can lock itself in.** Rows age out only by newer rows, and with a reserve so high that nothing is
   admitted there are none. `LearnedReserve` shares this: it promises no return.
10. **The notional cap never binds** (`zero/live_executor.py` 49): no caller fills in `notional_usd`.
11. **The watcher's threshold is a hundred times too high** (`scripts/swap_watcher.py` 341): a fee tier in hundredths of
    a basis point is divided by 1e4 and compared with a fraction. Its cooldown is per pool although it is documented per pair
    (55).
12. **A truncated file is read as an empty one**: the gas log (`zero/live_executor.py` 66-75) and the sniper's state.
    The first is why `GasCapOvershoot` counts from the last loss of the log: after it the cap starts anew. The second
    makes the sniper start as if for the first time, and skip what lies further back than its warm-up, which
    `NothingSkippedSilently` counts as waived.

## 6. What is proved

Every theorem holds for all values of the constants that satisfy the modules' assumptions: any number of workers,
routes, blocks, callers, endpoints, tokens, plans and amounts.

| Theorem | Statement | Inductive invariant |
|---|---|---|
| `TypeCorrect` | `AllocSpec => []AllocTypeOK` | `TypeInv`: a busy worker has a block, a claiming one has a route |
| `ScannedOnceHolds` | `AllocSpec => []ScannedOnce` | `LeaseInv`: a free key is unscanned, and a worker about to scan holds the lease of a key nobody has scanned |
| `NothingLeftBehindHolds` | `AllocSpec => []NothingLeftBehind` | itself: while the workers run queues only shrink |
| `RouteInOnePlaceHolds` | `AllocSpec => []RouteInOnePlace` | `Apart`: queues, overflow, hands and results are pairwise disjoint |
| `NoRouteDroppedHolds` | `AllocSpec => []NoRouteDropped` | `Kept`: until the join a listed route is in a queue, the overflow, a hand or what a worker has handled; and nobody carries a route between two tasks |
| `WorkRunsOutHolds` | `AllocSpec => WorkRunsOut /\ []IsFiniteSet(Ahead)` | `Apart`: what a step uses up is nowhere else |
| `ClaimsImplemented` | `AllocSpec => ImplementsRouteClaims` | `LeaseInv`: a step maps to `Lease`, `Visit`, `Expire` or a stutter |
| `SwarmScansOnce` | `Spec => []ScannedOnce` (SwarmCycle) | the allocator's: each step of the cycle is a step of the allocator or leaves it alone (lemma `DrivesAllocator`) |
| `RecordedBeforeForkHolds` | `Spec => []RecordedBeforeFork` | `ForkInv` over `ResultsInv`: profitable routes are among the rows, and the rows are recorded when their phase is over |
| `CycleTypeCorrect` | `Spec => []CycleTypeOK` | `CycleTypeInv` |
| `RecordedOnceHolds` | `Spec => []RecordedOnce` | `RowInv`: a key without a lease has no row, and a route being scanned, joined or persisted has none yet |
| `ReportAddsUpHolds` | `Spec => []ReportAddsUp` | `ReportInv`: each phase carries the part of the sum that is settled by then (`Joined`, `Persisted`, `Verified`); over `AllocInv` and `ResultsInv` |
| `SwarmDropsNoRoute` | `Spec => []NoRouteDropped` (SwarmCycle) | the allocator's, by the same lemma |
| `PoolTypeCorrect` | `PoolSpec => []PoolTypeOK` | `PoolTypeInv`: a waiting call waits for an endpoint |
| `PassedOverHolds` | `PoolSpec => []PassedOverOnlyAfterFailure` | `CooldownBounded`: a cooldown in force is no longer than the time since its failure leaves of it |
| `QuickFailuresCool` | `MaxAge < Cooldown => (PoolSpec => FailureCools)` | `PoolTypeInv` |
| `ExecTypeCorrect` | `ExecSpec => []ExecTypeOK` | `RunInv`: a run has an asset, and a vault if it uses one |
| `RunStateClearHolds` | `ExecSpec => []RunStateClear` | itself |
| `NoStandingAllowanceHolds` | `ExecSpec => []NoStandingAllowance` | `AllowanceInv`: the one allowance there ever is between two steps is the lender's, of what it is owed, before it collects |
| `MinimumProfitKeptHolds` | `ExecSpec => []MinimumProfitKept` | `BalanceInv`: tokens that are not allowed keep their balance, the baseline is the saved balance, and what the contract holds before and after settlement covers it |
| `OnlyAllowedTokensMoveHolds` | `ExecSpec => OnlyAllowedTokensMove` | `BalanceInv`, for the step that undoes a run |
| `TreasuryImplemented` | `ExecSpec => ImplementsTreasury` | all three of the contract's |
| `StatusIsTrue` | `Spec => []StatusTellsTruth` (SwarmService) | the file is the copy in memory once the first status is written, the copy says where the loop is, and the file of a dead process is at least as old as its death |
| `DeathNoticed` | `Spec => []DeathIsNoticed` | the same |
| `CycleNumberIsKept` | `Spec => CycleNumberKept` | the same |
| `FaultsHeal` | `Spec => []OutageBounded` (SwarmService) | `CatalogInv`: how recent a fault must be for the caches and the build under way to lack the route |
| `ServiceTypeCorrect` | `Spec => []ServiceTypeOK` | the types in `ServiceInv` and `CatalogInv`, and that a build in progress belongs to run_block |
| `ForkTypeCorrect` | `Spec => []ForkTypeOK` (ForkEvidence) | `ForkInv` |
| `SuccessCoversReserve` | `Spec => []SuccessEarnsReserve` | `ForkInv`: every candidate is one a scan builds from the frozen reserve, every stage of a replay agrees with its file |
| `RevertsMissedPremium` | `Spec => []RevertIsPremium` | `ForkInv` |
| `RowsAreOwn` | `Spec => []ResultIsOwn` | `ForkInv` |
| `ReserveIsOne` | `Spec => []OneReservePerCycle` | `ForkInv`: inside a cycle, what will be put back is the configured value |
| `LearnsItsReserve` | `Spec => ImplementsLearnedReserve` | `ForkInv`: each row of evidence tells its own miss, whatever its class and reserve |
| `WalletTypeCorrect` | `WalletSpec => []WalletTypeOK` | itself |
| `GasCapHolds` | `WalletSpec => []GasCapOvershoot` | `LogInv`: what the file lacks, unless it is just being rewritten, and what each copy about to be written lacks |
| `KillHolds` | `WalletSpec => []KillStopsFiring` | itself |
| `DeskKeepsLimits` | `Spec => [](WalletTypeOK /\ GasCapOvershoot /\ KillStopsFiring)` (TradeDesk) | by the three above: what the three loops do to the wallet `WalletSpec` allows |
| `RowsFiredOnce` | `Spec => []RowFiredOnce` | rows the trader has not reached have no transaction, and while it is armed the row it is at has none |
| `NothingSkipped` | `Spec => []NothingSkippedSilently` | while a range is handled, what is no longer queued has been told |

The arguments for the invariants that are not obvious:

* `ScannedOnce` is not inductive. That a worker in "scan" is the only one with its key rests on the lease it took in
  an earlier step, and that the key is unscanned rests on the lease having been free.
* `RecordedOnce` has to survive abandonment. The row of an abandoned cycle may still land, but then the lease of
  its key is still taken, and only `FinishCycle` frees it, which forgets the rows of the same keys.
* `NoRouteDropped` stands or falls with the deal. The code deals route number i to worker i modulo their number, so
  each remainder has to be some worker's rank: in a set of n numbers every j < n is the count of those below one of
  them (`RankExists`, from the least element at which more than j are counted). From then on each step moves a
  route from one place to another, and only the join forgets where they were.
* `ReportAddsUp` relates counts taken at the join to sets that three later phases fill. Its last part needs the
  allocator: when everybody returned, with stealing on, queues and hands are empty (`NothingLeftBehind`, `Kept`), what
  two workers handled is disjoint (`Apart`), and nobody counts a route both as scanned and as a duplicate
  (`CountedOnce`); so the two counts add up to the catalog (`AllAccounted`).
* `OutageBounded` is an argument about ages. `hole` is the age of the last fault. A static cache that lacks the token and
  is still fresh was filled at that fault or after an earlier one, so `hole` is at most its age (`StaticInv`); a
  registry without the token makes `hole` at most `StaticTTL` and the time the build has taken (`RegistryInv`); a
  topology without the route makes it at most `StaticTTL` and the topology's age (`TopologyInv`). A build owes the
  route only if `hole` has reached `StaticTTL + TopologyTTL` (`OwedInv`), so the registry has the token and a topology
  without the route is out of date by the clock of this build: it is discovered anew, and a window that is full still
  holds a route of the pair (`WindowServes`, which counts, so `Listed` is assumed finite). Builds may take any time, fail anywhere, and be killed.
* `NoStandingAllowance` holds for the vault although `_endRun` never takes its approval back: the vault collects
  exactly the amount approved.
* `SuccessEarnsReserve` passes four borders. The floor handed to the contract is the ceiling of gas and reserve in raw
  units, plus one, so in dollars it is at least gas + reserve + one unit (`MinProfitType`). The contract compares
  what is left after Aave's premium with it. What is read back is that amount times the price, less the modelled
  gas scaled by the gas used, which is at most the modelled gas (`FloorInDollars`).
* `RevertIsPremium` is the converse with the other half of the rounding: what the encoder accepted and the chain refused
  lies between the floor and the floor plus the premium, and the floor is less than two raw units above gas and
  reserve (`MissedByPremium`).
* `ImplementsLearnedReserve` needs the sample quantile for a sample of any length: that the least value that enough of
  the sample do not exceed exists and is exceeded from below by fewer (`QuantileExists`, from well-founded
  induction on the naturals and the cardinality of finite sets), that `Smallest` at the rank the code computes is
  this value (`QuantileCovers`), and that the code's several cases of an adverse sample all give the shortfall of the
  promise made before any reserve (`RevertTells`, `SuccessTells`).
* `GasCapOvershoot` rests on two statements of the same form: the file, unless it is empty because somebody is about to
  write it, and the copy of each process that has read it and not written it, lack no more than the transactions
  that are on their way to the log and the slips (`LogTold`, `CopiesTold`). A rewriting makes the file what the copy was
  and one entry more; whoever still holds an older copy lacks that entry, and the slip pays for it. So a gate that
  reads a true log knows of all but those on their way, who are other processes than those armed.

### Model-checked only

Every invariant, action property and refinement that a run checks is also proved. What is left to TLC:
`PoolDrains`, `EveryRouteReached`, `CycleEnds`, `CallsEnd`, `EndpointComesBack` and `HeartbeatGoesOn` are liveness
properties under fairness, out of the prover's reach. `WorkRunsOutHolds` is the part of `PoolDrains` that needs no
fairness: at most three steps per route and two per worker lie ahead of a phase, however workers steal from and suppress each
other, so it can only fail to drain by standing still. The five disagreements with a run are counterexamples.

## 7. Plan

What is left, by what it would add:

1. **RpcClient** under the pool: attempts, backoff and batch splitting, in place of `RpcPool`'s bound on a request.
2. **One composition of `SwarmCycle`, `SwarmService` and `ForkEvidence`** by refinement, now that each has the others'
   part as a step: `FinishBlock` of the service by `SwarmCycle`'s phases, `VerifyOne` by the life of a replay.
3. **Execution policy**, as soon as something calls it.

## 8. Not modelled, and why

* `zero/execution_policy.py`: nothing but its own tests creates an `ExecutionPolicy`, so there is no order of calls to
  be faithful to. Its daily loss, streak and switch are a small sequential program.
* `zero/keccak.py`, `zero/wallet.py` and the bytes of `zero/calldata.py`: encoding, hashing, signing. They hold no state.
  What calldata decides for two hops is in `MCZeroExecutor`, what it refuses in `ForkEvidence`.
* `zero/tui.py`, `zero/tui_data.py`, deployment and measurement scripts: read-only, or run once by hand.
* The legacy scan (`scan_arbitrage`, `sweep_sizes`, `run_once`, `zero/gate.py`): the swarm does not use it.
* `AnvilFork`, `build_status` and the manual fork commands: tools for the operator, outside the cycle.
* Quotes and positions: addresses, fee tiers, tick ranges and ABI words are contract reads behind RPC calls. What they
  may answer is an input of `RouteScan`. Stragglers of a venue discovery that ran into its deadline keep running in
  their pool threads but write only to futures nobody reads.
* Three-hop cycles in `CatalogCache`: they are derived from the rows of the same build and keep no state.
* `RouteLeaseRegistry.release` and `RuntimeMonitor.set_kill_state` are called by unit tests and nothing else in the
  swarm process, so they are not actions.
* In `RpcPool`, an endpoint's own retries (`zero/rpc.py`): a request is one step that ends within `MaxAge`.
* Nonces of the hot wallet: two processes may read the same pending nonce, and the node refuses one of the two
  transactions or replaces the other. The refusal is `FireRaises` or a `Broadcast` without an answer; which of two
  signed transactions survives is not decided by this code. The watcher's own block cursor is lost at every restart, and nothing ever looks for
  the swaps it missed.
* In `HotWallet`, the expiry of entries older than 24 hours: the modelled time lies within a day.
* In `ZeroExecutor`, byte formats, deadlines and zero addresses: they only make a call revert, and a call may revert
  anywhere. The real Balancer vault checks its own balance instead of pulling the debt; the contract only
  approves, and the model follows the repository's mock.
