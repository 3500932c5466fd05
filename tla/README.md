# Formal model of the loggaper trading bot

The bot listens to new tokens of the pump.fun launchpad, scores them, buys a few
with one or several wallets and manages every position until it is sold. This
directory holds TLA+ modules of its control logic, the TLC configurations that
check them on small instances, and TLAPS proofs for all instances.

## 1. The system

| Component | Source (under `src/src/`) | State | Operations | Talks to |
|---|---|---|---|---|
| Feed | `feed/` | dedup window, reconnect state | subscribe, reconnect, deliver logs | create pipeline, launchpad |
| Launchpad | `launchpads/`, `pipelines/pump.rs`, `trading/` | pools, token buckets, holdings | create, trade, query | pipeline, manager (`UpdateTokenBucket`) |
| Create pipeline | `main.rs`, `pipeline/score_buy.rs`, `scoring/` | none of its own (one task per Create) | gates, scoring, size | manager (`InitiateBuy`) |
| Fresh watchlist | `pipeline/fresh_watchlist.rs` | `active` (mutex), `running` (atomic) | `try_add`, poll, leave | create pipeline |
| Position manager | `autobuy/manager.rs` | rows, pending sets, closed mints, pool cache, pause | one handler per `PositionMessage` | brokers, strategy, wallets |
| Strategy controller | `scoring/strategy_controller.rs` | day counters, streak, pause, outcome window | `can_open`, `note_position_opened`, `note_position_closed` | manager |
| Exit ladder | `manager.rs` `process_positions`, `autobuy/exit_engine.rs` | per-row flags, floor, streaks, phase | one pass per tick | manager |
| Curve quarantine | `autobuy/curve_quarantine.rs` | expiry per mint | insert, is_active, prune | manager |
| Wallet registry | `autobuy/wallet_registry.rs` | enabled flag, size, balance per wallet | patch, enumerate | manager, HTTP |
| Brokers | `autobuy/pump_brocker.rs`, `jupiter_sell.rs`, `broker_mock.rs` | holdings, blockhash, the transaction in flight | `buy`, `sell`, `forget_position` | Solana RPC, Jupiter |
| Dev blacklist | `autobuy/dev_blacklist.rs`, `persistence/postgres/dev_blacklist.rs` | rows with an expiry | classify, insert, look up | manager, pipeline |
| Dev ranker, smart money | `scoring/dev_ranker.rs`, `scoring/smart_money.rs` | a map, a dirty bit, a JSON file | note an outcome, flush, load | manager, pipeline |
| Learning engine | `learning/` | patch in use, patch file, trade count of the last round | record, optimise, merge | manager, scoring |
| Persistence | `persistence/`, `setup/waiter.rs` | bounded write queue, batch, waiters | enqueue, flush, wait for a coin | everyone |

What is hard here: the manager is a single task, but it spawns a fan-out task per
signal, a task per `broker.buy`, and a delayed task per sell, and their messages
come back in any order; the operator pauses, reconfigures and abandons at any time;
wall-clock midnights and pauses cut through handlers; the watchlist changes an
atomic outside the lock that guards the set it belongs to; the RPC loses sends, hides
deliveries and misreports confirmations; the subscription ends, falls silent and delivers
again; the process dies between two writes of a file. `PROJECT.json` lists each hazard
at its line.

Correctness, component by component: no tokens without a row that will sell them
(manager); a row is never blocked without a sell on its way (manager); closed mints
stay closed once drained (manager); limits hold per UTC day and per pause
(strategy); exits are confirmed, ordered and keep the locked profit (exit ladder); the
watchlist neither leaks slots nor watches a mint twice (watchlist); a call trades once
and its answer agrees with the chain (broker); a launch is bought only through the lane
and the gates of its dev (create pipeline); holdings equal the
chain's, and every trade ends in one place (feed, launchpad, write queue); what is on
file survives, no ban goes missing, and learned thresholds stay in bounds (registries).

## 2. Modules

* `PositionManager` — the actor. State: the rows and their flags, `pending_mints`,
  `pending_wallet_buys`, `closed_mints`, `pool_cache`, quarantine, pause, enabled
  wallets, plus the messages still to come from spawned tasks (`fanout`,
  `buysInFlight`, `fullSells`, `partialSells`). `lots`, `traded` and
  `outlived` (mints that gave their slot back while buys of theirs still ran) are history
  variables. One action per handler; the branches of `BuyCompleted` and
  `ExecuteSell` are actions of their own. What a tick decides depends on prices and is
  a choice among the decisions `process_positions` can take. Assumption: the
  configured take-profit sells are below 100 percent (a 100 percent take-profit would
  close through the partial path), as in `filter_config.yaml`.
* `PositionLifecycle` — what a row promises: flat, buying, held, exiting.
  `PositionManagerRefinement` maps the actor's maps to it.
* `StrategyController` — the risk gate on a clock that may advance between any two
  calls, also between `can_open` and `note_position_opened`. SOL amounts are integers,
  the regime ratio is a percentage. `opens`, `realised` and `closes` are the ledger
  the counters are compared with.
* `FreshWatchlist` — concurrent Create tasks; each lock section and each atomic
  operation is one step.
* `ExitLadder` — one position under `process_positions`: the window of market caps and
  its median filter, the streaks, the rungs in their order (decay, time kill, crash, stop
  loss, ceiling, trailing, take-profits) and what each does to floor, trailing and
  triggers. Market caps are percentages of the entry; one above `McapMax` (`EXIT_MCAP_ABS_MAX`) or of
  zero is not a sample. A row opens with one or two
  samples of the entry, as `apply_buy_result` seeds it with or without the market cap of
  the fill. The parameters of profile and phase, the decay verdict, the time-kill window
  and the trailing width are inputs of a tick, so every order of profile and phase
  changes is covered; the exit engine is taken to be enabled. Sells end as in
  `PositionManager`. `exit`, `lowRun`, `lockRun` and `tape` are history. It stands beside
  `PositionManager`, whose tick leaves the choice of rung open.
* `Broker` — `SolanaBroker` for one mint and one wallet: building, sending and resending a
  transaction, awaiting it, reading the token account, sizing and clamping a sell, the
  pump route, the Jupiter fallback with slippage steps and chunks, the drain legs and the
  account close. The network is the environment: a send that reports an error may have
  arrived, a status poll may fail, a transaction seen `processed` may be dropped. Each such
  answer is a fault, `MaxFaults` of them. A fill that is not seen on the account is estimated:
  by `min_token_out` on the curve (`FillFloored`), which the program guarantees, by the
  quote's `outAmount` on Jupiter (`FillQuoted`, any of `Quotes`), which may be above the
  fill. `calls` is the history of what a call asked for
  and moved, with a flag for each reason that excuses a difference.
* `EntryScoring` — the pure half of the entry decision: features of the early tape, score,
  tiers, anti-rug and anti-bundle gates, sizes, defaults of the configuration, and the merge
  of learned thresholds. No state. Winrates are compared as fractions. Every sample of a poll
  is answered: the launchpad never removes a bucket, so `fetch_live_bucket` has one for
  every mint that is scored.
* `CreatePipeline` extends it with the task of one Create: blacklist, spam test,
  creator statistics with their cache, watchlist, scoring, live gates, confirmation poll,
  second look, recheck, `InitiateBuy`. Beside it the coin is saved and the dev launches
  again. Tapes, devs and configurations are inputs, whole records at a time. The market moves
  before every sample of a poll and during the wait before a recheck; buyers add up, so
  that a recheck starts from the buyers and the market cap the first poll has left.
* `LogsFeed` — the subscription, the watchdog on useful events and the bounded memory of
  signatures (`SelfDedup`). `TradeLedger` composes with it: the consumer and the launchpad's
  holdings, the tasks that persist a trade once its coin is saved, the bounded write queue,
  its worker and its batches. A transaction is its position in `chain`; `applied`,
  `lost`, `evicted` and `gone` are history.
* `Registries` — what is remembered of closed trades: the two registry actors with
  their flush through a temporary file, the blacklist rows, the recorded trades, and the learning
  engine's rounds. `CrashRestart` may happen between any two steps, also inside a save;
  it loses tasks and maps and keeps files and rows. `lost` is the history of bans whose insert
  failed or died with the process.
* `...Proofs` — the TLAPS proofs. `MC...` — instances for TLC.

Operators named in comments as "Variant" are mutated forms of the operator that
follows them; the mutants in `PROJECT.json` use them to show that each property can
fail.

## 3. Runs

| Run | Instance | Distinct states | Shows |
|---|---|---|---|
| `pm_copytrade` | 2 mints, 2 wallets, no trigger, cap 1, 1 signal | 171 k | all copy-trade interleavings of two wallets on two mints that compete for one slot: the cap is exact but for outlived buys; each row implements `PositionLifecycle` |
| `pm_resignal` | 1 mint, 1 wallet, 2 triggers, 3 signals, fair | 135 k | what survives repeated signals; flags resolve and pending mints clear |
| `strategy` | days of 3 s, 7 s of clock, window 3, streak 2, at most 4 closes | 623 k | budgets, caps and pauses across two midnights |
| `watchlist` | 3 Create events, 2 mints, cap 2, 2 polls, fair | 33 k | set and counter stay exact, slots come back |
| `ladder` | 5 prices, 2 profiles, window 3, stop loss after 2 ticks, 3 s, 1 failed sell | 530 k | take-profits in order, the profit lock is enforced, stop losses are confirmed, single odd ticks close nothing |
| `broker` | 2 calls, 1 fault, 2 sends, 2 chunks, 2 drain legs, quotes below and above the fill, fair | 233 k | no call trades twice without a named reason, row and account agree, full exits empty the account, calls return |
| `entry` | 4 configurations, 5 devs, 2 launches | 193 k | the lanes of known, spam and fresh devs, a second look that cannot refuse, a reprieve that is never given |
| `ledger` | 3 mints (one unsupported, one filtered), 1 trader, 3 transactions, 1 redelivery, memory of 2, queue of 1, fair | 475 k | applied once, holdings exact, coin before trade, every trade in one place, feed and tasks recover |
| `registries` | 1 dev, 1 wallet, 2 closes, 2 faults, 2 s, fair | 240 k | every ban is accounted for, thresholds stay sane, history survives crashes, updates are saved |
| `pm_dupbuy` | 1 mint, 1 wallet, 2 signals | | **violated**: a wallet can have two buys of a mint running |
| `broker_phantom` | as `broker` | | **violated**: a full sell reported failed leaves a row over a closed account |
| `learning_restart` | 1 fault, 1 s | | **violated**: after a restart the optimiser runs without a new trade |

The violations are sentences of the source that the code does not keep; each is explained
under "findings" in `PROJECT.json`. Further statements of the repository that the models
refute are kept in the modules as definitions; TLC shows each one violated when the cfg
named here lists it in place of its properties:

| Definition | cfg | Why it fails |
|---|---|---|
| `MaxOpenHardCap` (`PositionManager`) | `pm_copytrade` | `max_open_positions` is tested at the signal; two mints whose fills are on their way pass it together |
| `ClosedNeverReentered` | `pm_copytrade` | the second wallet's fill arrives after the first one's row closed the mint |
| `OnePartialSellQueued`, `OneFullSellQueued` | `pm_copytrade`, 1 mint, 1 wallet, 2 triggers | one failing sell clears the flag that another one, still queued, relies on |
| `SlAlwaysConfirmed` (`ExitLadder`) | `ladder` | a failed sell keeps the streak: one more tick fires the stop loss |
| `GlitchTolerated` | `ladder` | the upper median of two samples is the larger one: a spike on the first tick after an opening without fill market cap counts |
| `FreshMeansFirst` (`CreatePipeline`) | `entry` | the creator-stats cache still says "no history" at the dev's second launch |

Bounds. `MaxSignals` bounds the InitiateBuy messages per mint: one is what the
pipeline sends for one Create, two reach the duplicate-buy race, three let a mint be
bought, closed and signalled again. `MaxTime`, `MaxRows` and `MaxCloses` end the
strategy's history after two midnights and twice the streak limit, enough for a
streak, a win that resets it and a regime window that overlaps both. `MaxPolls` is
`max_wait_ms / poll_interval_ms`. Mints interact only through `max_open_positions`:
two of them and a cap of one (`pm_copytrade`) reach a signal that is refused for want of
a slot, one that takes a slot another mint has given back, and the late fill that
overruns the cap. Triggers matter to the flags of a row only, so they are left to
`pm_resignal`.

Some properties state a limit of the code rather than a merit. `CapExact` says by how much
`max_open_positions` is missed: by mints whose `broker.buy` outlives its fan-out, and by no
others. `SecondLookBlind` says that the second look refuses no launch whose first poll was
cut for selling or for its pace: those cuts come after the check on new buyers, and the recheck counts
buyers from the same baseline, so the buyers of the first poll pass for new demand. The
comment of `evaluate_continuation_second_look` (features.rs:607) reads "Skip if mcap keeps
falling with no demand"; for these launches it never does. `NoPeakReprieve` says that
the reprieve of the anti-parabolic gate is out of reach under the default sample counts.

The prices of `ladder` are one below the stop loss, one per step of interest above
the entry (35 is under the lock of the staircase and over the trailing stop of a runner,
105 is over the ceiling and three take-profits) and zero for a pool without market cap.
Seconds 0, 1 and 2 are in the grace periods, after them but early, and past the time kill;
`KillWindows` has one window that ends and one that does not. The window of three
samples and the two confirming ticks stand for the default five and three.

Two calls of `broker` are a buy and a sell of what it bought, or a
partial sell after an entry; one fault makes any single answer of the RPC wrong, and
`Fill = 2` lets a sell be clamped, halved and chunked. A larger instance (2 calls and 2 faults,
1.5 M states) shows nothing new. The devs and tapes of
`entry` are one per lane and per gate that can refuse it: `MCCreatePipeline` lists them.
Three transactions of `ledger` are a create, a buy and a sell of one mint or a create
and a trade beside an unsupported or filtered mint; a memory of two signatures is overrun by
the third or by junk, a queue of one is full when a second trade comes. With 2 mints and a queue of two
(611 k states) the result is the same. In `registries` two closes reach two rounds of the
optimiser, two faults a crash inside a save and a read that fails; with two old patches and
3 s (1.10 M states) the result is the same.

Deadlock is not checked in `entry`, `ledger`, `registries` and `learning_restart`: a
behaviour ends when its launches, transactions or closes are used up.

Fairness. `PositionManager!Fairness` says that a spawned task finishes (its delay
elapses, its broker call returns or times out) and that the actor takes the message:
tokio runs every ready task, the channel is drained by a loop without other waits
than bounded broker calls. Nothing is assumed of signals, ticks or the operator.
`FreshWatchlist!FairSpec` says that each task keeps being scheduled; the number of
polls is bounded by the deadline. `Broker!FairSpec`: every await of a call returns, since RPC
requests have timeouts; nothing is assumed of the network. `LogsFeed!FeedFairness`: the loop runs,
its timer fires and an attempt to subscribe succeeds in the end; the provider owes
nothing. `TradeLedger!FairSpec` adds that consumer, tasks and worker run.
`Registries!FairSpec`: spawned tasks run and the flush ticker of an actor fires again;
crashes and failures are bounded by `MaxFaults`, closes and time are not fair.

## 4. Proofs

All theorems hold for any constants that satisfy the named assumptions.

* `PositionManagerProofs`: `TypeOK`, `FlagsBacked`, `PendingCoversFanout`
  (`pending_mints` covers the fan-out window, a step of the proofs), `WalletBuysRunning` and
  `QuarantineSubsumed` are proved by induction over the actions; the action properties
  follow from them. `CapExact` needs `BuysCovered`: a running buy belongs to a mint that is
  pending or outlived, so a fill never adds a mint to those the cap counts. `FillsTracked` is not inductive:
  it needs `SingleTripInv`, which says that with one signal per mint a
  wallet's purchase is in exactly one of the stages not signalled, in the fan-out, at the broker, open or
  done, so that a second fill of a key is impossible. `Refinement` rests on it too: with
  `MaxSignals = 1` every step moves every row by at most one move of `PositionLifecycle`.
* `StrategyControllerProofs`: `CountersMatchLedger` relates the counters to the
  ledger of their day and carries `DailyBudget` and `DayLimitsHonoured`; `PauseInv`
  strengthens the pause properties: the streak counter is the run of losses that ends
  the list of closes, and `pausedUntil` covers every completed streak not yet over.
  `PauseNeverShortened` is conditional on the streak pause being at least as long as
  the regime pause: the streak assigns its pause where the regime takes a maximum.
* `FreshWatchlistProofs`: `ActiveExact` and `RunningExact` for any number of tasks.

* `ExitLadderProofs`: `LadderInv` has, beside the types, `SellCounts` (a second sell of a
  kind is queued only after a failure cleared the flag), `LowCounted` (until a sell fails the
  stop-loss streak has counted nothing but a run of low ticks) and `LockCounted` (the streak
  has counted every tick at or below the locked profit). The last one needs that the floor a
  tick works with is never below what the peak has locked, hence the assumptions that a
  trailing floor is not below `StartFloor` and that the staircase is finite; `TpInOrder`
  needs the take-profits of a profile in ascending order. `filter_config.yaml` satisfies
  them. `LateGlitchesTolerated` has an invariant of its own, `GlitchInv` (after at most one
  odd tick the row is as it was opened, but for a streak of one), a lemma that a window
  always has a median, and one that a window of at least three samples, all but one
  of them at the entry level, has the entry as its median. `CalmAssumption` says that the entry level
  itself fires nothing and that a stop loss takes two ticks.
* `RegistriesProofs`: `RegInv` with `FilesBehind` (a file is always whole, and that of a
  registry no start failed to read is no further than the map) and `BansKept` (a close that calls for a
  ban has its row in the table, its task on the way, or is among the lost, through inserts,
  failures and crashes of every other task). `LearnedThresholdsSane` rests on `MergeKeepsOrder`: for
  every base whose thresholds are ordered and every patch, the merged thresholds are
  ordered and near the base (a patch leaves `smart_1plus` unset or sets it to at least one).
* `TradeLedgerProofs`: `DedupInv` (a signature not forgotten is applied or waits for the
  consumer at most once, and is then remembered), `CoinInv` (what is in queue and batch has
  its coin announced) and `PlaceInv` (each application of a trade has exactly one place,
  queued ops are distinct, tasks are one per application). Junk signatures are assumed
  distinct from transactions'. `HoldingsExact` has the deepest invariant, `HoldInv`: the
  bucket of an undisturbed mint stands for a prefix of the chain (`Upto`), because the
  transactions of the mint that are not applied yet are in the queue and the stream in the
  order of the chain, whatever is redelivered, dropped as known or forwarded in between
  (`Flow`, with one lemma for each thing a queue can undergo); and the chain itself creates a
  mint once, before its trades, and never lets a holding go below zero (`ChainInv`).
  `ChainHolds` is recursive: that it obeys its equation is proved with a least
  counterexample, since the induction theorems of the library cannot be instantiated.
* `BrokerProofs`: `CallInv` fits the running call to its entry in the ledger and says for
  each place of the call which of its fields mean something (`Shape`); `OnceInv` says that
  a call without an excuse has at most one transaction in flight and sends another only
  once the one before is known to have failed; `ExitInv` that a full exit that nothing has cut short will
  sell the balance it read, the chunks that are left covering what is left (`Covered`).
  Fresh transaction names exist by a pigeonhole argument.
  `InSync` needs a second invariant on top, `SyncInv`, which holds while no call is `lied`,
  `short`, `unsure` or `quoted` (`Clean`): the only buy is in flight while the account does not exist
  yet (`ChainSync`, `BuySync`); until a full exit has a confirmed leg, at most one
  transaction of a sell may still land, the leg it waits for or confirms (`FlightSync`); the
  balance a partial sell is confirmed against is not above what the account held before that leg,
  so that the poll cannot be satisfied by an earlier chunk, and what has landed and what its
  chunks still ask for is at most `want` (`Ahead`); the row's holdings less what has landed
  are backed by the account or by the buy in flight (`RowSync`). A transaction that has
  landed and is not confirmed yet is accounted for by `Shift`.
* `CreatePipelineProofs`: `PipelineInv` says what is settled at each stage: what stage 1
  knows of the dev, the lane once the score is passed (`InLane`), the parabolic verdict through
  a recheck (`PeakInv`), and that a recheck after a cut past the check on new buyers opens on
  more buyers than the baseline (`LookInv`). The deferral of the A+ peak guard never happens
  behind the A+ rug gate (`PeakGuardIdle`, a step of the proof). The features are
  computed by recursive definitions (the sum over a crowd, the samples of a poll); that
  these have the values their equations say is proved with a least counterexample as
  well. Configurations are typed
  (`ConfigOK`), a poll takes at least one sample, and the ranker never gives the category `Fresh`,
  which only the pipeline assigns.

All type invariants are among the theorems; those that no run lists are proved only.

Liveness (`FlagsResolve`, `PendingClears`, `SlotsReturn`, `CallReturns`, `FeedRecovers`,
`TasksEnd`, `SavedEventually`) is model-checked only: fairness and ENABLED are out of the
prover's reach.

## 5. Not modelled, and the plan

Not modelled:

* the phase machine, the live score and the flush tracking of the exit engine: `ExitLadder` takes
  their results as inputs of a tick, so its properties hold for every order of them, but
  nothing is said about when they occur;
* in the broker: the cached SOL balance, receipts in SOL, priority fees, the mock broker;
* post-exit and performance trackers: measurements that nothing reads back;
* the backoff of a reconnect (its sleep is not timed), feed metrics, the stall logger;
* prices on the bonding curve, cost bases, trader roles; the volume multiplier of a learned patch;
* read-only SQL and HTTP queries (I/O), parsing of the configuration, the dashboard
  (presentation), instruction encoders (byte layouts), scripts.

Every safety property that a passing run checks is a theorem. Worth proving next are the
step properties behind the liveness ones: that every step of a running broker call lowers a
measure of its chunks, slippage steps, attempts and drain legs (`CallReturns`), and
that a step which clears a pending flag is never undone by the task that raised it
(`PendingClears`, `SlotsReturn`).
