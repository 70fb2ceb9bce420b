# alphaTrade in TLA+

Models of alphaTrade, the trading bot in `src/alphaTrade`: TLA+ modules for the parts that decide
what is bought, sold, protected and deployed, TLC runs that check them on small instances, and
TLAPS proofs of the theorems that hold for every instance. The models are written from the code;
where a document says something else of the program, a run shows what the code does
(see "Where code and documents disagree").

Reading order: `Orders`, `OrderQueue`, then `TradingState`, `OcoMonitor`, `OrderExecution`,
`TradingCore`, `TradingSafety` (how orders live); `BotSettings`, `Retirement`, `Alerting`, `Desk`
(what surrounds them: settings, retirement of models, alerts); `BacktestEngine`, `BacktestState`,
`BacktestRuns`, `BacktestSchedule`, `BarClose`, `EventLoop` (backtests and time); `ModelSync`.
`EndpointThrottle` and `T212Client` stand alone. A module with the suffix `Proofs` holds the theorems
about the module it is named after: first the invariant, at its end the theorems.

## 1. Inventory of the system

One process runs an asyncio event loop, a web API and a few worker threads. Its shared state is a
SQL database, the directory `models_dir`, and the account at the exchange (Trading 212, "T212").

| Component | State it keeps | Operations | Talks to |
|---|---|---|---|
| Order queue (`broker/async_broker.py`, `order_queue.py`) | heap, eviction marks, `_active`, event, mirror, `_seen`, `_seq` | `enqueue`, `get`, drain loop, `start_drain`, `stop_drain` | ticks put in, the drain task takes out |
| Order execution (`AsyncBroker._process_one`, `main._on_order_fill`) | the order in hand; rows of `order`, `position`, `tradejournal` | stale check, market order, fill poll, two legs, callback | T212, database, starts and cancels monitors |
| OCO monitor (`broker/oco_monitor.py`) | one task per bracket, `_oco_task_by_ticker` | poll two legs, `_close_position`, `_cancel_leg` | T212, database |
| Tick, gates, kill switch, start-up (`main.py`, `risk/gates.py`, `kill_switch.py`) | tick tasks, sentinel file | `tick`, `run_gates`, `halt`/`resume`, `reconcile_positions`, re-attachment | queue, database, T212 |
| Repositories (`store/repos.py`) | 20 tables | `upsert`, `remove`, `update_fill`, ... | everything |
| Throttle (`broker/throttle.py`) | one lock, `_last_call` per endpoint | `acquire` | drain task, ticks |
| T212 client (`broker/t212_client.py`) | none between calls | `_get`, `_post`, `_delete`, retries | T212 |
| Model sync (`store/model_sync.py`) | staging, copy and model directories, `.sync` record, failure counts | poll, `model.ready` listener, `_promote`, `_permanently_fail` | MLflow, MinIO, Redis, deployments |
| Registry (`model_registry.py`, `main.scan_models`) | `by_run_name` | `refresh` | `models_dir`, overrides |
| Model API (`api/routers/models.py`) | aliases, deployments, overrides, adoptions | promote, retry, demote, delete, fork, adopt | MLflow, files, database |
| Retirement (`risk/performance.py`, `api/routers/retirement.py`) | `model_performance` rows: window, counters, flag | `record_trade`, `check_retirement`, un-retire, configuration | fill callback, monitors, API threads, settings |
| Bar-close scheduler (`scheduler/bar_close.py`) | one loop per interval | `next_bar_close`, `is_market_open`, `schedule_bar_close` | ticks |
| Backtest engine (`backtest/engine.py`) | simulated position and trades of one model | `run_backtest`, `_run_single_model` with and without bracket delay | providers, database |
| Backtest scheduler and API (`scheduler/backtest_scheduler.py`, `api/routers/backtest.py`) | run rows, jobs, `overrides.yaml` | trigger, nightly job, reset at start-up, schedule changes, job rebuild | event loop, API threads, file |
| Settings and overrides (`config.py`, `api/routers/settings.py`) | the file, the row of `bot_settings`, the object in memory | `apply_bot_settings`, PATCH of settings and retirement, start-up | every tick, API |
| Alerts (`notify/alerting.py`) | bounded queue, worker thread | `notify`, `_dispatch`, `shutdown` | ticks, fill callback, Slack, e-mail |
| Sector gates, sizing, consensus (`risk/`, `consensus/`) | none (pure) | caps, sizes, softmax average | tick |
| Webhook, stream bus, health (`notify/webhook.py`, `api/stream_bus.py`, `health.py`) | a rate window, subscribers, time of the last tick | `notify`, `publish`, `/healthz` | everything |

What is hard here, by kind (each with its source line in `PROJECT.json`, "hazards"):

* *Interleaving.* The fill callback awaits in its middle, monitors read two legs at two times, the
  gates read a database that queued orders have not reached yet, two daemon threads share a
  staging directory, and the registry reads a directory that is being exchanged. API threads
  change settings, rows and scheduled jobs between any two statements of the event loop.
* *Partial failure and lost answers.* A market order and two protective legs are three calls;
  any may be refused, or take effect with its answer lost, and retries repeat effects.
* *Crashes.* Between any two calls, commits or file operations; start-up has to make sense of it.
* *Limits.* The queues at their depth, retry limits, positions at their maximum.
* *Stale state and time.* Settings copied at each tick, registries refreshed a minute ago, alerts
  raised at edges, bar closes that pass while a tick or a backtest holds the loop.
* *Liveness.* Orders that wait, exits nobody notices, downloads repeated for ever, a shutdown that
  waits for a queue.

What makes each part correct: the queue's five pieces of bookkeeping agree and it is a bounded
priority buffer; account, position rows, journal and monitor tasks agree, every open leg has an
owner and no order is submitted twice; calls keep their gaps; what is recorded as deployed is
installed, and what is served belongs together; a retired model is retired for cause and soon stops
voting; no change of a setting is lost; every loss episode and every accepted alert is told; every
bar close gets its tick; every backtest run settles once, its rows agree with its trades, and its
simulated position respects its levels.

## 2. Modules

| Module | Models | State and actions in terms of the code |
|---|---|---|
| `Orders` | `OrderRequest`, `order_priority`, heap order | pure operators |
| `PriorityBuffer` | the abstract promise of the queue | `waiting`, `serving`; submit, serve, answer, release, close |
| `OrderQueue` | `AsyncBroker` without the HTTP calls | a variable per attribute (`heap`, `evicted`, `active`, `event`, `mirror`, `seen`, `nextSeq`); `enqueue` is three actions by its outcome (room, refused, evicting); the drain loop is get / process / callback, one action per stretch between awaits |
| `TradingState` | what the actors share | account (`held`, `legs`, `executed`), database (`rows`, `orders`, `journal`), tasks (`queue`, `drain`, `monitors`, `taskOf`, `tick`) |
| `T212Exchange` | the exchange (external) | legs trigger, die, are cancelled; the account is never short |
| `OcoMonitor` | `monitor_oco`, `_close_position`, `_cancel_leg` | two reads, a decision, a cancellation, each an action |
| `OrderExecution` | `_process_one`, `_on_order_fill` | market order, each leg, survivor, then the callback: BUY, SELL with its two awaited cancellations, or not filled |
| `TradingCore` | `tick`, `run_gates`, kill switch, `reconcile_positions`, crash, start-up | composes all of the above: `Next`, `Spec`, `Fairness` |
| `Positions` | the abstract promise of the trading loop | `position` per ticker (held in the account, known to the row, changes not yet followed), `running`; buy, sell, follow, miss |
| `TradingSafety` | the properties of the trading loop | no state; the refinement mapping to `Positions` |
| `MCTrading`, `MCDesk`, `MCEventLoop`, `MCModelSync`, `MCOrderQueue`, `MCEndpointThrottle` | instances and scenes for TLC | definitions only |
| `EndpointThrottle` | `EndpointThrottle.acquire` and its callers | lock with its waiters, sleeps, ages of last calls, cancellation, calls that never ask |
| `T212Client` | `_get`, `_post`, `_delete` | an attempt with every answer and its effect at the server |
| `BotSettings` | `apply_bot_settings`, PATCH `/settings` (event loop) and `/retirement/config` (worker thread), `BotSettingsRepo` | `row`, `settings` (the object in memory), `requests` (each PATCH between its reads, its commit and its copy); a field stands for all that the code treats alike |
| `Retirement` | `record_trade`, `check_retirement`, `unretire_model`, the configuration each caller uses | `perf` (rows of `model_performance`), `closing` (the trade being recorded, one action per commit), `resets` (un-retire requests in their threads) |
| `Alerting` | `AlertManager` | queue, worker, item in hand, mail under way; what was accepted and dispatched |
| `Desk` | the parts of a tick before and around its orders, the registry's filter, overrides of models, start-up and shutdown | composes the three above: `TickStarts` (settings, registry, kill switch), `TickEnds` (equity, loss alerts), requests, trades, crash |
| `BacktestEngine` | `_run_single_model`, `_run_single_model_with_lag`, `_check_sl_tp` | `sim`: position, trades, bar counter; one step per bar |
| `BacktestState` | what the backtests share | run rows, `overrides.yaml`, settings, jobs, the event loop with its ready tasks |
| `BacktestRuns` | `_execute_backtest`, `run_backtest`, `BacktestRepo`, `reset_interrupted` | one action per commit of a run |
| `BacktestSchedule` | `BacktestScheduler`, PATCH of schedules, `_persist_overrides`, APScheduler as it is used | `patches` (each request step by step: list, remove, add, truncate, write), `due` |
| `BarClose` | `next_bar_close` for intraday, daily and weekly intervals, `is_market_open`, `schedule_bar_close` | `now`, `hours` (regular, extended, or no calendar), `sleeper` per interval |
| `EventLoop` | one loop shared by backtests and bar-close tasks | composes the five above: `Next`, `Spec`, the properties |
| `ModelSync` | `ModelSyncDaemon`, `ModelRegistry.refresh`, `scan_models`, deployments, promote / retry / demote / delete | three directories file by file, the record, failure counts, two threads, a scan with its three reads, deployment rows |
| `OrderQueueProofs`, `EndpointThrottleProofs`, `T212ClientProofs`, `TradingProofs`, `TradingSafeProofs`, `ModelSyncProofs`, `EventLoopProofs`, `DeskProofs` | theorems and their proofs | section 6 |

How the trading modules compose: `TradingState` <- `T212Exchange` <- `OcoMonitor` <-
`OrderExecution` <- `TradingCore` <- `TradingSafety` <- `MCTrading` (each EXTENDS the one before).
`BotSettings` <- `Retirement`, `Alerting` <- `Desk`, and `BacktestEngine` <- `BacktestState` <-
`BacktestRuns` <- `BacktestSchedule`, `BarClose` <- `EventLoop` compose in the same way; in `Desk`
one change of the settings meets ticks, trades and alerts, and in `EventLoop` one long backtest
delays bar closes and jobs.
Inside `OrderExecution` the queue is the buffer that `OrderQueue` is proved to implement, with room
for every order of the behaviour; eviction and depth are `OrderQueue`'s subject.

Definitions marked "Mutant" are plausible bugs of the definition that follows them; they are not
part of any specification. Replacing the real definition by its mutant makes the listed property
fail, which is how each property is known to say something.

### Scenes

`TradingState`, `ModelSync`, `Desk` and `BacktestState` have a variable `scene` that is chosen at the start and never
changes: settings (safe mode), the failures that may happen, and the bounds. One run plays several
scenes, and each property names the scenes in which the code keeps it (`Barring`, `Orderly`,
`NoCrash`, `Solo`, `Recoverable`). What a property excludes is therefore part of its statement, and
every exclusion was found necessary: with the excluded circumstance TLC finds a counterexample.

## 3. Runs

| Run | Instance | Shows |
|---|---|---|
| `OrderQueue` | 2 tickers, 6 requests, depth 2, 5 sequence numbers; 22,353 states | counters, marks, mirror, event and dedup set agree through enqueue, eviction, execution, callback and shutdown; SELLs are never evicted; the queue implements `PriorityBuffer`; every order leaves and `stop_drain` ends |
| `Trading` | 6 scenes, 184,906 states | account, rows, legs, journal and monitors agree; nothing is executed twice; re-attachment and reconciliation after a crash between any two steps or commits; exits are noticed and siblings cancelled; the loop implements `Positions` |
| `Throttle` | 3 tasks, 4 endpoints with different gaps | gaps are kept although sleepers are cancelled and one lock serves all; every waiter gets its turn |
| `T212Client` | 2 concurrent calls, 3 attempts | returns are truthful (`ReturnIsTrue`); a POST repeats only what may have had no effect, so it places no more orders than its answers explain (`OrdersExplained`) |
| `ModelSync` | 6 scenes, 2 versions, 2 attempts, 605,371 states | records are true (`RecordIsTrue`); what is served is a manifest with its own network (`ServedWhole`), also for manifests without a hash; only faulty versions are given up, active means installed, promotions settle |
| `Desk` | 10 scenes, 460,039 states | no PATCH undoes another (`NoLostSetting`); a performance row is that of its journal but for the trades whose own record failed (`WindowIsJournal`) and a model is retired only for what it shows (`RetiredForCause`); after that it takes part in one more tick at most, and in two more for each scan or question that fails (`VotesEnd`); each loss episode an interval sees is told once (`EpisodesTold`); accepted alerts go out in order, and a clean shutdown leaves none (`AlertsGoOut`) |
| `EventLoop` | 12 scenes, 400,226 states | a simulated position honours its levels (`LevelsHonoured`) and trades follow one another (`TradesInSequence`); rows agree with saved trades (`RowsTrue`); a settled run stays settled and every run settles (`SettledStaysSettled`, `EveryRunSettles`); answered schedule changes are in the file and in the jobs (`ScheduleFollowsSettings`); every close gets its tick, once and in order (`EveryCloseServed`, `OnlyLaterCloses`) |
| `BadHalt`, `BadMaxPositions`, `BadOrphan`, `BadRetry`, `BadAttempts` | one scene each | section 5 |

Scenes of `Trading`: `Two` (two tickers, no failure), `Rough` (refused calls, legs that die),
`Rejecting` (orders rejected after acceptance), `Crashing` (a crash anywhere), `Pyramid` (safe mode
off), `Stormy` (pyramiding, lost answers, failing cancellations, a crash, a start-up that cannot
fetch positions, ticks that overtake everything).

Scenes of `ModelSync`: `Plain` (promotions forward and back, retries, demotions, expiry), `Faulty`
and `Headless` (versions that lack a run, a backtest, a manifest or a network), `Crashing` (a crash
between any two file operations, networks that cannot be fetched), `Duo` (listener and poll at
work together, on a version with and one without a hash), `Busy` (scans overtaken by the daemon, a deletion).

Scenes of `Desk`: PATCHes of a row by two threads and the loop with ticks; the first PATCHes of all
with a restart; trades with overlapping un-retires and a failing record, with failing records and restarts, and with
PATCHes; models retired or disabled while ticks go on, with a refresh of the registry that fails whole
or in one of its questions, at start-up, in a tick or after a promotion; losses that enter and leave the
warning band and the halt while an alert queue of two fills, with shutdown, crash and a channel
switched on; two intervals with alerts of their own.

Scenes of `EventLoop`: every history of four bars from four shapes through the engine, and of three
bars with a bracket delay of half a bar and of a whole bar; runs of several models with up to two
failing commits and restarts; two nights beside a triggered run; schedule changes by one thread with
a night and with restarts between truncating and writing the file; changes by two threads; bar
closes of an intraday, a daily and a weekly interval from every phase of the clock, with regular
hours, extended hours and no calendar; and bar closes beside a long backtest.

### Bounds, and why they are enough

* `MaxSeq` 5 with `MaxDepth` 2: the queue is filled, evicts, carries two dead entries, and refills
  behind them. The proofs cover every depth and every set of requests.
* `MaxOrders` 3 (2 in `Stormy`): BUY, BUY, SELL is the shortest behaviour with two brackets and a
  sale; BUY, exit, BUY, exit reuses a cooled-down row.
* `MaxPositions` 2 and two tickers: the limit binds; one ticker of one scene is enough for the
  other properties, which relate pieces of state of one ticker.
* One interval: two ticks of different intervals differ only in the kill-switch reading they carry,
  and orders from several ticks already mix in the queue.
* `Desk`: two models on two intervals, one of which ticks again within a minute of a refresh; at
  most three PATCHes, three trades and three market moves. An overlap of requests needs two; an
  episode that ends and begins again needs three moves; a window that forgets (length 1 or 2)
  needs three trades.
* The alert queue holds two, so that it fills and has no room for the sentinel.
* `EventLoop`: two models, two schedules, at most two runs, two failing commits, two crashes, three
  PATCHes. Three or four bars let a position open, survive, reach a level, be closed by a signal or
  by the end of data; the shapes reach the stop, the target, both, or one only when the bar's range
  is whole.
* The clock: a bar of 4 units, a margin of 1, days of 8, three days of which the second has no
  session and the third is the Friday. Ticks last as long as they like, so that a close is missed
  by one bar and by several.
* One crash per scene: a crash during start-up leaves what the crash before it left, because
  start-up changes rows in one commit per row and nothing else that survives. It may fall between
  two commits of the fill callback or of a closing monitor (`CrashMidway`).
* Two versions, one model: versions replace each other; models share no file, row or count.
* Two attempts (`MaxAttempts` of `ModelSync`): one failure is forgiven, the second is final.
* Gaps 0 to 3 time units: unequal gaps make sleepers wait behind one another.

## 4. Fairness

* Event loop: the drain task, monitors, ready throttle waiters and the start of the drain loop are
  weakly fair, because asyncio runs every ready callback. The awaits inside end: HTTP calls have a
  30 s timeout and at most three attempts, the fill poll a deadline, `stop_drain` waits at most 30 s.
* Time passes (`Tick` of the throttle).
* In `EventLoop` the progress steps together are weakly fair: the event loop or some thread goes on,
  which is all that asyncio and the interpreter promise. No step is given priority and no request is
  forced; a run settles because its task cannot be overtaken for ever by a bounded number of others.
* In `Desk` the alert worker is weakly fair except while a mail is under way: a post to Slack has a
  timeout of ten seconds, SMTP has none, so nothing forces `MailSent`.
* The container restarts a dead process (`restart: unless-stopped`), so start-up is fair.
* The daemon's poll repeats every `poll_interval` and its requests and file operations end.
* Nothing forces signals, triggers of legs, kill-switch changes, crashes, API calls or messages;
  no property relies on one of them happening, and failures need no strong fairness because
  retries are bounded - where they are not, `BadAttempts` shows it.

## 5. Where code and documents disagree

| Run | The code | The document |
|---|---|---|
| `BadHalt` | an order queued before the kill switch is engaged is still executed: the switch is read once per tick | `README.md:33` "blocks all order submission" |
| `BadMaxPositions` | all signals of a tick are judged by the same position rows | `FEATURES.md:69` "Hard limit on concurrent open positions" |
| `BadOrphan` | a leg fills while the bot is down: the row goes, the sibling stays open | `FEATURES.md:101` "Cancels surviving leg when other reaches terminal state" |
| `BadRetry` | a POST whose answer is lost is sent again | `FEATURES.md:92` "prevents accidental re-submission" |
| `BadAttempts` | the failure count restarts with every poll if only the logged model's download fails | `config.py:189` "retries before marking deployment failed" |

Behaviours met on the way that no run is devoted to. Each is the reason for a scene or circumstance
that a property excludes, or a remark in "hazards".

*Orders and positions.* Two ticks buy one ticker in safe mode before the first fill is recorded;
failed and stale orders stay `pending`; a market order that ends REJECTED is recorded as filled;
start-up removes the row of a position that was closed meanwhile without a cooldown; a row reopened
over a cooldown row keeps its old (empty) model, so its exit after a restart is not journalled; if
the exchange gives up the second leg between the monitor's two reads, the fill of the first goes
unnoticed; the first bracket of a pyramided position to fill closes the whole row; a crash between
the row of a BUY and its bracket ids leaves two legs that no one watches; status polls and
cancellations bypass the throttle; a daily-loss halt and a retirement also block SELL exits; the
day's open is the first equity row of the UTC day; the sector gate looks sectors up by exchange
ticker, which its table does not hold, and so counts nothing; a model's `pyramiding: false` cannot
override a global `true`.

*Settings and models.* `apply_bot_settings` ignores zeros, so a limit cannot be set to 0; the first
PATCH of all creates a row with empty exchange keys, whereupon ticks are skipped and column defaults
take the place of `overrides.yaml`; two first PATCHes undo each other or fail; `extended_hours`, the
queue depth and the stale multiplier are captured at start-up; `slack_min_level` and the SMTP fields
are stored and never applied; a retirement field of null breaks the fill callback before it starts
the monitor; the API stores per-model retirement overrides and reports them as effective, but no
evaluation reads them; monitors re-attached at start-up use the default retirement configuration,
and a retirement that a monitor causes goes to the webhook only; an un-retire that overlaps the
record of a trade of its model is undone in part, since the counters read before it are written back, or
the model is retired again on an empty window; a trade whose record fails stays
in the journal and never reaches the counters; a refresh whose scan of the directory fails keeps the
old models and still puts the next one off by a minute.

*Backtests and schedule.* Jobs of several models that come due at once: the first holds the event
loop, and APScheduler drops the others, which are more than its grace of one second late; the
engine has no cooldown although `FEATURES.md:143` calls the simulation identical; jobs never
simulate the bracket delay; a gap through the stop fills at the stop's price, and the last bar's
range is never looked at; after a failed flush the session of a run is unusable, yet the run ends
`done` without the rows of later models; concurrent schedule PATCHes can leave the job of a disabled
model, or end halfway with `JobLookupError`, and one that meets a new entry of `model_overrides` while it
goes over them fails before it writes; a crash between truncating and writing
`overrides.yaml` leaves an empty file, which is read as the defaults; models delivered after
start-up get no job until the schedule is changed.

*Alerts and time.* The alert queue drops the newest message, where `alerting.py:41` says the oldest; the
shutdown sentinel may find no room, and then shutdown takes its five seconds; a session's last
intraday close is never served, because the market is closed once the margin has passed; closes
that pass during a tick are skipped, not made up for.

*Model sync.* Poll and listener can each give up, or record as synced, a version whose files the other
has just cleared; a rolled-back promotion after a crash leaves a record without files; a version
without a manifest is marked active and never served; a manifest whose `model_hash` is "unknown" is
never checked, so what two threads mix under it is served; the network can be exchanged between its hash check and
its loading; a promotion in progress installs a model again that is being deleted.

## 6. Proofs

Checked with TLAPS (SMT, Zenon, PTL): 43 theorems in eight modules, listed in `PROJECT.json`. Each
holds for every value of the constants that satisfies the named ASSUMEs of the modules
(`QueueAssumption`, `RequestAssumption`, `ThrottleAssumption`, `ClientAssumption`,
`TradingAssumption`, `SyncAssumption`, `DeskAssumption`, `EngineAssumption`, `BacktestAssumption`,
`BarCloseAssumption`): any number of orders, tickers, intervals, models, versions, histories, threads
and crashes, and every scene of the type `Scene`, not only those of the runs. Every safety property
of a passing run, action properties and the two refinements included, is the subject of a theorem.

Each proof module follows one pattern: an invariant of named conjuncts, checked with TLC on the runs'
scenes before it was proved; a lemma per action (and per conjunct where the action disturbs
several); lemmas "what this step leaves alone" for the others; and a theorem that draws the property
from the invariant. Invariants are stacked where one needs another: a later layer is proved with the
earlier one as hypothesis.

**`OrderQueueProofs`.** `QueueCorrect`: `Spec => []QueueInv`. None of the interesting properties is
inductive alone: `Accounting` (the counter equals live entries plus the one in hand) needs that
sequence numbers identify entries (`HeapWellFormed`) and that a mark always names an entry still in
the heap (`MarksResolved`); `MirrorExact` needs that the eviction victim is live;
`OneOutstandingPerKey` needs both. Cardinalities are handled by `Counts`. From it follow
`TypeCorrect`, `SellsSurvive` (an accepted SELL
leaves only into the drain task), `QueueBookkeeping` (the four parts of `Bookkeeping`) and
`QueueImplementsBuffer`, the refinement of `PriorityBuffer`: each queue step maps to a submit, serve,
answer, release, close or stutter.

**`EndpointThrottleProofs`.** `ThrottleSpacesCalls`: the invariant says that only the head of the lock's
line sleeps and that sleep plus age covers the gap (`SleepIsCovered`); it needs that a task stands in
line exactly once while it waits, which `WithoutKeeps` preserves under cancellation.

**`T212ClientProofs`.** `ReturnsAreTrue`, `DenialIsFinal`, `RepeatsAreExplained`, from one
invariant. Each order beyond the first is explained by an earlier answer that left open whether
the attempt had placed one; it needs that a POST is never sent again after an answer that settles it
(`AnsweredEnds`).

**`TradingProofs` and `TradingSafeProofs`.** Five layers, each inductive on top of the one
before, a sixth on top of `Kept`, and a refinement.

| Layer | Says | Gives |
|---|---|---|
| `Typed` | types; every id that is held anywhere is the id of an order of that ticker and side | `TypeOK` |
| `Sound` | an order waits, executes or is over (`ExecutedOnce`); brackets are placed in order and only for executed BUYs; what a monitor has read of a leg is still true of it (`SeenTrue`); recorded brackets are watched (`Watched`); journal entries stand for executions (`Backed`) | `NeverExecutedTwice`, the three parts of the journal and register that need no scene |
| `Tidy` | without pyramiding a ticker has one bracket at work, and the register names its monitor | `ProtectionMonitored`, `ReconcileAgrees` |
| `Kept` | in scenes without lost and rejected orders, and without a start-up that cannot fetch: the account holds at most the one open BUY, and what is sold was open (`Books`) | `NothingForgotten`, `PricedJournal` |
| `Owned`, `Exact` | without crashes: every open leg has an owner (`Tended`); row and account agree up to the exit in flight (`Sharp`) | `EveryLegOwned`, `Agreement` |
| `Posted` | in any scene: what the account holds is what was bought and not sold (`Balanced`), and no two journal entries are for one execution (`EntriesOnce`); a monitor's quantity is at most that of its BUY, or of the row it was started for (`QuantitiesTrue`) | `JournalBacked` |

Why so many: `Agreement` says that a row equals the account when nothing is in flight, and the
induction must say what is the case when something is - between the fill of a leg and the monitor's
poll, between the callback's row and its cancellation, between a SELL and its second await. That the
account and a row can only differ by the quantity of one bracket rests on there being only one
(`Tidy`), which rests on the gates having seen every earlier BUY (`TickStarts` waits for a quiet
broker outside `overlap`).

*The journal and the account.* `JournalWithinBought` compares what the journal says was sold with what
was bought. The induction has no use for these sums: it shows that the account is balanced and that
each entry stands for an execution of its own, of no smaller quantity (`EntryTrue`: a SELL is
journalled at the end of its order, an exit by a monitor that will not read its legs again). The sums
follow: the entries map injectively to sales (`JournalledIsSold`), so they come to no more shares
(`TotalWithin`), and what was sold is what was bought less what is held. Shares are counted one by one
(`Total`, a cardinality), with `TotalAdd` for one more trade.

*The refinement.* `Positions` says what the loop promises about one position without orders, legs,
monitors or calls: it is bought only when nothing is held and its row is up to date; the row changes
only because the account has, one change at a time and in order; what is sold while the process is
down is noticed at the start unless the row never knew of the purchase. A row may be two changes
behind: a leg fills before the fill callback, or between the fetch and the write of a start-up; `Lag`
reads this from the state (`Untold`). `TradingFollowsAccount` proves `Spec => RowsFollowAccount` from
`Kept`: each action is one move of each position (`OneMove`, a lemma per action). It covers crashes
between any two commits, refused calls, failing cancellations and legs that die; the mapping is
constant in scenes with pyramiding, overlapping ticks, and fills that the broker reports wrongly
(`Faithful`), for which `Positions` would promise too much. `NothingForgotten` (a row is closed only
when nothing is held) is a consequence of `Positions` and is therefore in no run; it is also proved
directly, as `ClosedPositionsAreSold`.

**`ModelSyncProofs`.** `Working` says what each program counter of
a worker guarantees about the staging and copy directories, and gives `OnlyFaultyFails`. `Unmixed` follows the files: while a single thread
works, no directory that a scan looks at has files of two versions, whatever crashes and interrupted
downloads left. With `ScansAlone` (a scan that nothing overtakes reads one directory) it gives
`ServedWhole` for manifests without a hash, which are never compared; for the others, and for two
threads that collide in their directories, the comparison does. `Truthful`
follows a version through `_promote`: while its worker is between two file operations, what is in
the copy directory is complete (`InPlace`), versions are promoted forward (`Forward`, `InOrder`), and
what a crash removed is not recorded as production (`Lost`); it gives `RecordIsTrue` and
`ActiveInstalled`.

**`EventLoopProofs`.** `Punctual` relates each sleeper to the clock: a task sleeps until the first close
after it fell asleep, and every close before that has been answered; it gives `EveryCloseServed` and `OnlyLaterCloses` for
every length of bars, margins, sessions and days, and needs arithmetic of closes and weekdays.
`Consistent` says of a simulation in progress what a position promises about every bar since its
entry, including those exempted by the delay; it gives `LevelsHonoured` and `TradesInSequence` for
every price history. `InTurn` (of all runs only one executes, the one the loop holds, and queued tasks
are of runs that wait) and `Accounted` (rows agree with saved trades up to the model in hand) give
`RowsTrue` and `SettledStaysSettled`. `Scheduled` follows each PATCH from the settings to the file
(`FileTrue`) and to the jobs (`JobsTrue`) and gives `ScheduleFollowsSettings`.

**`DeskProofs`.** One invariant for each subject. `BasedOnSeen`: what a PATCH will commit starts from the
row it has read (`NoLostSetting`). `Voting`: how long a retired model can still be
loaded, counted against the scans and questions that failed (`VotesEnd`). `Edges`: what each closure remembers is
the last level it heard, and the alerts told are the non-empty ones heard, in order (`EpisodesTold`).
`Recording`: what `record_trade` and `check_retirement` have read and not yet written agrees with the
trades that count, commit by commit and wherever an exception ends it (`WindowIsJournal`,
`RetiredForCause`). `Conveyed`: accepted alerts are the
dispatched ones, the item in hand and the queue, in this order; it gives `CleanEndDispatchesAll`, the
safety half of `AlertsGoOut`.

### What the proofs changed

Attempts that failed led to larger TLC bounds, and these to corrections of the models and properties:

* `PricedJournal` and `JournalWithinBought` hold only in the narrower circumstances they now state:
  with four orders TLC finds a pyramided position that is closed under a SELL still filling, and
  a restarted monitor that names the quantity of a row of several BUYs.
* `RecordIsTrue` and `ActiveInstalled` exclude a demotion after a crashed promotion, not only a
  rollback: after either, any version may be promoted next, also the one whose files are gone.
* Outside `overlap`, a tick starts when no other tick is between its gates and its orders
  (`TickStarts`): the guard had only asked for a quiet broker.
* `JournalWithinBought` counts shares by the cardinality of a set of shares instead of summing with the
  library's fold, about which nothing can be proved without induction over data; the two agree.
* `EpisodesTold` is stated by positions instead of by filtering a sequence with a recursive operator,
  and a CASE with overlapping guards in `TickTakes` became an IF.
* Assumptions on constants were added where a proof showed they are needed: the sets of tickers,
  models and threads are finite; markers such as `"none"`, `"global"` and `"loop"` name no model or
  thread; a bar contains its opening price; a session has a positive length and a bar fits into a
  day. A backtest selection names no model twice: it is read from directories, one per model. (During
  a promotion `<name>` and `<name>.tmp` may both be there and state one run name; the two entries then
  count as two models.)

### Only model-checked

* All liveness: `EveryOrderLeaves`, `ShutdownEnds`, `ExitRecorded`, `BracketResolved`, `WaitEnds`,
  `Deployed`, `EveryRunSettles` and the second half of `AlertsGoOut`. Fairness and ENABLED are out of
  the prover's reach.
* What a recursive definition computes (`Sum` of outcomes in `Retirement`): the theorems treat it as a
  function of the window.

`TypeOK` of `EndpointThrottle` and `T212Client` belongs to their proved invariants, that of `ModelSync`
is `SyncTypes`; of `EventLoop` and `Desk` it is stated in the parts the invariants need
(`RunsTyped`, `ScheduleTyped`, `RetirementTyped`, `SettingsTyped`). None of these is part of a run,
where it would add nothing to the properties.

## 7. What is simplified

* Quantities are counted in the size of one BUY; prices, times and texts are left out. A bracket's
  two leg ids are one number, because the code records both or neither.
* A HOLD from the daily-loss halt, a retired model, a full sector or an undecided consensus is a HOLD
  signal: `Trading` lets the models give any signals at any time. Safe mode is the effective setting
  after the override chain; `safe = FALSE` also stands for `dangerously_allow_pyramid`.
* Each tick has its own bar time, so order ids and keys are new. Deduplication is in `OrderQueue`.
* The callback is one step up to each await; a crash between two of its commits is `CrashMidway`. A
  poll of a leg that fails is a slow poll.
* Without `overlap`, ticks and the end of a cooldown do not overtake the calls for one order: they are
  seconds against minutes. `Stormy` drops this.
* Repeated POSTs are in `T212Client` only; in the trading modules a call takes effect at most once.
* A settings field stands for a class: copied unless zero or empty, copied unless None, always
  copied. Validation of single fields and the switch of the data provider are left out.
* Outcomes of trades are numbers of either sign, windows hold one or two; the age of a model is
  "young" or "old". `since` in `Retirement` is the sequence of journalled
  outcomes since the last un-retire; when the record of a trade ends before its commit, by an exception, a
  crash or a refused configuration, its outcome is taken out again.
* `apply_bot_settings` also copies `schedule_enabled`, `cron` and `lookback_days` of the backtests from
  the settings row. Nothing in the repository fills these columns (no field of `BotSettingsUpdate` does),
  so they are NULL and the copy does nothing; `BacktestSchedule` leaves it out. With a row filled by
  other means the object in memory and `overrides.yaml` would differ, and `ScheduleFollowsSettings` says
  nothing of that.
* The engine trades one share at whole prices; the signal of a bar is any signal, so features,
  networks, sizes and metrics are left out. Providers return any history or fail.
* A session is the same hours each day; half days and changes of the clock are other values of
  `MarketClose`. All intervals share one margin.
* In `Desk` the calls of a tick between its two parts (equity, prices, signals) are one gap, and the
  orders it produces belong to `Trading`.
* `ModelSync` removes a directory in one step, and copies and downloads file by file.

## 8. Not modelled, and why

* Security and authentication: outside the subject of these models.
* Data providers, features, normalisation, inference: pure I/O, or numerical and stateless.
* Sector gates, sizing, consensus: floating-point functions without state; `Trading` lets their
  results be any signal, and counts positions and quantities exactly.
* Webhook and stream bus: posts and publications that nothing waits for or reads back.
* Health endpoint: one comparison of the last tick with twice the longest interval (overnight it
  reports a stale bot). Instrument map: a lookup chain filled from one download.
* Cache: best effort, its loss changes nothing. Migrations: generated, run once. CLI, metrics,
  logging, telemetry: plumbing.
* Of the repositories, the listings and single-row reads; of the model API, adoption, forking,
  visibility and listings, which do not touch the daemon.

## 9. Plan

Modelled and proved: the queue and the trading loop with their refinements, `T212Client`,
`EndpointThrottle`, `ModelSync`, the desk (settings, retirement, alerts), the event loop (backtests,
schedule, bar closes). Left:

1. If the tick grows: sector caps as an operator of `Approved`, once the gate looks up the ticker its
   table holds.
2. Three races that the models contain and the properties leave out, as claims with runs of their own:
   the exchange of a network between its hash check and its loading, a promotion beside a deletion, and
   an un-retire beside the record of a trade.
